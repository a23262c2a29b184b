CONSTANTS
    Clients = {"a", "e"}
    Local = {"a"}
    Killable = {"a", "server"}
    Conns <- MCConns
    Backlog = 1
    Outcomes = {"reply", "silence", "refuse", "crash"}
SPECIFICATION Spec
INVARIANTS ReplyMatches GivenUpIfLost SocketsOwned
