CONSTANTS
    Clients = {"a"}
    Local = {"a"}
    Killable = {"a", "server"}
    Conns <- MCConns
    Backlog = 2
    Outcomes = {"reply", "refuse", "crash"}
SPECIFICATION TimelySpec
PROPERTIES Answered SlotFreed Reconnects VisibleState
