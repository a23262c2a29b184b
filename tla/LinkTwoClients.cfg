CONSTANTS
    Clients = {"a", "e"}
    Local = {"a"}
    Killable = {"a"}
    Conns <- MCConns
    Backlog = 2
    Outcomes = {"reply"}
SPECIFICATION TimelySpec
PROPERTIES TurnComes
