\* Three clients of one player.
SPECIFICATION SessionSpec
CONSTANTS
    Clients = {c1, c2, c3}
    Players = {p1}
    NoOne = NoOne
INVARIANT OneClientAtATime
CHECK_DEADLOCK FALSE
