SPECIFICATION Spec
CONSTANTS
    Ids = {d1, d2}
    Games = {g1, g2, g3}
    NoGame = NoGame
    Players = {p1, p2}
    numMaxPlayers = 2
    MaxQueue = 3
    MaxJoins = 3
SYMMETRY GameSymmetry
INVARIANTS
    TypeOK
    OneGamePerId
CHECK_DEADLOCK FALSE
