\* Three slots, run-ahead 1, two frames: a crash, two, an outage, a kick.
\* The game ends when its frames ran: no deadlock check.
CONSTANTS
    Players <- Three
    RunAhead = 1
    MaxFrame = 2
    Games <- MCGames
SPECIFICATION FairSpec
CHECK_DEADLOCK FALSE
INVARIANTS
    TypeOK
    InStep
    DropInTime
PROPERTIES
    GameGoesOn
