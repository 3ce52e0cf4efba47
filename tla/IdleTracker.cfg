\* Two users, two requests; the active window is longer than the base one.
SPECIFICATION HSpec
CONSTANTS
    Users = {u1, u2}
    Requests = {r1, r2}
    NoUser = NoUser
    IdleTimeout = 1
    ActiveTimeout = 2
    Cap = 3
SYMMETRY Symmetry
INVARIANTS HTypeOK InflightExact OneActivityIsNoConversation
PROPERTY IdleOnlyByWaiting
