\* One user, one proxied request, one API handler and the sweeper.
SPECIFICATION HSpec
CONSTANTS
    Users = {u1}
    Sandboxes = {s1}
    CronTimes = {}
    Requests = {r1}
    Handlers = {h1}
    Sweeper = Sweeper
    Waker = Waker
    NoUser = NoUser
    NoClaim = NoClaim
    NoSandbox = NoSandbox
    NoCron = NoCron
    Unlocked = Unlocked
    IdleTimeout = 1
    ActiveTimeout = 0
    Cap = 1
    Grace = 0
    SuspendTelegramUsers = FALSE
    Asked = {"create", "delete", "suspend", "resume"}
    Watched = {"uptime", "created"}
SYMMETRY Symmetry
INVARIANT HTypeOK
PROPERTIES SweepSparesOpenRequests RestartForgivesIdleness CreatedStartsFresh
