\* Liveness of the sweeper: one user, the API, no proxied request.
SPECIFICATION FairSpec
CONSTANTS
    Users = {u1}
    Sandboxes = {s1}
    CronTimes = {}
    Requests = {}
    Handlers = {h1}
    Sweeper = Sweeper
    Waker = Waker
    NoUser = NoUser
    NoClaim = NoClaim
    NoSandbox = NoSandbox
    NoCron = NoCron
    Unlocked = Unlocked
    IdleTimeout = 1
    ActiveTimeout = 0
    Cap = 1
    Grace = 0
    SuspendTelegramUsers = FALSE
    Asked = {"create", "delete", "suspend", "resume", "exempt", "unexempt"}
    Watched = {"uptime"}
PROPERTY AwayIsSuspended
