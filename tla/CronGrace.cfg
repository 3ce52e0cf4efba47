\* One user with jobs that fall due at once, the API, the sweeper and the waker.
SPECIFICATION HCronSpec
CONSTANTS
    Users = {u1}
    Sandboxes = {s1}
    CronTimes = {0, 1}
    Requests = {}
    Handlers = {h1}
    Sweeper = Sweeper
    Waker = Waker
    NoUser = NoUser
    NoClaim = NoClaim
    NoSandbox = NoSandbox
    NoCron = NoCron
    Unlocked = Unlocked
    IdleTimeout = 1
    ActiveTimeout = 0
    Cap = 1
    Grace = 2
    Interval = 0
    SuspendTelegramUsers = FALSE
    Asked = {"create", "resume"}
    Recorded = {"grants"}
INVARIANT HCronTypeOK
PROPERTY GraceShields
