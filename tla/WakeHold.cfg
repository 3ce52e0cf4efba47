\* One user, three goroutines, a deadline of one tick, one spinning newcomer.
SPECIFICATION HoldSpec
CONSTANTS
    Users = {u1}
    Sandboxes = {s1}
    Calls = {c1, c2, c3}
    CronTimes = {}
    NoUser = NoUser
    NoClaim = NoClaim
    NoSandbox = NoSandbox
    NoCron = NoCron
    Unlocked = Unlocked
    WakeTimeout = 1
    MaxSpins = 1
SYMMETRY Symmetry
INVARIANTS HoldTypeOK HeldByQueue
