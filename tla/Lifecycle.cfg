\* One user, two goroutines, jobs in the pod; no symmetry, for liveness.
SPECIFICATION FairSpec
CONSTANTS
    Users = {u1}
    Sandboxes = {s1}
    Calls = {c1, c2}
    CronTimes = {0, 1}
    NoUser = NoUser
    NoClaim = NoClaim
    NoSandbox = NoSandbox
    NoCron = NoCron
    Unlocked = Unlocked
INVARIANTS TypeOK OneWaker NoRedundantWake
PROPERTIES WaitsForRunning StatesMoveAlongLifecycle CallsReturn
