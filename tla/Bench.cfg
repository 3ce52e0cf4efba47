\* One or two scenarios a run, three iterations, a pool of one spare, one other signup.
SPECIFICATION Spec
CHECK_DEADLOCK FALSE
CONSTANTS
    Boxes = {b1, b2}
    Users <- AllUsers
    Guest = Guest
    Own = Own
    NoBox = NoBox
    Lost = Lost
    Leftovers <- SomeLeftovers
    Replicas = 1
    Metrics = {50, 90, 95, 100}
    Limits <- SomeLimits
    TaxLimit = 1
    AllowedWakeErrors = 0
    Iterations = 3
    Latencies = {1, 4}
    Plans <- SomePlans
INVARIANTS BenchTypeOK PoolRestored DrainSparesResidents CleanPassIsCold CleanPassIsFast CleanPassIsWhole CleanPassTimedWakes UsersGone
PROPERTIES DrainedIsRestored
