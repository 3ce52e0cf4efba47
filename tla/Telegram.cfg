\* One user, one sandbox, goroutines that set and remove a token.
SPECIFICATION Spec
CONSTANTS
    Users = {u1}
    Sandboxes = {s1}
    Calls = {c1, c2}
    CronTimes = {}
    Tokens = {t1, t2}
    NoUser = NoUser
    NoClaim = NoClaim
    NoSandbox = NoSandbox
    NoCron = NoCron
    NoToken = NoToken
SYMMETRY Symmetry
INVARIANT TypeOK
PROPERTIES SetTokenInstalls RemoveTokenCleans
