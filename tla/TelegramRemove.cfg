\* One user, one sandbox, goroutines that set and remove a token.
SPECIFICATION Spec
CONSTANTS
    Users = {u1}
    Sandboxes = {s1}
    Calls = {c1}
    CronTimes = {}
    Tokens = {t1}
    NoUser = NoUser
    NoClaim = NoClaim
    NoSandbox = NoSandbox
    NoCron = NoCron
    NoToken = NoToken
SYMMETRY Symmetry
PROPERTY RemoveTokenRemoves
