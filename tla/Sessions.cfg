\* One user, two handlers of the admin API, a browser with two tabs.
SPECIFICATION Spec
CONSTANTS
    Users = {u1}
    Handlers = {h1, h2}
    Tokens = {k1, k2, k3}
    NoToken = NoToken
    NoUser = NoUser
    Tabs = {t1, t2}
CHECK_DEADLOCK FALSE
SYMMETRY Symmetry
INVARIANTS SessionsTypeOK NobodyLockedOut LetInStaysIn
PROPERTIES UncrossedTokenWorks RedirectsStayHome
