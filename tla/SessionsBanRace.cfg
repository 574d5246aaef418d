SPECIFICATION Spec
CONSTANTS
    alice = alice
    bob = bob
    None = None
    Users = {alice}
    Conns = {c1, c2}
    LoginKinds = {"auth"}
    Statuses = {}
    Friends0 = {}
    Tokens0 = {}
    Expiring = {}
    Bannable = {alice}
    Deletable = {}
    Relogin = FALSE
INVARIANT BannedIsLoggedOut
CHECK_DEADLOCK FALSE
