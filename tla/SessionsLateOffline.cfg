SPECIFICATION Spec
CONSTANTS
    alice = alice
    bob = bob
    None = None
    Users = {alice, bob}
    Conns = {c1, c2, c3}
    LoginKinds = {"session_auth"}
    Statuses = {}
    Friends0 <- AliceBob
    Tokens0 = {alice, bob}
    Expiring = {}
    Bannable = {}
    Deletable = {}
    Relogin = FALSE
INVARIANT OnlineIsShown
SYMMETRY ConnSymmetry
CHECK_DEADLOCK FALSE
