SPECIFICATION Spec
CONSTANTS
    alice = alice
    bob = bob
    None = None
    Users = {alice, bob}
    Conns = {c1, c2, c3}
    LoginKinds = {"auth"}
    Statuses = {"Away"}
    Friends0 <- AliceBob
    Tokens0 = {}
    Expiring = {}
    Bannable = {}
    Deletable = {}
    Relogin = FALSE
INVARIANTS TypeOK ServedIsRegistered GoneIsHeard
SYMMETRY ConnSymmetry
CHECK_DEADLOCK FALSE
