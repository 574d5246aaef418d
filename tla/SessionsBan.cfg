SPECIFICATION FairSpec
CONSTANTS
    alice = alice
    bob = bob
    None = None
    Users = {alice, bob}
    Conns = {c1, c2}
    LoginKinds = {"auth","session_auth","qr_login_check"}
    Statuses = {}
    Friends0 <- AliceBob
    Tokens0 = {alice, bob}
    Expiring = {alice}
    Bannable = {alice}
    Deletable = {alice}
    Relogin = FALSE
PROPERTIES OneSessionSpec ClosedHandlersExit StalePresenceClears
CHECK_DEADLOCK FALSE
