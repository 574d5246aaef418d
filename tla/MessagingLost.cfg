SPECIFICATION MSpec
CONSTANTS
    alice = alice
    bob = bob
    None = None
    NoMsg = NoMsg
    Users = {alice, bob}
    Conns = {c1, c2}
    LoginKinds = {"session_auth"}
    Statuses = {}
    Friends0 = {}
    Tokens0 = {bob}
    Expiring = {}
    Bannable = {}
    Deletable = {}
    Relogin = FALSE
    Msgs = {m1}
    Group = {}
    Queue0 = {m1}
    From <- FromAlice
    To <- ToBob
    Blockers = {}
    MaxFaults = 0
INVARIANT StoredIsReplayed
CHECK_DEADLOCK FALSE
