SPECIFICATION MSpec
CONSTANTS
    alice = alice
    bob = bob
    None = None
    NoMsg = NoMsg
    Users = {alice, bob}
    Conns = {c1, c2}
    LoginKinds = {"session_auth"}
    Statuses = {}
    Friends0 = {}
    Tokens0 = {alice, bob}
    Expiring = {}
    Bannable = {}
    Deletable = {bob}
    Relogin = TRUE
    Msgs = {m1, m2}
    Group = {m2}
    Queue0 = {}
    From <- FromAlice
    To <- ToBob
    Blockers = {}
    MaxFaults = 1
INVARIANTS NoRowDeletedUnsent OnlyRecipientGets ConvoNotStranded OnceUnlessOverlapped EntryIsOwned
SYMMETRY ConnSymmetry
CHECK_DEADLOCK FALSE
