SPECIFICATION MFairSpec
CONSTANTS
    alice = alice
    bob = bob
    None = None
    NoMsg = NoMsg
    Users = {alice, bob}
    Conns = {c1, c2}
    LoginKinds = {"session_auth"}
    Statuses = {}
    Friends0 = {}
    Tokens0 = {alice, bob}
    Expiring = {}
    Bannable = {}
    Deletable = {bob}
    Relogin = FALSE
    Msgs = {m1, m2, m3}
    Group = {m3}
    Queue0 = {m1}
    From <- FromAlice
    To <- ToBob
    Blockers = {alice, bob}
    MaxFaults = 1
INVARIANT MutedStaysOut
PROPERTIES LoginDrainsQueue MailboxSpec
CHECK_DEADLOCK FALSE
