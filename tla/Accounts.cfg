\* One name for the account flows, two friends, three users of one conversation
SPECIFICATION SocialSpec
CONSTANTS
    alice = alice
    bob = bob
    carol = carol
    Names = {alice, bob, carol}
    Conns = {c1, c2, c3}
    None = None
    Phones = {p1, p2}
    Flows = {"codes", "totp", "resets", "tokens", "friends", "rooms"}
    MaxQR = 1
    Rooms = {r1}
    People <- MCPeople
    MaxFresh <- MCMaxFresh
    Friends0 <- MCFriends0
    Invites <- MCInvites
SYMMETRY Interchangeable
CHECK_DEADLOCK FALSE
INVARIANTS
    SocialTypeOK
    CodesProve
    TotpConfirmed
    ResetOnce
    HoldersOnly
    ApprovedHasSession
    NothingMissed
    OneEdge
    OnlyFriends
