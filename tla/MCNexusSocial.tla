---------------------------- MODULE MCNexusSocial ----------------------------
(* Accounts and friendships, one kind of work per behaviour.               *)
EXTENDS NexusSocial, TLC

CONSTANTS alice, bob, carol

MCPeople == [f \in Flows |-> CASE f \in AccountFlows -> {alice}
                               [] f = "friends" -> {alice, bob}
                               [] f = "rooms" -> {alice, bob, carol}]
MCMaxFresh == [f \in Flows |-> CASE f \in {"tokens", "totp"} -> 5
                                 [] f \in {"codes", "resets"} -> 4
                                 [] f \in SocialFlows -> 0]
MCFriends0 == {<<alice, bob>>, <<bob, carol>>}
MCInvites == {{alice, bob, carol}}
Interchangeable == Permutations(Conns) \cup Permutations(Phones)
==============================================================================
