--------------------------- MODULE MCNexusMessaging ---------------------------
(* Small instances of NexusMessaging: alice writes to bob.                 *)
EXTENDS NexusMessaging, TLC

CONSTANTS alice, bob

FromAlice == [m \in Msgs |-> alice]
ToBob     == [m \in Msgs |-> bob]

ConnSymmetry == Permutations(Conns)
==============================================================================
