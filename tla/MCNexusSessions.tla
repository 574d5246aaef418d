--------------------------- MODULE MCNexusSessions ---------------------------
(* Small instances of NexusSessions: two users, who are friends or not.    *)
EXTENDS NexusSessions, TLC

CONSTANTS alice, bob

AliceBob == {<<alice, bob>>}

(* Connections are interchangeable; users are not (Bannable, Deletable).   *)
ConnSymmetry == Permutations(Conns)
==============================================================================
