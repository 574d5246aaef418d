---------------------------- MODULE MCNexusSpaces ----------------------------
(* A small instance of NexusSpaces: the owner and one more user.           *)
EXTENDS NexusSpaces

CONSTANTS ann, ben
==============================================================================
