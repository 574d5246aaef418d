------------------------------ MODULE MCStandalone ------------------------------
(***************************************************************************)
(* The components that share no state with one another: the relay's rate   *)
(* limiter and release manifest (with the desktop's updater), and the      *)
(* desktop's vault, keys, contacts, calls and codec.  The initial state    *)
(* says which of them moves; the others keep their initial states, so each *)
(* reachable state is a state of one component.                            *)
(***************************************************************************)
EXTENDS NexusLimiter, Updates, DesktopVault, DesktopKeys, DesktopContacts,
        DesktopCalls, Pcmu, TLC

CONSTANTS ada, ben \* the two users and their desktops

VARIABLE moving    \* the component that moves

\* The pre-release and the final release of one version.
ReleaseVersions == <<[num |-> 1, pre |-> 1], [num |-> 1, pre |-> 0]>>

\* Checks and files are alike.
UpdatesSymmetry == Permutations(Checks) \cup Permutations(Inodes)

StandaloneInit ==
    /\ moving \in {"limiter", "updates", "vault", "keys", "contacts", "calls", "codec"}
    /\ LimiterInit /\ UpdatesInit /\ VaultInit /\ KeysInit
    /\ ContactsInit /\ CallsInit /\ PcmuInit

StandaloneNext ==
    /\ UNCHANGED moving
    /\ \/ /\ moving = "limiter" /\ LimiterNext
          /\ UNCHANGED <<updatesVars, vaultVars, keysVars, contactsVars, callsVars, pcm>>
       \/ /\ moving = "updates" /\ UpdatesNext
          /\ UNCHANGED <<limiterVars, vaultVars, keysVars, contactsVars, callsVars, pcm>>
       \/ /\ moving = "vault" /\ VaultNext
          /\ UNCHANGED <<limiterVars, updatesVars, keysVars, contactsVars, callsVars, pcm>>
       \/ /\ moving = "keys" /\ KeysNext
          /\ UNCHANGED <<limiterVars, updatesVars, vaultVars, contactsVars, callsVars, pcm>>
       \/ /\ moving = "contacts" /\ ContactsNext
          /\ UNCHANGED <<limiterVars, updatesVars, vaultVars, keysVars, callsVars, pcm>>
       \/ /\ moving = "calls" /\ CallsNext
          /\ UNCHANGED <<limiterVars, updatesVars, vaultVars, keysVars, contactsVars, pcm>>
       \/ /\ moving = "codec" /\ Speak
          /\ UNCHANGED <<limiterVars, updatesVars, vaultVars, keysVars, contactsVars, callsVars>>

standaloneVars == <<moving, limiterVars, updatesVars, vaultVars, keysVars, contactsVars, callsVars, pcm>>

StandaloneSpec == StandaloneInit /\ [][StandaloneNext]_standaloneVars

(* Every variable of the component that moves has its type.                *)
StandaloneTypeOK ==
    CASE moving = "limiter" -> LimiterTypeOK
      [] moving = "updates" -> UpdatesTypeOK
      [] moving = "vault" -> VaultTypeOK
      [] moving = "keys" -> KeysTypeOK
      [] moving = "contacts" -> ContactsTypeOK
      [] moving = "calls" -> CallsTypeOK
      [] moving = "codec" -> pcm \in Samples
=============================================================================
