------------------------------ MODULE DesktopVault ------------------------------
(***************************************************************************)
(* The desktop's database file between runs (native_client/db_vault.go and *)
(* its callers in main.go): decrypted over main.db at the start, encrypted *)
(* to main.db.enc when the application stops, under a key the keyring      *)
(* keeps.  The process may die between any two file operations, a file may *)
(* not be read or written, and the keyring may be locked or lose its       *)
(* entry: each such error is logged and the run goes on.  The database is  *)
(* the number of rows written to it; a write that returned is on the disk. *)
(***************************************************************************)
EXTENDS Integers

CONSTANTS MaxRows,    \* bound on the rows written
          MaxKeys     \* bound on the keys made

ASSUME VaultAssumption == MaxRows \in Nat /\ MaxKeys \in Nat \ {0}

NoDB == -1            \* there is no such file, or an empty one
Torn == -2            \* a copy whose write was cut short
Bad == -3             \* a malformed database
NoKey == 0

VARIABLES
    app,        \* "down", "up", or the step of encryptDBFile it is at
    plain,      \* rows of main.db, or NoDB or Bad
    journal,    \* a crash left main.db-journal
    enc,        \* main.db.enc: [rows, key]; rows is NoDB or Torn without contents
    ring,       \* the keyring's entry, or NoKey
    locked,     \* the keyring answers nothing
    made,       \* keys made so far
    blind,      \* this run has not what the copy holds
    kept,       \* history: rows of the last database encrypted in full
    promised    \* history: rows the next run must still find

vaultVars == <<app, plain, journal, enc, ring, locked, made, blind, kept, promised>>

VaultInit ==
    /\ app = "down"
    /\ plain = NoDB /\ journal = FALSE
    /\ enc = [rows |-> NoDB, key |-> NoKey]
    /\ ring = NoKey /\ locked = FALSE
    /\ made = 0
    /\ blind = FALSE
    /\ kept = 0 /\ promised = 0

(* dbVaultKey: the entry, or a new key that is stored; an error when the   *)
(* keyring is locked.  The key it returns is ring'.                        *)
HasKey == ~ locked /\ (ring # NoKey \/ made < MaxKeys)

dbVaultKey ==
    /\ HasKey
    /\ IF ring = NoKey THEN ring' = made + 1 /\ made' = made + 1
                       ELSE UNCHANGED <<ring, made>>

Rows(n) == IF n < 0 THEN 0 ELSE n

(* The copy was written in full, so that its own key opens it.             *)
Intact == enc.rows \notin {NoDB, Torn}

(* What sql.Open finds at main.db, or makes.                               *)
Emptied == 0  \* variant: a copy that does not open leaves an empty database
AsItWas == IF plain = NoDB THEN 0 ELSE plain

(* decryptDBFile, then sql.Open and the tables.  Without a copy main.db is *)
(* used; and so it is when the keyring is locked, the copy cannot be read  *)
(* or the key does not open it, for an error is only logged.               *)
StartAsItWas ==
    /\ app = "down" /\ app' = "up"
    /\ plain' = AsItWas
    /\ blind' = Intact
    /\ UNCHANGED <<ring, made>> \/ (enc.rows # NoDB /\ dbVaultKey)
    /\ journal' = FALSE
    /\ UNCHANGED <<enc, locked, kept, promised>>

(* The copy opens and is written over main.db.  SQLite rolls a journal     *)
(* left by a crash back into it, whose pages are of another database; and  *)
(* os.WriteFile empties the file first: an error then leaves it empty or   *)
(* cut short.                                                              *)
StartFromCopy ==
    /\ app = "down" /\ app' = "up"
    /\ Intact /\ dbVaultKey /\ enc.key = ring'
    /\ \/ plain' = enc.rows /\ blind' = FALSE
       \/ journal /\ plain' = Bad /\ blind' = TRUE
       \/ plain' \in {0, Bad} /\ blind' = TRUE
    /\ journal' = FALSE
    /\ UNCHANGED <<enc, locked, kept, promised>>

(* The process dies while it writes main.db.                               *)
StartCrash ==
    /\ app = "down"
    /\ Intact /\ dbVaultKey /\ enc.key = ring'
    /\ plain' \in {NoDB, Bad}
    /\ UNCHANGED <<app, journal, enc, locked, blind, kept, promised>>

Write ==
    /\ app = "up" /\ plain \in 0 .. MaxRows - 1
    /\ plain' = plain + 1
    /\ promised' = plain'
    /\ UNCHANGED <<app, journal, enc, ring, locked, made, blind, kept>>

(* SetOnStopped: the database is closed and encryptDBFile begins.  When it *)
(* cannot read main.db, has no key or cannot open the copy, it only logs:  *)
(* main.db stays, and the run ends as a crash would end it.                *)
Stop ==
    /\ app = "up"
    /\ \/ dbVaultKey /\ app' = "sealing" /\ UNCHANGED promised
       \/ /\ dbVaultKey \/ UNCHANGED <<ring, made>>
          /\ app' = "down" /\ promised' = kept
    /\ UNCHANGED <<plain, journal, enc, locked, blind, kept>>

(* os.WriteFile empties the file, then fills it; os.Remove deletes main.db.*)
(* A run that has not what the copy held writes over it here.              *)
SealBegin ==
    /\ app = "sealing" /\ app' = "writing"
    /\ \E t \in {NoDB, Torn} : enc' = [rows |-> t, key |-> ring]
    /\ IF blind THEN promised' = Rows(plain) /\ kept' = Rows(plain)
                ELSE UNCHANGED <<promised, kept>>
    /\ UNCHANGED <<plain, journal, ring, locked, made, blind>>

SealEnd ==
    /\ app = "writing" /\ app' = "removing"
    /\ enc' = [rows |-> plain, key |-> enc.key]
    /\ kept' = Rows(plain)
    /\ UNCHANGED <<plain, journal, ring, locked, made, blind, promised>>

RemovePlain ==
    /\ app = "removing" /\ app' = "down"
    /\ plain' = NoDB
    /\ UNCHANGED <<journal, enc, ring, locked, made, blind, kept, promised>>

encryptDBFile == SealBegin \/ SealEnd \/ RemovePlain

(* The process dies, or the write of the copy or the removal of main.db    *)
(* fails.  Until the copy is being written, what was written since the     *)
(* last stop counts as lost: the next start decrypts the last stop's copy  *)
(* over it.                                                                *)
VaultCrash ==
    /\ app # "down"
    /\ app' = "down"
    /\ journal' \in IF app = "up" THEN BOOLEAN ELSE {journal}
    /\ promised' = IF app \in {"up", "sealing"} THEN kept ELSE promised
    /\ UNCHANGED <<plain, enc, ring, locked, made, blind, kept>>

(* The keyring loses the entry, is locked, or is unlocked.                 *)
Keyring ==
    /\ \/ ring # NoKey /\ ring' = NoKey /\ UNCHANGED locked
       \/ locked' = ~ locked /\ UNCHANGED ring
    /\ app \in {"up", "down"}
    /\ UNCHANGED <<app, plain, journal, enc, made, blind, kept, promised>>

VaultNext == StartAsItWas \/ StartFromCopy \/ StartCrash \/ Write \/ Stop \/ encryptDBFile \/ VaultCrash \/ Keyring

VaultSpec == VaultInit /\ [][VaultNext]_vaultVars

(***************************************************************************)
(* Properties.                                                             *)
(***************************************************************************)

VaultTypeOK ==
    /\ app \in {"down", "up", "sealing", "writing", "removing"}
    /\ plain \in Nat \cup {NoDB, Bad}
    /\ enc \in [rows : Nat \cup {NoDB, Torn, Bad}, key : 0 .. MaxKeys]
    /\ ring \in 0 .. MaxKeys /\ made \in 0 .. MaxKeys
    /\ journal \in BOOLEAN /\ locked \in BOOLEAN /\ blind \in BOOLEAN
    /\ kept \in Nat /\ promised \in Nat

(* A run whose stop wrote the copy leaves all its rows to the next one; a  *)
(* crash, or a stop that could not begin to write it, at most takes the    *)
(* database back to the last stop, even when it comes in the middle of     *)
(* writing the copy.  A run that has not what the copy holds, because the  *)
(* copy did not open or main.db was not restored from it, may find less;   *)
(* and only when its stop seals what it has is the rest gone for good.     *)
CleanRunsKept == app = "up" /\ ~ blind => Rows(plain) >= promised
===================================================================================
