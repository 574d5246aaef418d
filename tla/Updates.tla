-------------------------------- MODULE Updates --------------------------------
(***************************************************************************)
(* How a release reaches a desktop: the relay's cached update manifest     *)
(* (refreshUpdateManifest and versionHandler in nexus_server/main.go), the *)
(* client's check after every login (CheckForUpdates and performUpdate in  *)
(* native_client/main.go) and the updater package, which downloads,        *)
(* verifies and swaps the binary.  Releases are numbered in the order of   *)
(* publication; the binary is Chunks blocks, each holding the number of    *)
(* the release it came from, or 0 where nothing or damaged data is.        *)
(***************************************************************************)
EXTENDS Integers, FiniteSets

CONSTANTS Checks,        \* update checks a desktop may have under way at once
          Version,       \* Version[r]: [num, pre] of release r, pre 0 for a final one
          Chunks,        \* blocks of a binary
          Inodes,        \* files the staging directory may hold
          EnvVersion     \* Phaze_LATEST_VERSION as a release, or 0 when unset

Releases == DOMAIN Version
Blocks == 1 .. Chunks
NoFile == 0
NoRelease == 0

ASSUME UpdatesAssumption ==
    /\ IsFiniteSet(Releases) /\ Releases = 1 .. Cardinality(Releases)
    /\ 1 \in Releases
    /\ \A r \in Releases : Version[r] \in [num : Nat, pre : Nat]
    /\ Chunks \in Nat \ {0} /\ EnvVersion \in Releases \cup {NoRelease}
    /\ NoFile \notin Inodes

VARIABLES
    release,    \* the newest release on GitHub
    manifest,   \* updates.manifest: [rel, source, sum]
    fresh,      \* updates.expires lies ahead
    check,      \* per check: [at, m, pos, good, ino, late]
    part,       \* file named <asset>.part in the staging directory, or NoFile
    final,      \* file named <asset> there, or NoFile
    file,       \* contents of the files
    exe,        \* contents of the running binary's path
    running,    \* release the desktop runs, or NoRelease
    overlap,    \* history: two downloads wrote one file at once, or two scripts did
    partial     \* the last copy over the binary was cut short

relayVars == <<manifest, fresh>>
diskVars == <<part, final, file, exe>>
pastVars == <<overlap, partial>>
updatesVars == <<release, relayVars, check, diskVars, running, pastVars>>

Whole(content) == \E r \in Releases : \A b \in Blocks : content[b] = r
Blank == [b \in Blocks |-> 0]

(* refreshUpdateManifest's thin manifest: a version and no platforms.      *)
EnvManifest == [rel |-> EnvVersion, source |-> "env", sum |-> FALSE]

Asleep == [at |-> "idle", m |-> EnvManifest, pos |-> 0, good |-> TRUE,
           ino |-> NoFile, late |-> FALSE]

UpdatesInit ==
    /\ release = 1
    /\ manifest = [rel |-> NoRelease, source |-> "none", sum |-> FALSE]
    /\ fresh = FALSE
    /\ check = [c \in Checks |-> Asleep]
    /\ part = NoFile /\ final = NoFile
    /\ file = [i \in Inodes |-> Blank]
    /\ exe = [b \in Blocks |-> 1]
    /\ running = 1
    /\ overlap = FALSE /\ partial = FALSE

Goes(c, at) == check' = [check EXCEPT ![c].at = at]
Ends(c) == check' = [check EXCEPT ![c] = Asleep]

(***************************************************************************)
(* The relay.                                                              *)
(***************************************************************************)

(* GitHub publishes the next release.                                      *)
Publish == release + 1 \in Releases /\ release' = release + 1
           /\ UNCHANGED <<relayVars, check, diskVars, running, pastVars>>

(* updateTTL runs out.                                                     *)
Expire == fresh /\ fresh' = FALSE
          /\ UNCHANGED <<release, manifest, check, diskVars, running, pastVars>>

(* versionHandler, under the read lock: a fresh manifest is the answer.    *)
ReadManifest(c) ==
    /\ check[c].at = "idle" /\ running # NoRelease
    /\ check' = [check EXCEPT ![c].at = IF fresh THEN "answered" ELSE "refreshing",
                              ![c].m = manifest]
    /\ UNCHANGED <<release, relayVars, diskVars, running, pastVars>>

(* Whether the manifest gets a checksum for the desktop's asset: one is    *)
(* among the release's, checksums.txt was downloaded, and names it.        *)
fetchChecksums == BOOLEAN

(* refreshUpdateManifest, under no lock: the latest release, or the thin   *)
(* manifest when GitHub fails.                                             *)
RefreshAnyRelease(c) ==  \* variant: any published release, not the latest
    /\ check[c].at = "refreshing"
    /\ \E r \in 1 .. release :
          check' = [check EXCEPT ![c].at = "storing",
                                 ![c].m = [rel |-> r, source |-> "github", sum |-> TRUE]]
    /\ UNCHANGED <<release, relayVars, diskVars, running, pastVars>>

Refresh(c) ==
    /\ check[c].at = "refreshing"
    /\ \E m \in {EnvManifest} \cup
                {[rel |-> release, source |-> "github", sum |-> s] : s \in fetchChecksums} :
          check' = [check EXCEPT ![c].at = "storing", ![c].m = m]
    /\ UNCHANGED <<release, relayVars, diskVars, running, pastVars>>

(* The store, under the write lock; it asks nobody whether another request *)
(* has stored since this one looked.                                       *)
Store(c) ==
    /\ check[c].at = "storing"
    /\ manifest' = check[c].m
    /\ fresh' = TRUE
    /\ check' = [d \in Checks |->
                   IF d = c THEN [check[c] EXCEPT !.at = "answered", !.late = FALSE]
                   ELSE [check[d] EXCEPT !.late = @ \/ check[d].at \in {"refreshing", "storing"}]]
    /\ UNCHANGED <<release, diskVars, running, pastVars>>

(***************************************************************************)
(* The client.                                                             *)
(***************************************************************************)

(* IsNewer: by number; of equal numbers a final version beats a            *)
(* pre-release, and one pre-release never beats another.                   *)
IsNewer(r, cur) ==
    \/ Version[r].num > Version[cur].num
    \/ Version[r].num = Version[cur].num /\ Version[r].pre = 0 /\ Version[cur].pre # 0

(* Fetch and PlatformAssetFor: there is an asset that can be verified.     *)
PlatformAssetFor(m) == m.rel # NoRelease /\ m.sum

(* CheckForUpdates: a failed Fetch, nothing newer, or no verifiable asset  *)
(* (the browser's download page then) ends the check; else the user is     *)
(* asked.                                                                  *)
CheckForUpdates(c) ==
    /\ check[c].at = "answered"
    /\ \/ /\ PlatformAssetFor(check[c].m) /\ IsNewer(check[c].m.rel, running)
          /\ Goes(c, "asked")
       \/ Ends(c)
    /\ UNCHANGED <<release, relayVars, diskVars, running, pastVars>>

Answer(c) ==
    /\ check[c].at = "asked"
    /\ Goes(c, "accepted") \/ Ends(c)
    /\ UNCHANGED <<release, relayVars, diskVars, running, pastVars>>

InUse == {part, final} \cup {check[d].ino : d \in Checks}

(* DownloadAndVerify opens the stream and creates <asset>.part; the file   *)
(* of that name, if there is one, is emptied and used.                     *)
CreatePart(c) ==
    /\ check[c].at = "accepted"
    /\ \/ Ends(c) /\ UNCHANGED <<part, file, overlap>>  \* the download was refused
       \/ \E i \in IF part # NoFile THEN {part} ELSE Inodes \ InUse :
             /\ part' = i
             /\ file' = [file EXCEPT ![i] = Blank]
             /\ check' = [check EXCEPT ![c].at = "loading", ![c].ino = i,
                                       ![c].pos = 0, ![c].good = TRUE]
             /\ overlap' = (overlap \/ \E d \in Checks : check[d].at = "loading")
    /\ UNCHANGED <<release, relayVars, final, exe, running, partial>>

(* One block of the stream, whole or damaged, written where this download  *)
(* stands; the hash is taken of the stream, never of the file.             *)
WriteBlock(c) ==
    /\ check[c].at = "loading" /\ check[c].pos < Chunks
    /\ \E ok \in BOOLEAN :
          /\ file' = [file EXCEPT ![check[c].ino][check[c].pos + 1] =
                                    IF ok THEN check[c].m.rel ELSE 0]
          /\ check' = [check EXCEPT ![c].pos = @ + 1, ![c].good = @ /\ ok]
    /\ UNCHANGED <<release, relayVars, part, final, exe, running, pastVars>>

(* The stream broke, or its size or hash is not the manifest's: the name   *)
(* <asset>.part is removed.                                                *)
Reject(c) ==
    /\ check[c].at = "loading"
    /\ check[c].pos < Chunks \/ ~ check[c].good
    /\ part' = NoFile
    /\ Ends(c)
    /\ UNCHANGED <<release, relayVars, final, file, exe, running, pastVars>>

(* The hash matches: the file is renamed (an error when the name is gone)  *)
(* and Apply leaves a script behind that waits for this process to exit,   *)
(* unless the binary's path is not writable.                               *)
Unverified(c) == check[c].pos = Chunks  \* variant: the hash is not compared
Verified(c) == check[c].pos = Chunks /\ check[c].good

RenameAndApply(c) ==
    /\ check[c].at = "loading" /\ Verified(c)
    /\ \/ part = NoFile /\ Ends(c) /\ UNCHANGED final
       \/ /\ part # NoFile /\ final' = part
          /\ check' \in {[check EXCEPT ![c] = [Asleep EXCEPT !.at = at]] : at \in {"swapping", "idle"}}
    /\ part' = NoFile
    /\ UNCHANGED <<release, relayVars, file, exe, running, pastVars>>

(* The script, when the process is gone or after thirty seconds of wait:   *)
(* without the staged file it stops; else cp -f opens the two files, and   *)
(* empties the binary's or makes a new one of its name.                    *)
SwapBegin(c) ==
    /\ check[c].at = "swapping"
    /\ \/ final = NoFile /\ Ends(c) /\ UNCHANGED <<exe, overlap>>
       \/ /\ final # NoFile
          /\ exe' = Blank
          /\ check' = [check EXCEPT ![c].at = "copying",
                                    ![c].ino = final, ![c].pos = 0]
          /\ overlap' = (overlap \/ \E d \in Checks : check[d].at = "copying")
    /\ UNCHANGED <<release, relayVars, part, final, file, running, partial>>

(* cp copies block by block, from the file it has opened.                  *)
SwapBlock(c) ==
    LET b == check[c].pos + 1 IN
    /\ check[c].at = "copying" /\ b \in Blocks
    /\ exe' = [exe EXCEPT ![b] = file[check[c].ino][b]]
    /\ check' = [check EXCEPT ![c].pos = b]
    /\ UNCHANGED <<release, relayVars, part, final, file, running, pastVars>>

(* The copy is complete: the script removes the staged file, whichever it  *)
(* is by now, and runs the binary.                                         *)
SwapEnd(c) ==
    /\ check[c].at = "copying" /\ check[c].pos = Chunks
    /\ final' = NoFile
    /\ running' = IF running = NoRelease /\ Whole(exe) THEN exe[1] ELSE running
    /\ partial' = FALSE
    /\ Ends(c)
    /\ UNCHANGED <<release, relayVars, part, file, exe, overlap>>

(* The script is killed, by a signal or a shutdown, or a command of it     *)
(* fails, as cp does on a full disk, and "set -e" ends it: nothing is      *)
(* removed and nothing put back.                                           *)
SwapFail(c) ==
    /\ check[c].at \in {"swapping", "copying"}
    /\ partial' = IF check[c].at = "copying" THEN check[c].pos < Chunks ELSE partial
    /\ Ends(c)
    /\ UNCHANGED <<release, relayVars, diskVars, running, overlap>>

(* The user quits: checks and downloads end where they are, scripts go on. *)
Quit ==
    /\ running # NoRelease
    /\ running' = NoRelease
    /\ check' = [c \in Checks |-> IF check[c].at \in {"swapping", "copying"}
                                 THEN check[c] ELSE Asleep]
    /\ UNCHANGED <<release, relayVars, diskVars, pastVars>>

Launch ==
    /\ running = NoRelease /\ Whole(exe)
    /\ running' = exe[1]
    /\ UNCHANGED <<release, relayVars, check, diskVars, pastVars>>

UpdatesNext ==
    \/ Publish \/ Expire \/ Quit \/ Launch
    \/ \E c \in Checks :
         \/ ReadManifest(c) \/ Refresh(c) \/ Store(c)
         \/ CheckForUpdates(c) \/ Answer(c)
         \/ CreatePart(c) \/ WriteBlock(c) \/ Reject(c) \/ RenameAndApply(c)
         \/ SwapBegin(c) \/ SwapBlock(c) \/ SwapEnd(c) \/ SwapFail(c)

UpdatesSpec == UpdatesInit /\ [][UpdatesNext]_updatesVars

(***************************************************************************)
(* Properties.                                                             *)
(***************************************************************************)

UpdatesTypeOK ==
    /\ release \in Releases
    /\ manifest \in [rel : Releases \cup {NoRelease}, source : {"none", "env", "github"}, sum : BOOLEAN]
    /\ fresh \in BOOLEAN /\ overlap \in BOOLEAN /\ partial \in BOOLEAN
    /\ part \in Inodes \cup {NoFile} /\ final \in Inodes \cup {NoFile}
    /\ file \in [Inodes -> [Blocks -> Releases \cup {0}]]
    /\ exe \in [Blocks -> Releases \cup {0}]
    /\ running \in Releases \cup {NoRelease}

(* Whatever is damaged, rejected, given up or started again, a script only *)
(* copies whole releases: the installed binary is one, or is being copied, *)
(* or the last copy over it was cut short, for cp -f puts nothing aside.   *)
(* Two updates under way break this only when both download at once (to    *)
(* the one .part file, each hashing its own stream) or both copy at once.  *)
InstalledWhole ==
    overlap \/ partial \/ Whole(exe) \/ \E c \in Checks : check[c].at = "copying"

(* A relay that offers a release goes back to an older one only when a     *)
(* request that looked at the cache before another stored in it stores     *)
(* after it (or when GitHub fails, and the thin manifest replaces it).     *)
NewerServed ==
    [][manifest.source = "github" /\ manifest'.source = "github"
         /\ manifest'.rel < manifest.rel
       => \E c \in Checks : check[c].at = "storing" /\ check[c].late]_updatesVars
=================================================================================
