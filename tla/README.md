# Phaze: models of the relay and its clients

TLA+ modules, TLC configurations and TLAPS proofs for the Phaze messenger: the
Go relay (`src/nexus_server/main.go`), the Go/Fyne desktop client
(`src/native_client`) and the React web client (`src/web`). This document
says what the system consists of, what is modelled and how, what the runs and
the proofs show, and what is left. Paths below are relative to `src/`; a bare
`main.go` is the relay's.

## 1. The system

Clients hold one WebSocket to the relay and exchange JSON frames with it. The
relay keeps accounts and queues in SQLite and the live sessions in a map. Calls
and files go between clients by WebRTC; the relay forwards their signalling.

### The relay, nexus_server/main.go

Every connection is one goroutine in `handleConnections`, a loop "read a frame,
handle it". HTTP handlers (administration, version, metrics) are further
goroutines. They share `s.Clients` under the lock `s.Mu` and the database,
which they use one statement, or one transaction, at a time. Nothing else
orders them.

| component | state | operations | what is hard | what makes it correct |
|---|---|---|---|---|
| session registry and presence (253-292, 551-621, 1171-1185, 1271-1571, 1827-1849, 2736-2815) | `Clients`, `Client.Status`, the handler's `username`, session_tokens, qr_login_tokens, `is_banned` | login by password, token and QR code; presence; disconnect; ban and unban; account deletion | several logins of one user; the clean-up of a kicked handler runs after the new login; broadcasts follow the critical section they announce | a user is served by one connection; who is served is registered; no entry without a handler; friends end up with the right presence |
| messages and the offline queue (1125-1167, 1189-1221, 1739-1795) | offline_messages, blocks | `msg`, replay at login, `block`, `unblock` | lookup, write and queueing are separate steps; a replay selects, sends and deletes in separate steps; crashes between them; writes to closed sockets; database errors that are logged or ignored | nothing deleted unsent; only the recipient gets it; once; blocks hold; the queue drains |
| group conversations (1044-1106, 1921-2012) | conversations, conversation_members | create, send, leave | the filter on friends, the insert and the notices are separate steps; the fan-out and the queueing of a send hold the lock | every member hears of it; members were friends of the creator; no message is stranded in the queue |
| friendships (981-1041, 1862-1919) | friends | request, accept, reject, remove; signals for friends only | check-then-insert; requests in both directions; a login between the insert and the lookup | one row per pair; a request is heard of; only friends signal each other |
| spaces (845-967, 2081-2350) | servers, server_members, channels, channel_messages | create, join, leave, channel_create, channel_msg, channel_history | recipients read before the fan-out; history answers interleave with live messages | the owner stays; pages cover the channel; clients show each message once |
| credentials (492-816, 1360-1409, 1500-1737) | users, email_verifications, session_tokens, password_resets, qr_login_tokens, TOTP columns | registration, e-mail and phone codes, reset, TOTP enrolment, tokens, QR approval, deletion | read-check-write over several statements; one code column for two purposes; statements that complete after the account was deleted | verified means shown; a reset serves once; the second factor is one its holder has confirmed; tokens end with their account |
| per-address limiter (65-128) | buckets per address | `allow`, sweep, eviction | the sweep and the limit on the number of buckets take buckets away | an address gets its burst and rate once; the table is bounded |
| update manifest (2960-3090) | a cached manifest | refresh, version request | refreshes overlap, and fail | the cache does not go back |
| signalling (1814-1849, 2014-2079) | none | forward a frame to the registered recipient, of some kinds only between friends | the friendship and the recipient are looked up in separate steps | only (former) friends reach each other |
| pages, metrics, e-mail, SMS, telephony | none of their own | I/O and formatting | - | - |

### The clients

| component | state | what is hard | what makes it correct |
|---|---|---|---|
| web Spaces view (`web/src/Spaces.tsx`) | open channel, `messagesByChannel` | history replaces the list while live messages are appended; state is lost with the view | no gaps, no message twice |
| other web views, key pins (`App.tsx`, `keyPins.ts`, `e2ee.ts`) | conversations, pinned keys | asynchronous key acceptance interleaves with messages | a key is used only once pinned |
| desktop connection (`native_client/main.go` connect, ReadLoop; `internal/sentinel`) | one connection, one answer channel, `ConnMu`; goroutines that read, reconnect and watch | sign-in, its QR dialog, reconnectors and the watchdog replace the connection while a loop reads it or is about to; answers come late | one reader per connection; a desktop that lost the relay gets back |
| desktop keys (`native_client/main.go`, `internal/crypto/e2ee.go`) | pair and cache in memory, pins in the database | keys are made anew at every login; restarts and crashes lose different parts | texts are sealed for the pinned key of the right user and can be read |
| desktop database vault (`db_vault.go`) | `main.db`, `main.db.enc`, the keyring's entry | a crash leaves the encrypted copy older than the plain file, or torn; file operations fail and the run goes on | a run whose stop wrote the copy keeps its rows |
| desktop contacts (`native_client/main.go`) | the Contacts table, open dialogs | clicks and notifications change it; nothing compares it with the relay | it lists whom the relay has as friends |
| calls, file transfer (`internal/chat/webrtc.go`) | peer connections, data channels, one receive state per peer | one mutex over callbacks; connections outlive their call; framing of files | a received file is one that was sent |
| updater (`internal/updater`, CheckForUpdates) | the staging directory, the binary | several checks share one `.part` file; damaged streams; quits; a copy in place that can be cut short | only whole releases are copied over the binary |
| audio codec (`internal/chat/audio.go`) | none | clipping, segment boundaries | the error stays within half a step beside what clipping takes off |
| video, STUN, audio devices, user interface | device and widget state | - | - |

`native_client/third_party` is vendored; `scratch` and `scripts` are developer
tools. `PROJECT.json` lists every component with its status.

### How the parts meet

* A login takes the registry's lock to kick and register, releases it,
  broadcasts "Online", replays the offline queue and, when it was by password,
  reads and sends pending friend requests and conversations and reports the
  status of every friend. Logins by token and by QR code do less of the latter.
* `msg` looks the recipient up under the read lock and writes, or queues, after
  it. `convo_msg` does all of that under the lock.
* A handler that stores a friend request or a conversation looks its recipients
  up afterwards; a login registers first and queries afterwards.
* Account deletion empties tables in one transaction, then broadcasts, then
  removes its registry entry. A ban flags the row, revokes tokens and kicks:
  three steps of an HTTP handler next to the connection handlers. Statements of
  other handlers that were under way complete after either.
* Spaces use the registry to reach the connected members; the browser shows
  what arrives and asks for history.
* The desktop's parts share no variables with one another: the connection
  carries the frames of the others, the vault keeps their tables. Where one
  depends on the other it is in the model of the part: `DesktopKeys` has pins go
  back to the last encrypted copy at a crash, as `DesktopVault` says they do.

## 2. Modules

| module | models |
|---|---|
| `OneSession` | abstract: a connection begins and ends to serve a user, at most one per user |
| `NexusSessions` | the session registry, presence, logins, disconnects, bans, deletion |
| `Mailbox` | abstract: where a message can be, and what may move or drop it |
| `NexusMessaging` | extends `NexusSessions` with messages, the offline queue, blocks and restarts of the relay |
| `NexusSpaces` | a space on the relay together with the Spaces view of each browser |
| `NexusAccounts` | accounts, codes, two-factor secrets, tokens, resets, QR logins, deletion |
| `NexusSocial` | extends `NexusAccounts` with friendships, conversations and what each connection is told of them |
| `NexusLimiter` | the rate limiter |
| `Updates` | the relay's manifest cache, the desktop's check, download, verification and swap |
| `DesktopLink` | the desktop's connection: sign-in, reconnectors, watchdog, read loops |
| `DesktopKeys` | keys, pins and encrypted chats of two desktops |
| `DesktopVault` | the encrypted database file |
| `DesktopContacts` | the contact lists of two desktops and their row on the relay |
| `DesktopCalls` | call offers, connections, data channels, files |
| `Pcmu` | the u-law codec |
| `MCNexusSessions`, `MCNexusMessaging`, `MCNexusSpaces`, `MCNexusSocial`, `MCDesktopLink` | small instances for TLC |
| `MCStandalone` | the components that share no state, `NexusLimiter` to `Pcmu` without `DesktopLink`, in one specification |
| `NexusSessionsProofs` | proofs about `NexusSessions`, and that it implements `OneSession` |
| `NexusMessagingProofs` | proofs about `NexusMessaging`, on top of those about sessions, and that it implements `Mailbox` |
| `NexusAccountsProofs`, `NexusSocialProofs` | proofs about the kinds of work of `NexusSocial`: those with accounts, and friendships and conversations on top of them |
| `NexusSpacesProofs` | proofs about `NexusSpaces` |
| `DesktopLinkProofs` | proofs about `DesktopLink` |
| `DesktopPeersProofs` | proofs about `DesktopKeys`, `DesktopContacts` and `DesktopCalls` |
| `StandaloneProofs` | proofs about `NexusLimiter`, `Updates`, `DesktopVault`, `Pcmu` and the composition `MCStandalone` |

Operators marked "variant" next to a definition are plausible mistakes in that
piece of code. No specification uses them; `PROJECT.json` pairs each property
with one that breaks it.

### NexusSessions

A step is one critical section of `s.Mu` or one database statement; `pc` says
where a handler is between them. `user`, `req`, `tgt`, `say`, `todo` and `seen`
are the handler's locals; `clients` and `status` are `s.Clients` and
`Client.Status`; `accounts`, `banned`, `tokens`, `qr`, `friends` are the tables
as far as a login or a broadcast reads them. `shown[c][u]` is what connection
`c` was last told about `u`. `logged[c]` is history: the users `c` has logged in
as, one or, when a client authenticates again on its socket, several. A user all
of whose connections have been nobody else's is `Loyal`.

Choices made:

* A login's checks are one step. Refused requests change nothing and are left
  out, but for the token of a banned user, which is revoked.
* `broadcastPresence` is one step: the read lock keeps the registry fixed
  during its loop. Its query of the friends is merged into it.
* A token is abstracted to "the user has a valid token", a QR row to "the user
  has an approved row"; `NexusAccounts` has them as rows.
* `Vanish` closes a socket from outside. A handler may still handle frames that
  were buffered, so requests do not require an open socket. A write to a closed
  socket is lost: every caller of `client.Send` ignores its error.
* One ban of a user runs at a time.
* `Friends0`, `Tokens0` and `Queue0` (messaging) are the contents of a database
  that survived the last run of the relay; `LoginKinds`, `Statuses`, `Expiring`,
  `Bannable`, `Deletable`, `Relogin` and `Blockers` restrict the workload of an
  instance.

### NexusMessaging

The step "drain" of a login is taken apart: look the client up (`DrainLookup`),
select (`DrainSelect`), send each row (`DrainSend`), delete each row
(`DrainDelete`). `msg` is five steps: two block queries, the lookup, and the
write or the INSERT. `convo_msg` is one, for a conversation with one other
member (the members are read just before the lock is taken; here they do not
change). `EraseAccount` adds to the registry's `DeleteAccount` what the same
transaction deletes here. `Restart` loses the registry and all handlers and
keeps the tables. `got` counts deliveries; `sent`, `stored`, `tried`, `erased`,
`muted` and `overlapped` are history variables. `tried` has what was written to
a connection, open or closed, as the code cannot tell the difference. The
`PhazeBot` answers and the order of rows within a replay are left out.

The statements on blocks and the queue may fail (`Fails`), and nobody is told:
`isBlocked` takes an error for "not blocked" (1193), `storeOfflineMessage` logs
it while the sender reads `delivered_offline` (1126, 1770), `convo_msg` drops
that of its INSERT (1992), a failed query for the members (1968) reaches nobody, a
replay whose SELECT fails or ends early sends fewer rows (1140), and one whose
DELETE fails leaves the row to the next replay (1162). `failed` has the messages
such a statement was about; `MaxFaults` bounds failures and restarts together.
That the other statements succeed, those of logins, of `block` and `unblock` and
the transaction that deletes an account, is assumed.

`Mailbox` is what is left of this to a sender. A message is `fresh`, in the
relay's `hand`, `kept` on disk, `written`, or `erased` with an account; in none of
these it has been `dropped`, by a block, a crash or a database failure (`failed`,
which also has the rows a failure left where they were). There are no connections
in it, no lookups and no replays. `Hand` maps the messages of all handlers between
`MsgStart` and `Release` to it, the queue is what is kept.

### NexusSpaces

Each user has a handler on the relay, an `outbox` of requests, an `inbox` of
frames, and a view: `mounted`, `active` (activeChannel) and `log`
(messagesByChannel). Posting is three steps: membership test and INSERT, the
query for the members, the fan-out; history is two, query and answer.
`Receive` handles one frame together with the effect React runs after the state
change. A message is its row's id. Joining, leaving and creating a channel are
requests answered at once. Users stay connected; lists of spaces, `server_info`
and the pushed channel lists are left out, so every browser knows the channels.

### NexusAccounts

Every statement a handler executes is a step of its own: a request that reads
and then writes is at `at[c]` in between, with what it read. Random values
(codes, secrets, tokens) are serial numbers, and nobody guesses one. An account
has an `id`, so that a later account of the same name can be told from it:
`deleteAccount` and a new `registerUser` can come between any two statements of
another handler, whose UPDATE names the account by its user name alone.

`codeTo` is where a code was sent, `proof` what the holder of an account has
shown to control by entering it. `doubt` lists why a verification may not mean
that: `late`, a request for an earlier account of the name wrote it; `resent`,
the code went to the e-mail address of an account that was already verified, so
that it can pass for a telephone's; `relinked`, the number was replaced after or
during its verification. Tokens carry `late` when they were written after the
deletion of the account they were made for, and a reset `raced` when two
requests held it at once. These are the exceptions the properties name.

A behaviour is about one kind of work, `flow`, chosen at the start and never
changed: codes, two-factor secrets, resets, or tokens. The kinds write disjoint
columns and tables; what they share, registration, login and deletion, is in all
of them. Passwords are not represented: whoever registered an account knows its
password and nobody else does; a reset is the fact that the password was set.

### NexusSocial

Two more kinds of work over the same connections. A login is here the step that
registers it, and the two queries that follow a password login. `friend_request`
is three steps (look for a row, insert, notify), `convo_create` four (filter on
friends, insert in one transaction, read the members back, notify); acceptance,
rejection, removal and leaving are one statement each. `told[c]` is what
connection `c` has been told. History: `crossed`, pairs that asked each other
between the other's check and insert; `befriended`, pairs that ever were
friends; `leftover`, member rows that the deletion of the conversation's creator
left behind.

### The components of MCStandalone

Each is a module with its own `Init`, `Next` and `Spec`; `MCStandalone` puts
them next to one another. `moving` says which one takes steps in a behaviour, so
the number of states is the sum and not the product of theirs, and
`ComponentsImplemented` (section 4) says nothing is lost by it.

*NexusLimiter.* `allow` is one step under the limiter's mutex; the time is read
before the mutex is taken, so it is the clock or the tick before. Time counts
in refills of a bucket. The size cut keeps an arbitrary nine tenths, since it
follows Go's map order. `passed` counts the requests let through and `cut` the
addresses whose bucket the size cut took.

*Updates.* A release is its number and whether it is a pre-release; its binary
is a sequence of blocks. Files are inodes: two downloads that create the same
`.part` name write to one inode, and a rename moves it. The hash is over the
stream a download has read, never over the file. `Refresh` and `Store` are
separate because `refreshUpdateManifest` asks GitHub without the lock. The swap
is the Linux script, which outlives the process: it opens the staged file and
empties the binary (`SwapBegin`), copies block by block (`SwapBlock`) and removes
the staged name (`SwapEnd`). A kill, a shutdown or a failing command ends it
anywhere (`SwapFail`), and `cp -f` has put nothing aside: `partial` records that
the last copy was cut short. `overlap` records that two downloads wrote at once,
or two scripts copied at once. A write that returned is taken to be on the disk.
Of the instance the script starts only the first is followed: one started beside
a desktop that still runs, after the script's 30 seconds, is left out.

*DesktopVault.* Start and Stop with their steps, a crash at any of them, file
operations that fail, and a keyring that can lose its entry or be locked. The
contents of a database are the number of its rows; `Bad` is a malformed one. The
AES envelope opens with the key it was sealed with and else leaves main.db as it
is; `Torn` is a copy whose writing was cut short. An error at the start is only
logged (native `main.go:214-216`), so the run goes on: with main.db as it was
(`StartAsItWas`: no copy, no key, the wrong key, an unreadable copy), or with what
a failed write left of it, for `os.WriteFile` empties the file first
(`StartFromCopy`). A `main.db-journal` that a crash left is rolled back into
whatever main.db is by then, and may spoil a restored one. `blind` marks a run
that has not what the copy holds; its stop seals what it has over it
(`SealBegin`), and only then is the rest gone. `promised` is what the next run
must still find.

*DesktopKeys.* Two desktops, the relay's queue and what is on its way between
them. A pair of keys is a serial number, and a text names the key that sealed it
and the one it is for. `Login` is the relay's answer with the replay,
`LoadKeys` the generation that follows it; frames can be handled in between.
`unread` records how a text came that could not be opened.

*DesktopContacts.* One row on the relay, two lists, and the messages between, in
order per direction. `missed` and `unbacked` record that a message about the
list was lost or crossed another, or that an acceptance found no pending row.

*DesktopCalls.* The peer is any client that frames files as `SendFile` does.
Connections stay when calls end, because nothing calls `EndCall`. `stuck` is the
manager's mutex after `CreateOffer`. `mixed` records frames that came before a
channel was wired or while another channel carried some.

*Pcmu.* The one variable is the sample, and its steps reach all 65536 of them.
A loud sample is clipped before the bias is added, which costs it up to 133 more
than coding does (`Clipped`).

### DesktopLink

A goroutine is a `routine` with a place in the code: the sign-in window's, those
of the watchdog, and a pool for read loops and the reconnectors they turn into.
`Lock` to `Dial` is the part of `connect` under `ConnMu`, at the end of which
the connection and the answer channel are new and a read loop is started
(`Install`). Outside the mutex two lookups remain: the caller's `select` evaluates
`s.authChan` after the unlock (584), and a read loop evaluates `s.Conn` when it
comes to read (822), its goroutine's first turn included, which may be after
another `connect` has replaced both. Whether a routine has looked matters only
when that happens, so it is settled there: `Install` picks the set `looked`. A
loop that has looked gets an error from the connection that was closed (`lost`);
one that has not, or that handles a message, reads from the new connection next to
its own loop (`late`). A caller that has looked waits on at the old channel
(`waitold`), and one of those, the heir, may find the answer in it; one that has
not waits at the new channel with its owner.

`QRSignIn` is the same `Install` by the QR dialog, which asks every two seconds
whatever becomes of a sign-in beside it. `HideQR` hides the dialog and closes the
window. The dialog's `OnClosed` closes the dialog's connection (2364-2367), which
is the current one by then; whether Fyne runs it on `Hide` is not decided by
anything under `src/`, so the model allows both.

`Crowded` is the pool's bound: a dial fails when no routine is left for its
loop. A reconnector tries twice instead of ten times.

## 3. Runs

All runs state `CHECK_DEADLOCK FALSE`: the supply of connections, messages and
random values of an instance is finite, so it may come to rest.

| run | result | bounds | what it shows |
|---|---|---|---|
| `SessionsPresence` | pass | 2 befriended users, 3 connections, password logins, one chosen status | three connections are the least with which a user's replaced connection, its successor and a watching friend exist at once. `ServedIsRegistered`; `GoneIsHeard`: the late "Offline" of one handler and the "Online" of another do not leave a friend believing in a user who has gone |
| `SessionsBan` | pass | 2 befriended users, 2 connections, every login kind, bans, expiry, deletion | `OneSessionSpec` (refinement), `ClosedHandlersExit`, `StalePresenceClears` under fairness |
| `SessionsLateOffline` | violation | 2 befriended users, 3 connections, token logins | friends can see an online user as offline (section 6) |
| `SessionsBanRace` | violation | 1 user, ban, password login | a banned user can stay connected (section 6) |
| `Messaging` | pass | 2 connections that log in again as either user, one direct and one group message, deletion of bob, 1 restart or failing statement; 2,534,329 states | a connection that alice sent from can become bob's, so two are enough for overlapping replays, and for one that was looked up for bob and is alice's when it is written to. `NoRowDeletedUnsent`, `OnlyRecipientGets`, `OnceUnlessOverlapped`, `ConvoNotStranded`; `EntryIsOwned` where connections log in again |
| `MessagingLive` | pass | 2 connections that log in once, one queued, one direct and one group message, blocks by both users, deletion of bob, 1 restart or failing statement; 235,784 states | `MailboxSpec` (refinement), where every way a message can be lost or held occurs; `LoginDrainsQueue` under fairness; `MutedStaysOut` |
| `MessagingLost` | violation | 2 connections, 1 queued message | a queued message can be lost (section 6) |
| `Spaces` | pass | owner and one user, one channel open of three, pages of 1, 2 messages; 691,960 states; a client asks for more only with no frame on its way (its own request and everybody's fan-out may then overlap) | two messages of two posters in any order of storing, fan-out, history and closing the view; a page of 1 makes 2 messages two pages. `ShownOnce`, `NoGapUnlessRaced`, `PagesCover`, `OwnerStays` |
| `SpacesHistory` | violation | the same space without new channels, where users open both, pages of 2 | history is not loaded (section 6) |
| `Accounts` | pass | 3 connections, 2 numbers, 1 pending QR login, 4 random values (5 for tokens and two-factor secrets); account work on one name, friendships of two users, one conversation of three; connections and numbers are symmetric; 786,815 states | one name is enough because accounts of different names share no row; deletion and registration give it two accounts in turn. Five values are an account, its token, a second account and two more. Three connections hold two racing requests and a deletion, or both sides of a request and a login that comes between. `CodesProve`, `TotpConfirmed`, `ResetOnce`, `HoldersOnly`, `ApprovedHasSession`, `NothingMissed`, `OneEdge`, `OnlyFriends` |
| `Standalone` | pass | limiter: 2 addresses, table of 1, burst 2, clock to 5; updates: 2 checks, a pre-release and the release of one version, binaries of 2 blocks; vault: 3 rows, 2 keys; two desktops with 3 keys, 3 texts and 1 exit; 2 requests, 1 disconnect; 2 calls, 2 files of up to 2 blocks; every sample; checks and files are symmetric; 604,409 states | a table of one bucket is over its size with the second address; two checks overlap, and a binary of two blocks can be cut short or mixed; two files follow each other on two connections. `RateHolds`, `InstalledWhole`, `NewerServed`, `CleanRunsKept`, `CacheIsPinned`, `Readable`, `ContactsFollow`, `WholeFiles`, `Companded` |
| `Link` | pass | the window and its QR dialog, one watchdog, two loops or reconnectors, 2 faults (a failed dial, drop, refusal, late answer or QR sign-in); 276,854 states | two loops are the least for a replaced reader next to its successor, or a reconnector next to another's loop. `OneLoop`; `AlwaysBack` under fairness |

The exceptions in the properties are part of what the code does.

* `EntryIsOwned` and `GoneIsHeard` except connections that have logged in as
  somebody else: their first entry stays, and no "Offline" is said for it.
  `OnlyRecipientGets` speaks of whom a connection has logged in as. `LoggedInOnce`
  (section 4) says that without repeated logins nothing is excepted.
* `OnceUnlessOverlapped` excludes replays that overlap, or die, because SELECT
  and DELETE are separate statements.
* `OnceUnlessOverlapped`, `MutedStaysOut`, `ConvoNotStranded` and
  `LoginDrainsQueue` leave out a message in `failed`: one whose DELETE or SELECT
  failed is sent again or waits for the next login, one whose block query failed
  gets past the block. `MailboxSpec` has a step of its own for each failure.
* `ConvoNotStranded` is about `convo_msg` only: `msg` queues after it has
  released the lock, and its row can then wait for the login after the next.
* `NoGapUnlessRaced` excludes what a browser was not sent, or was sent while its
  view was off screen or before it was left; what was fanned out while its own
  history answer was being prepared, whose page then replaces the list; and
  what a page of newer messages pushed out. The last needs three messages: the
  proof covers it, the run does not.
* `CodesProve` and `TotpConfirmed` name the doubts of section 2; `ResetOnce` and
  `HoldersOnly` the flags `raced` and `late`; `OneEdge` and `OnlyFriends` the
  pairs in `crossed` and the rows in `leftover`.
* `RateHolds` is silent about addresses the size cut hit, `InstalledWhole` about
  a copy under way or cut short and about two downloads, or two copies, at once,
  `NewerServed` about refreshes overtaken by another and about GitHub failing,
  `CleanRunsKept` about runs that have not what the copy holds (`blind`) and about
  what was written in a run whose stop did not get to write it.
* `Companded` allows a loud sample what clipping takes off, beside half a step:
  -32768 is heard as -32124.
* `Readable` holds while neither desktop has logged in twice, because each login
  makes a new pair and pins do not follow it. `ContactsFollow` needs every
  message about the list to arrive, uncrossed. `WholeFiles` needs the one receive
  state of a peer to serve one channel at a time.
* `OneLoop` excludes a loop that was handling a message, or had not begun to read
  after one or after its start, when its connection was replaced. `AlwaysBack` is
  about desktops with a watchdog; a QR sign-in starts none.

### Fairness

*Relay.* `WF(Continue \/ Drained)` for every connection: a goroutine that is not
blocked is scheduled, and no step of these handlers waits for a peer. (A write
that blocks for ever while the lock is held is outside the model; see section
6.) `SF(ReadError)`: the read of a closed socket fails once the frames buffered
before are used up, and those are finitely many, so a handler cannot handle
frames of a closed socket for ever. Clients, administrators and the network are
under no fairness. Messaging needs only the weak part.

*Desktop.* `SF(Connects(r))` for the watchdog's and the reconnectors' goroutines
in `connect`: Go's mutex hands itself to a waiter that has waited for a
millisecond, so none starves. For the sign-in window's, on which nothing hangs,
`WF(Connects(Window))` is enough. `WF` of
the watchdog's tick, of the read loops, and of a minute of silence, all of which
come with time. `SF(Answer("ok"))`: faults are finite, and of the connections
made again and again one lives to see the relay's answer. The user is under no
fairness.

## 4. Proofs

| theorem | statement | holds for |
|---|---|---|
| `NexusSessionsProofs!TypeCorrect` | `Spec => []TypeOK` | all constants |
| `NexusSessionsProofs!ServedCorrect` | `Spec => []ServedIsRegistered` | all constants |
| `NexusSessionsProofs!EntriesAreOwned` | `Spec => []EntryIsOwned` | all constants |
| `NexusSessionsProofs!GoneAreReported` | `Spec => []GoneIsHeard` | all constants |
| `NexusSessionsProofs!ImplementsOneSession` | `Spec => OneSessionSpec` | all constants |
| `NexusSessionsProofs!OneAtATime` | `One!Spec => []One!AtMostOne` | all constants |
| `NexusSessionsProofs!ServedByOne` | `Spec => []One!AtMostOne`, under the refinement | all constants |
| `NexusSessionsProofs!LoggedInOnce` | every entry is its user's connection, every user is `Loyal` | `~Relogin` |
| `NexusMessagingProofs!MessagesTyped` | `MSpec => []MTypeOK` | all constants |
| `NexusMessagingProofs!RowsAreSent` | `MSpec => []NoRowDeletedUnsent` | all constants |
| `NexusMessagingProofs!BlocksHold` | `MSpec => []MutedStaysOut` | all constants |
| `NexusMessagingProofs!ArrivesOnce` | `MSpec => []OnceUnlessOverlapped` | all constants |
| `NexusMessagingProofs!OnlyTheRecipient` | `MSpec => []OnlyRecipientGets` | all constants |
| `NexusMessagingProofs!NobodyStranded` | `MSpec => []ConvoNotStranded` | all constants |
| `NexusMessagingProofs!ImplementsMailbox` | `MSpec => MailboxSpec` | all constants |
| `NexusMessagingProofs!OnlyKnownLosses` | `Mail!Spec => Mail!OnlyTheseLosses` | all constants |
| `NexusMessagingProofs!RelayLosses` | `MSpec => []Mail!Sorted /\ Mail!OnlyTheseLosses`, under the refinement | all constants |
| `NexusAccountsProofs!VerifiedMeansShown` | `SocialSpec => []CodesProve` | all constants |
| `NexusAccountsProofs!SecretsAreConfirmed` | `SocialSpec => []TotpConfirmed` | all constants |
| `NexusAccountsProofs!ResetsServeOnce` | `SocialSpec => []ResetOnce` | all constants |
| `NexusAccountsProofs!TokensHaveHolders` | `SocialSpec => []HoldersOnly` | all constants |
| `NexusAccountsProofs!ApprovalsHaveSessions` | `SocialSpec => []ApprovedHasSession` | all constants |
| `NexusSocialProofs!NobodyMissesAnything` | `SocialSpec => []NothingMissed` | all constants |
| `NexusSocialProofs!OneRowPerPair` | `SocialSpec => []OneEdge` | all constants |
| `NexusSocialProofs!FriendsOnly` | `SocialSpec => []OnlyFriends` | all constants |
| `NexusSocialProofs!SocialTypes` | `SocialSpec => []SocialTypeOK` | all constants |
| `NexusSpacesProofs!SpaceTyping`, `OwnerKept` | `Spec => []TypeOK`, `[]OwnerStays` | all constants |
| `NexusSpacesProofs!MessagesShownOnce` | `Spec => []ShownOnce` | all constants |
| `NexusSpacesProofs!NoMessageMissing` | `Spec => []NoGapUnlessRaced` | all constants |
| `NexusSpacesProofs!PagesMeet` | each page takes up where the next one ends | all constants |
| `NexusSpacesProofs!CursorsCover` | `Spec => []PagesCover` | all constants |
| `DesktopLinkProofs!ReadersAreOne` | `LinkSpec => []OneLoop` | all constants |
| `DesktopPeersProofs!CacheIsPinnedAlways`, `FirstPairsReadable` | `KeysSpec => []CacheIsPinned`, `[]Readable` | all constants |
| `DesktopPeersProofs!ContactsAgree` | `ContactsSpec => []ContactsFollow` | all constants |
| `DesktopPeersProofs!FilesAreWhole` | `CallsSpec => []WholeFiles` | all constants |
| `StandaloneProofs!RateHoldsAlways`, `TableBounded` | `LimiterSpec => []RateHolds`, `[]LimiterTypeOK` | all constants |
| `StandaloneProofs!InstalledIsWhole`, `OlderOnlyWhenLate` | `UpdatesSpec => []InstalledWhole`, `NewerServed` | all constants |
| `StandaloneProofs!CleanRunsAreKept` | `VaultSpec => []CleanRunsKept` | all constants |
| `StandaloneProofs!SamplesAreHeard` | `StandaloneSpec => []Companded` | all constants |
| `StandaloneProofs!ComponentsImplemented` | `StandaloneSpec` implies the specifications of its components | all constants |
| `StandaloneProofs!StandaloneSafe` | the composition keeps `RateHolds`, `InstalledWhole`, `CleanRunsKept`, `CacheIsPinned`, `Readable`, `ContactsFollow` and `WholeFiles` | all constants |
| `StandaloneProofs!StandaloneTyping` | `StandaloneSpec => []StandaloneTypeOK` | all constants |

"All constants" includes `Relogin`. The assumptions on the constants are the
named ones: `ConstAssumption` (sessions), `MsgAssumption`, `AccountsAssumption`,
`SocialAssumption`, `LimiterAssumption`, `UpdatesAssumption`, `VaultAssumption`,
`KeysAssumption`, `ContactsAssumption`, `CallsAssumption`, `LinkAssumption` and
`SpaceAssumption`. They type the constants and keep `None` apart (desktops that
talk to each other are two; the binary installed at the start is of release 1);
one has more content, `IdleTTL * Rate >= Burst` of the limiter: a bucket is idle
for longer than it takes to fill (10 minutes against 3 seconds), without which
the sweep would hand out bursts.

*Served is registered.* By itself the invariant is not inductive: a handler
that has given its entry up must not begin to serve again, accepting a
connection must not make it serve anybody, and a login must register a user.
The inductive invariant `IInv` conjoins the types, `ServedIsRegistered`, and
these facts: an unaccepted connection has no user (`Unaccepted`); a handler that
is leaving or deleting the account only broadcasts, unregisters and ends
(`Leaving`); a login in progress has a target (`LoginHasUser`). The core of the
argument is one pair of steps: `Register` closes the old socket in the critical
section that replaces the entry, so the old connection no longer serves;
`OwnEntryDropped` compares before it deletes, so the old handler cannot take the
new entry with it.

*Entries are owned, and the refinement.* `OInv` adds that whom a connection
serves it has logged in as (`LoggedIn`), that where connections log in once a
login in progress has no user yet (`OneUser`), and `EntryIsOwned`. A second login
under another name leaves the entry of the first with no handler that will remove
it (`main.go:1449`), so an entry promises a running handler only while its
connection is still its user's: `Register` may take the connection away from an
entry, but then adds to `logged`, and `logged` only grows. The refinement maps
`serving[c]` to the user whose requests `c` takes. `Register` maps to `Begin`;
`Vanish`, `BanKick`, `ReadError`, `DeleteAccount` and `UnregisterDeleted` map to
`End` or stutter; all other steps stutter. A kick closes exactly one socket, that
of the entry, which is the only connection that serves the user: this is
`ServedIsRegistered` again. Where connections log in once it serves that user or
nobody. With `Again` it may be serving somebody else by now, so `Begin` may end
one service of another user; that it leaves no other of its own is promised in
both cases. `OneAtATime` and the refinement together give `ServedByOne`.

*Who has gone is reported.* `GoneIsHeard` speaks of the moment when a user has
neither an entry nor a handler. The invariant `HeardInv` says what holds until
then (`WillHear`): as long as a friend is connected and believes the user is
there, the user is attended, by an entry or by a handler that has not ended. It
speaks of `Loyal` users and rests on what handlers still owe: a handler that
leaves says "Offline" (`LeavesOffline`), unless it finds another entry in place
of its own, whose handler then attends the user; one that deletes the account
has no friends left to tell (`Erasing`); a connection that serves nobody has
been told nothing (`Untold`). An entry of a loyal user has a handler because of
`OInv` (`LoyalEntry`); no step makes a user loyal that was not (`LoyalBefore`).

*Messages.* `RelayInv` conjoins `IInv` and the types with: a handler that
handles a message names it, its sender and the connection it looked up (`Named`,
`Handling`); a message whose block queries passed is not under a block that
stays (`Blocked`); a row in the queue was stored, and one a replay is about to
delete was sent by it (`Rows`). With `NoRowDeletedUnsent` and `MutedStaysOut`
this is inductive, also over `Restart`, which empties every local the conjuncts
speak of. `SessionInv` adds `OInv` and: a login in progress is of a known kind
(`LoginKnown`), a looked-up connection has logged in as the addressee
(`Addressed`), which later logins do not undo, and a group message in the queue
of a registered user is still ahead of that login's replay, to be selected, sent
or deleted (`GroupAwaited`). The last is why the fan-out must hold the lock: it
queues a row only for users who are not registered, and whoever registers
afterwards selects after that.

*Once.* `OnceInv` follows a message from hand to hand. The handler that relays it
is the only one that has it, and no queue has it yet (`HeldOnce`); rows in hand
belong to a replay, and are its user's (`ReplaysRun`, `RowsInHand`); what was not
tried was not delivered (`UntriedUnsent`). While no replays overlap (`Alone`), a
user has at most one, a row still to be sent was not sent before, and a row that
was sent and is still in the queue is in the hand of the replay that will delete
it, or `failed`. That is what a second replay would break: it selects the row
again.

*The mailbox.* The refinement needs what the two invariants say of a message in
hand: one handler has it, it is neither stored nor written (`HeldOnce`), and it
is past the block queries only if it is not muted (`Blocked`). So a write is
`Deliver` and an INSERT `Keep`, and nothing else becomes of it but `Refuse` and
`Crash`. A row that a replay sends was stored, hence is still kept, was written
before, in which case nothing changes, or was erased (`NoRowDeletedUnsent`): the
step is `Replay`. One that it deletes was written (`Rows`), so the step is
`Clear`, or none when another replay has deleted it. An INSERT that fails is
`Lose`, a SELECT or DELETE that does `Neglect`, and a message whose block query
failed is taken in hand, or stays there, in `failed`. What the mailbox loses is
then settled without the relay: `Sorted` is inductive in `Mailbox` and gives
`OnlyTheseLosses`.

*Accounts.* `AccountsInv` says what each row may assume (`RowInv`), each handler
between two statements (`AtInv`), each login (`WhoInv`), each token and each
reset (`TokenInv`, `ResetInv`). All of them are facts such as "the code in this
row was sent to this number, or there is a doubt" and "what this handler has
compared was entered". Every step but the deletion `Grows`: random values are
drawn upwards, proofs, doubts and the destinations of codes stay. Facts about
rows and locals a step does not touch are preserved by that alone, so each
action has only its own row, its own local and its own token to show. The
deletion takes all rows of the name, so whatever is written later under it finds
another `id`, or none, and says so in `doubt` or `late`.

*Friendships and conversations.* `SocialInv` is, in these two kinds of work:
types; whoever is registered has an open socket and a user (`Registered`); what
handlers hold between steps (`Handlers`); one row per pair but for crossed ones
(`OneRow`); members and signals join people who were friends (`Friendly`); and
for each stored request and conversation, each password login has been told, or
is still to query, or the handler that stored it is still to notify (`Heard`).
The last is the strengthening of `NothingMissed`: insert before lookup on one
side, registration before query on the other, leave no order in which both miss.

*Limiter.* `BucketInv`: what an address has been let through plus what its
bucket holds is at most the burst plus the rate up to the last refill; an
address without a bucket has been let through at most the rate up to now. The
sweep turns the first into the second by `IdleTTL * Rate >= Burst`.

*Spaces.* `SpaceInv` follows each message a user is owed, one not excused, until
it is on screen. It is with the handler that stored it, or in a frame of the
user's inbox, or shown (`NothingLost`). A page replaces the list, so it has to
account for everything too: what is owed is in the page, or older than its first
message, or comes behind it (`PagesWhole` for pages in the inbox, `AnswersWhole`
for one still with its handler). A page is computed from the rows stored so far,
so a message it lacks is stored later, or fanned out before the page is sent,
which is the race `excused` records. `PagesMeet` is proved of each page from a
characterization of `channelHistory` (`PageIs`): the page has every row of the
channel between its first id and the cursor, in order and once. Stated for three
messages, an earlier form of `NoGapUnlessRaced` was false: a page of newer
messages can push out one that a previous page had shown.

*Pages.* `Walk` is a recursive function, over cursors, and the library's
induction theorems cannot be used here. Two things take their place. That such a
function exists at all is shown by one, `whole`, which is given without recursion
and satisfies the equation (`StepBackIs`). Of the function `CHOOSE` picks it is
shown that it agrees with the list of all rows at every cursor: at the least
cursor where it did not, all smaller ones are right, and `StepBackIs` makes this
one right too (`WalkCovers`). A step back is right because a page and the rows
below its first id are the rows below its cursor, in order (`PageJoins`).

*Manifest and updater.* `UpdatesInv`: what is about to be stored is not older
than the cache, unless another store came between (`NotOlder`), because a
request fetches after it has looked. Of the files, while no updates overlap: one
download at most writes (`OneAt`), to the `.part` name, whose blocks so far are
those its hash covers (`LoadsPart`); the staged name is another inode and whole
(`StagedWhole`). Inodes matter here, for the rename moves the one the download
wrote, and a copy goes on reading the one it has opened whatever the names mean by
then: its source stays whole, and the binary is its prefix so far
(`CopiesWhole`, `ExeWhole`). Damage therefore ends where it began, in a copy that
was cut short, and the next copy that completes repairs it.

*Connection.* `OneLoop` is not inductive, for a loop that handles a message
reads next. `LinkInv` speaks of both (`OneCurrent`): of the loops that read or
handle a message, all but one were overtaken by a connect. `Install` keeps it
whichever routines it takes to have looked: a loop that had ends, one that had not
is late (`InstallInv`).

*Contacts.* What a desktop lists is settled by the last change on its way to it,
or without one by the last of its own on its way to the relay (`Settled`). A
message that is lost or crosses another change puts the desktop in `missed`, so
for the others what is appended to a queue is the last word about the row when it
is written. With empty queues this is `ContactsFollow`.

*Files.* Frames of data carry neither file nor place. `CallsInv` says there are
labels with both for the frames of every channel (`Labels`): they go through the
chunks of each file and through the files in order, up to where the channel was
cut. The receive state is then the part of a file that the next label continues
(`GoesOn`), unless `mixed`.

*Vault and keys.* `VaultInv` says what main.db and main.db.enc hold at each step
of a stop (`FilesKept`, `StepsKept`), so that a crash at any of them leaves one
file with the rows promised, and that a failed start harms main.db only, which the
copy it was made from outlives. `KeysInv`: a pair belongs to who made it
(`OwnPair`), a handover on its way or a pin names a key the other desktop made
(`HandedOver`, `PinsAreTheirs`), and only chats are queued (`OnlyChatsQueued`).
`KeysHistory` adds that before any restart who has made a pair still holds it, so
a text for the one pair of a desktop opens (`Opens`).

*Codec.* A biased magnitude falls in one of eight segments (`Segments`), in each
of which coding divides and decoding multiplies by the same power of two. From
what is heard of a magnitude in each segment (`HeardIs`) follow the error, the
order of neighbours, also across a boundary, at zero and where samples are
clipped, and that coding twice changes nothing.

*Model-checked only.* Liveness (`ClosedHandlersExit`, `StalePresenceClears`,
`LoginDrainsQueue`, `AlwaysBack`) stays with TLC: the prover has no rule for
fairness here. Every other property of a passing run is stated by a theorem.
Proved without a run are `MTypeOK`, and for connections that log in again
`ServedIsRegistered`, `GoneIsHeard` and `OneSessionSpec`: their runs have one
login per connection, which keeps three connections and liveness within reach.

## 5. Not modelled, and why

* Single statements that no property relates to anything: `change_password`,
  profile updates, user search, typing notices, administrators' reports, the
  seed-admin tool.
* Status pages, metrics, e-mail, SMS and telephony: I/O and formatting.
* `convo_msg` in conversations of more than two, and the notices of a departure:
  the fan-out treats members alike.
* In Spaces: lists of spaces, `server_info`, pushed channel lists and their
  positions, and connections that come and go.
* In calls: ICE candidates and answers (the desktop never applies them, section
  6), the multicast mesh of `p2p.go` beyond "delivers or does not", VP8 tracks,
  STUN and audio devices: bit layout and device I/O.
* The updater's swap on Windows and Android, and the parsing of version strings.
* The web client but for the Spaces view: `keyPins.ts` and `e2ee.ts` do what the
  desktop's keys do, over asynchronous browser interfaces; the other views show
  what arrives.
* Cryptography (an opaque box that opens with the right key), the drawing of the
  user interface, vendored libraries and developer scripts.

## 6. Disagreements between the code and what is said of it

Shown by runs:

* `SessionsLateOffline`: the guard commented at `main.go:1299-1305` is there so
  that a replaced read loop does not "mark the user offline even though they're
  online on another device". The clean-up decides under the lock and broadcasts
  after it (1314): a login in between is announced first and contradicted then.
* `SessionsBanRace`: "Revoke all live sessions so the user is logged out
  everywhere" (2785). A login that read the ban flag before the ban registers
  after it.
* `MessagingLost`: offline messages are "queued and replayed on next auth"
  (`integration_test.go:291`). The replay ignores the error of its write and
  deletes the row.
* `SpacesHistory`: "Load channels + history when active server/channel changes"
  (`Spaces.tsx:149`). A live message makes the channel look loaded.

Seen while modelling, without a run. The relay:

* After a second login under another name on one socket the first entry stays
  (`main.go:1449`), and the gauge whose help text is at 2439 counts it. A ban of
  the first name removes that entry, but the handler announces only the second,
  so friends go on seeing the first online. `GoneIsHeard` speaks of `Loyal`
  users because of it.
* The broadcast of an account deletion looks the friends up after they have
  been deleted (1561-1562), so it reaches nobody.
* `deleteAccount` (590) leaves rows of server_members, spaces, and the other
  members of the conversations it deletes, against the comment at 610-612,
  "every other row referencing the username is already gone". The members join
  the next conversation of that id (`leftover`).
* Statements under way when an account is deleted complete for the next account
  of the name (`late`).
* A message whose INSERT into the queue fails is gone, and its sender is told
  `delivered_offline` (1126, 1770); a DELETE that fails delivers it twice (1162),
  and a block query that fails lets it through (1193).
* Replays that overlap deliver twice, against `PRE_BETA_CHECKLIST.md:39`.
* Blocks are checked when a message is sent, not when it is replayed (1189).
* Two requests for friendship in opposite directions store two rows, against
  the comment at 1002 (`crossed`).
* `friend_request` notifies again when a row exists, and `friend_accept` when no
  pending row was found (1862, 1882).
* Logins by token are not told of pending requests and conversations (1500).
* `request_phone_link` replaces the number and leaves `phone_verified` set
  (1387); a code mailed by `resend_verification` (1573) passes for a phone's.
* `approveQRLogin` (727) issues its session token before it knows that the row
  can be approved; one that is not is never revoked.
* Of two requests with one reset token both succeed when both read it first (678).
* A presence without a recipient, which is how desktops announce their key,
  loses the key (1827).
* A manifest from GitHub is replaced by the thin one of the environment when
  GitHub fails, and by an older one when refreshes overlap (2960).
* `profileHandler` (3334) scans a display name that may be NULL into a string:
  such a user is "not found".
* `s.Mu` is held during network writes without a deadline (1452, 1178, 963): a
  peer that does not read can stop the relay.

The desktop:

* `CreateOffer` locks the mutex `setupDataChannel` locks again
  (`webrtc.go:327-328` and 486-488): every call the user starts stops there, and
  later offers behind it.
* `HandleAnswer` (439) and `EndCall` (471) are never called, so answers are not
  applied and connections outlive their calls; ICE candidates are not applied.
* The logging handler for the connection's state (359, 410) replaces the one
  that stops the audio pump (235).
* `AddVideoTrack` is reached only for calls whose offer was made (native
  `main.go:1377`), which `CreateOffer` prevents; the buttons of a new call
  window say "Mute" and "Video On" whatever state the last call left.
* The incoming-call dialog of a caller who has hung up stays and can be
  answered.
* "Repair successful. Connection restored." (`health.go:36`): the relay sends
  nothing of its own accord, so a minute of silence makes the watchdog replace a
  sound connection; the replaced loop's reconnector replaces the new one in turn,
  every success adds a watchdog, and every refused attempt leaves a reconnector.
* A QR sign-in starts no watchdog, and hiding its dialog may close the connection
  it has just made the current one (2366, 2405).
* "offline delivery" (`README.md:22`): keys are generated at every login (native
  `main.go:596-602`) and pins do not follow, so an encrypted text that waited in
  the queue cannot be read after the login that delivers it (`unread`). The
  cache is not loaded from the pins at start: the first text goes out in clear.
* "cannot brick the current install" (`download.go:95-97`): two downloads at once
  share one `.part` file and each hashes its own stream, so a mixture can be
  installed (`overlap`); and `cp -f` over the binary (`apply_linux.go:55`) leaves
  a truncated one when it is cut short (`partial`).
* A pre-release is never offered a later pre-release of the same version
  (`manifest.go:95`).
* Friendships accepted while a desktop was offline are never listed, and
  crossing requests or unbacked acceptances list contacts the relay does not
  have as friends (native `main.go:1072`, 1266); the NULL display name of a new
  contact makes `loadFriends`' Scan fail (1186).
* The vault is encrypted at shutdown only, so a start after a crash overwrites
  the newer database with the older copy (`db_vault.go:38-72`). A restore that
  fails half-way is only logged (native `main.go:214`): the run goes on with the
  cut file, and its stop seals that over the good copy.

## 7. What is left

* Connections that come and go in `NexusSpaces`, pushed channel lists and their
  positions; `convo_msg` in larger conversations.
* `keyPins.ts`, whose acceptance of keys is asynchronous.
* What friends are told of a user whose connection has become somebody else's
  (section 6) is not stated: `GoneIsHeard` leaves that user out.
