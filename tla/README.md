# A verification of "Account"

"Account" is an iOS app (Swift, `src/Account/Account`) that signs a user in by
e-mail and password, with Google, with Facebook or with a phone number, shows a
profile, and signs out again. Its sessions are kept by the vendored pods
FirebaseAuth 6.1, FBSDKCoreKit, FBSDKLoginKit and FirebaseDatabase
(`src/Account/Pods`), and by GoogleSignIn, which is a binary. Below the database
lies the vendored leveldb. This directory holds TLA+ models of the app and of
these pods, TLC runs on small instances, and TLAPS proofs.

Paths below are relative to `src/Account`; `FIRAuth.m:1202` and the like are
files of the pods. `PROJECT.json` maps every definition to its lines.

## 1. Inventory

| Component | State | Operations | Hard because | Correct means |
|---|---|---|---|---|
| Login screen (`ViewController.swift`) | form, `signUpOrIn`, `checkSystem`, three `ProfileData`, what is presented over it | buttons; handlers of createUser, signIn, the database read, Facebook's login and request, Google's delegate | handlers arrive in any order and read state that others changed; UIKit drops what a covered screen presents | a profile shows one person, the one who is signed in; what is announced is true |
| Profile screen, `ProfileManager`, `Extension` | `profileInfo` | sign-out of three systems, new login screen over the old | sign-out cancels nothing; old screens stay alive | after a sign-out nobody is signed in anywhere, and old callbacks do not disturb the new screen |
| `ServerManager` | none | the graph request for the profile | asynchronous | |
| `AppDelegate` | none | launch, open-url, push registration | sessions are restored before the first screen | |
| Phone screens | verification id in the user defaults, the stack of screens | ask for a code, sign in with it | answers out of order, a stored id from an earlier launch, force-unwraps | the id exists when it is unwrapped; a profile shows who is signed in |
| FirebaseAuth (`FIRAuth.m`, `FIRUser.m`, keychain, token service) | `_currentUser`, the keychain, requests in flight | sign-in, create, sign-out, refresh, launch | memory and keychain change separately; handlers run later, on another queue; refreshes outlive sessions | section 4 |
| Facebook SDK (token, cache, login manager, graph requests, error recovery) | current token, its cache, logins, requests | log in, reauthenticate, log out, request, retry, recover | answers concern tokens that may have been replaced; the keychain may refuse | section 4 |
| Firebase Database | pending writes, server data | merge, read once | writes are visible here before the server has them | a record announced is a record kept |
| its connection (`FPersistentConnection.m`) | puts and listens without an answer, token, state of the connection | put, listen, purge, reconnect, authenticate | everything is sent again after a loss; tokens arrive out of order | each put answered once, none undone by an older one, the right user |
| leveldb: engine (`db_impl.cc`, `version_set.cc`) | log, memtables, tables, manifest, CURRENT | open, write, flush, compact, delete files | crashes of process and machine between any two steps, a background thread, failing calls | what was promised is found again |
| leveldb: writers | the queue, groups, delays | write | one thread answers for others | nobody forgotten, nothing acknowledged that is not logged |
| leveldb: levels, iterators | entries in levels, cursors | flush, compact, Get, Seek/Next/Prev | compaction beside flushes; changes of direction | reads see the newest write of their snapshot |
| leveldb: skip list, table cache | nodes; open tables with reference counts | insert and walk; look up, insert, evict, release | readers without a lock; the same table opened twice | a search is exact; nothing is freed in use |
| leveldb: log, tables | bytes | append, replay; build, search | block boundaries, torn ends, shortened keys | what was put in comes out |
| Google sign-in (binary) | Google's user, the sheet | sign in, sign out | its delegate is whichever screen came last | |

How they interact: the app calls the SDKs from the main thread and gets
callbacks on the main thread. FirebaseAuth does its work on a serial queue of
its own and dispatches handlers to the main queue. The three SDKs do not know
of one another; the app passes a Google or Facebook token on to Firebase. All
state that outlives the process is in the keychain, in the user defaults (phone)
and on the servers. The database listens to Firebase Auth for tokens.

leveldb is asleep in this app: `FLevelDBStorageEngine` uses it only when
persistence is switched on, and the app never does that; where the database does,
it writes without `sync` (`APLevelDB.mm:120`) and never calls `CompactRange`,
`RepairDB` or `reuse_logs`. It is modelled for itself, as the largest piece of
compiled logic in the repository, through its public interface; the two findings
about it need `CompactRange`.

`PROJECT.json` lists the hazards with their lines and the properties meant to
catch them.

## 2. Modules

```
AuthSession           what FirebaseAuth promises          (abstract)
  ^ implemented by
FIRAuth               FirebaseAuth as it is written       MCFIRAuth          FIRAuthProofs

FBSDK                 the Facebook session                MCFBSDK            FBSDKProofs

AccountApp            the app; composes AuthSession and   MCAccountApp       AccountProofs
                      FBSDK with screens, Google, database
PhoneLogin            the phone screens                   MCParts            PhoneLoginProofs
PersistentConnection  the database's connection           MCParts            ConnectionProofs

DurableStore          what leveldb promises               (abstract)
  ^ implemented by
DBImpl                the engine, its files, its crashes  MCDBImpl           DBProofs
WriteQueue            DBImpl::Write among its callers     MCParts            LevelDBProofs
SkipList              readers beside the inserting writer MCParts            LevelDBProofs
TableCache            open tables and who uses them       MCParts            LevelDBProofs
Levels                keys in levels                      MCLevels, MCParts  LevelsProofs
Iterators, SortedTable, LogFormat                         MCParts
```

The second column of modules runs a specification under TLC; the third holds the
theorems about it (section 5).

**AuthSession** is a register for the account signed in, with a `durable` and a
`visible` copy, and calls that take effect at one instant (`Grant`, `Refuse`)
between their invocation (`Ask`) and the moment the program is told (`Tell`, in
the order of the decisions). **FIRAuth** implements it: a block of the work
queue is an action. `Begin`, `TokensGranted`, `Complete` and `Fail` are the two
requests of a sign-in and their ends, `Deliver` runs a handler on the main
queue. `UpdateCurrentUser` is `updateCurrentUser:byForce:savingToDisk:`: the
keychain first (it may refuse: `saved`), then memory. The code compares users by
pointer, so a user is a record of a uid and an address (`Object`), and an
address in use is not given out again. `StartRefresh`, `Refreshed` and
`RefreshFailed` are token requests, which outlive the session that made them.

**FBSDK** has the current token and its cache, logins (`sheet`, then
`validating` if another token was current) and profile requests (`sent`,
`asking` the user whether to log in again, `recovering` by such a login). A
handler of the program can start a request, hence the parameter `load`. A token
carries its user and a serial that tells one token string from another.

**AccountApp** has one action per handler of the app, each with everything the
handler does. `TapFirebase` is `firebaseLoginButtonAction`; `CreateAnswered`,
`SignInAnswered`, `ReadAnswered`, `FbCallAnswered` and `GoogleCallAnswered` are
the closures in it and in the Facebook and Google code; `FbLoginEnds` with
`FbButtonHandler` is the handler of `fbButton`; `GoogleSigned` is the Google
delegate; `TransferFBData` the end of a profile request; `TapSignOut` is
`didTapSignOut` with `profileLogout` and `backToMainView`. Firebase's session is
`Auth == INSTANCE AuthSession`, Facebook's `FB == INSTANCE FBSDK`, over the
app's own variables.

Abstractions of AccountApp:

- A person has one Firebase account, with that person's e-mail; the names in a
  record are those given by its owner. The content of the form is an input of
  the tap (`incomplete`, `short` for a short password, `full`).
- `over` says what covers the front login screen: nothing, an alert or the
  profile. A screen that is covered presents nothing. A login screen covered by
  a sign-out never comes back, so it is not kept: what its callbacks do to it is
  invisible, and `late` names those callbacks. The number of sign-outs is
  therefore unbounded although the number of covered screens is not modelled.
- A sheet or an alert of the Facebook SDK is in front of everything (`Blocked`).
- Google allows one sign-in at a time.
- `signedOut`, `announced`, `lost` and the `overlap` fields are history, read by
  properties only.

**PhoneLogin** has the stack of screens above the login screen, the requests for
a code (a request's place is its verification id) and the sign-ins. A sign-in
succeeds if its code belongs to the id stored when it was tapped. `Pushed` keeps
the difference between a screen that is covered (its segue still pushes) and one
that was left (it does not). Signing out of the profile is AccountApp's.

**PersistentConnection** has one action per method of `FPersistentConnection`
that is called from outside (`listen`, `put`, `refreshAuthToken`,
`interruptForReason`, ...) and per answer of the server. `inFlight` is what was
sent on the present connection, with the callbacks; the server handles it in
order, and whatever it has not handled when the connection is lost it never
will. `Disconnects` is `onDisconnect` with everything it calls. An older token
request is dropped when a new one starts, because the code ignores its answer.
Delays are abstracted: a scheduled retry may run at any time. All puts are to one
path, so that order matters.

**DurableStore** is the promise of `db.h` and `options.h`: a set of writes that
are kept, of which a crash of the process or the machine may lose those that were
not promised to survive it. **DBImpl** implements it. It abstracts keys away: a
write is a number, a table or log a set or sequence of numbers. Its actions are
the stretches between two releases of the mutex or two system calls: writing
(`RoomFound`, `SwitchMemTable`, `WriteRefused`, ...), the background thread
(`FlushStart` to `Install`), `DB::Open` (`NewDB`, `OpenRead`, `ReplayLog`,
`OpenLog`, `SaveSynced`, `SetCurrentFile`, `OpenDone`), readers that hold
versions, crashes of process and machine, failures of each system call.
Assumptions: creating, renaming and deleting files are ordered and durable at
once, the content of a file is durable only up to its last sync; one group of
writes is one record of the log; a replayed log becomes one table; two levels
stand for all.

**Levels** keeps keys and drops files: a file is the set of its entries. Where
sizes decide (when to flush or compact, which files `CompactRange` leaves for
later, where an output ends) the model chooses. **WriteQueue** is `Write`,
`BuildBatchGroup` and `MakeRoomForWrite` among several threads, with what is
logged, synced and applied; the background thread is reduced to what it does to
waiting writers. **Iterators** is `DBIter` over `MergingIterator` over a memtable
and a `TwoLevelIterator`, a loop a step per entry. **SkipList** has one step per
load and store of a pointer, loads in program order as acquire and release make
them. **TableCache** is `LRUCache` as `TableCache` uses it: a miss opens the file
outside the lock. **LogFormat** has the bytes of a log as numbers of fragments,
and a writer that is cut off, fails, or continues a torn file. **SortedTable** is
a table with prefix-compressed blocks, shortened index keys and filters; a key is
a short sequence of bytes, and a filter matches exactly the keys put into it.

MCParts joins the modules that share no state into one specification by a choice
of `part` at the start.

Definitions with the comment "Variant, never a step" are not part of any
specification: each is an operation as a plausible bug would have it, kept to
show that a property notices.

## 3. Runs

| Run | Instance | States | What it asks |
|---|---|---|---|
| `firauth` | 2 accounts, 3 calls, 3 addresses, 1 refresh | 42 thousand | invariants of FIRAuth, refinement of AuthSession, termination of calls |
| `fbsdk` | 2 users, 3 serials, 2 logins, 1 request | 201 thousand | when tokens are replaced, cleared, restored; requests are not retried for ever |
| `register` | 2 people, 2 calls; registration and e-mail | | records, late callbacks, mixed profiles |
| `google` | 2 people, 2 calls; e-mail and Google | | whom the profile shows |
| `facebook` | 2 people, 2 calls, 2 serials, 1 login, 1 request; Facebook | | a quiet sign-out is complete |
| `signout`, `blank`, `lost` | as above | | three claims of the source that the code does not keep |
| `dbimpl` | 2 writes, 1 reader, 8 file numbers, 2 incidents | 195 thousand | durability, deletion of files, waiting writers, refinement of DurableStore |
| `parts` | below | 1.6 million | the parts, one at a time |
| `stale`, `manual` | 2 keys, 3 levels, 4 writes; 3 keys, 4 levels, 4 writes | | two claims of leveldb's comments and assertions that it does not keep |

`parts`: Levels with 3 keys, 4 levels, 3 writes, 1 snapshot, no manual compaction;
Iterators with 2 keys and 3 writes, any of them in a memtable, the rest cut into two
blocks anywhere; TableCache with 2 readers, 2 files, capacity 2, charges 1 and 2, 4
insertions; SkipList with 3 keys, height 3 and 1 reader beside the writer;
LogFormat with blocks of 6 bytes, headers of 2, 3 records of 1 or 5 bytes and 2
mishaps; SortedTable with 3 of 8 internal keys, restarts every 2 entries, a filter
for every 2 bytes; WriteQueue with 3 threads and 3 calls; PhoneLogin with 2
numbers, 2 requests and 2 sign-ins; PersistentConnection with 1 user (who may
sign out), 1 query, 2 puts and 2 requests in flight when another is added.

Bounds. In the app every hazard is between two of a kind: two sign-ins, a session
and the one that replaced it, a login and a request. Two people are enough to mix
them up, two calls to cross; three calls on the main queue in `firauth` put a
failure between two successes. Three addresses are two live objects (the current
user and one being refreshed) and one to allocate. `Serial` bounds the token
strings something still refers to, per user. The methods a user taps are split
over the runs (`Methods`) because they multiply the state space; e-mail is
combined with Google because only these two write `checkSystem` and `fire`
profiles together. No run of the app bounds the number of logins, sign-outs,
crashes or launches. A phone number has one request after another; two are enough
for answers out of order.

In `dbimpl` a memtable holds one write and one table in level 0 is enough to
compact, so that two writes reach every step of the engine; an incident is a
crash, a failed call or a forced switch, and two are a crash in the recovery from
another. File numbers are never reused, hence `MaxFile`. In the other parts the
bounds are the smallest at which each branch is taken: a fragment of every type, a trailer, a
node of every height, a table evicted while in use, a compaction beside a flush.
Larger instances of Levels were tried and hold: 2 keys with 4 writes (1.7 million
states), 3 keys, 3 levels and 4 writes (5 million); and of PersistentConnection:
3 requests in flight (2.7 million).

Fairness. `FIRAuth!FairSpec` assumes that requests end (the fetcher has a
timeout) and that the main queue is served. `FBSDK!FairSpec` assumes that graph
requests end (URL session timeout), and nothing of the user. `DBImpl!FairSpec`
assumes that the background thread runs while it has work and that a writer who
could go on does; system calls end, perhaps in failure. The app, the phone screens
and the connection have no fairness: no liveness is claimed of them, and of the
connection it would be false (see `FPersistentConnection.m:327` below, and
`server_kill`, which nothing revokes).

Deadlock is checked in the runs of the app and of the two session SDKs, which
never come to an end; the models with bounded inputs (leveldb, the phone screens,
the connection) may stop.

## 4. Properties

FIRAuth: `MemoryIsStored` (memory never names an account the keychain does not
hold, whatever write fails), `AnsweredOnce` (each answered call is on the main
queue once), `LastSuccessRules` (handlers are ordered like the sessions they
report; only the last success is the current one), `SignedOutStays` (after a
sign-out with nothing outstanding no refresh and no restart brings the account
back), `StaleRefreshHarmless`, `EveryCallEnds`, `ImplementsSession`.

FBSDK: `LoggedOutStays` (a cleared token does not return at the next launch),
`SwitchOnlyByStaleValidation` (one user's token never replaces another's
directly, except through a validation that compared with a token that is no
longer current: the hole in `validateReauthentication:`), `OnlyOwnTokenCleared`,
`FetchesSettle`.

AccountApp: `SignedOutEverywhere` and `CleanStart` for a sign-out tapped while no
login was under way; `MixedOnlyIfCallsCrossed` (e-mail and names differ only if
two Firebase calls were unanswered at once) and `LoneProfileIsSession`;
`AnnouncedHasRecordUnlessLost`; `NeverBlank` for the methods other than Facebook.

PhoneLogin: `PhoneLoginSound`: the code screen never unwraps a missing id, no
sign-in uses an id nobody asked for, and a profile presented with no other
sign-in pending is the session's.

PersistentConnection: `ConnectionSound`, four parts: `PutsOnce` (each put is
outstanding, withheld or answered, exactly one of them), `ConfirmedIsKept` (a put
that was confirmed is not overwritten by an earlier one that is sent again),
`WithheldForListens` and `AuthFollowsSession`. The last two have exceptions,
which are hazards of the code: answers withheld when a connection is lost stay
withheld until some later listen is answered, and later puts overtake them; and a
token that was fetched before a sign-out and arrives after it authenticates the
next connection as the former user.

DBImpl: `NothingLost` (what a write was promised is in the process and in the
files), `AlwaysRecoverable` (whatever a crash of the machine leaves of manifest
and logs, the files it needs are there), `OpensAgain`, `UsedFilesExist`,
`LaterWins` (of two writes the later has the larger sequence number, across
crashes that lose writes and numbers),
`WriterServed`, `ImplementsStore`. Their exceptions are behaviour of the code: a
failed append may leave half a record, and hides what is logged behind it; a
manifest record that fails during a flush inside a compaction does not stop the
compaction, which writes behind it, and the database then refuses to open;
`NewDB` does not sync its manifest, so an empty database may not survive a crash
of the machine.

WriteQueue: `WritesKept`, `NobodyForgotten`. (A writer whose batch is NULL, a
forced switch, is answered without one when it ends up in another's group; the
model has it, no property is about it.) Levels: `LevelsOrdered`, `ReadsRight`.
Iterators: `CursorRight`. TableCache: `TablesKept` (the cache may stay over its
capacity until the next insertion). SkipList: `SearchExact`. LogFormat:
`ReadBackExactly`, which says how much of a block a damaged fragment may hide.
SortedTable: `TableExact`.

Five claims of the source fail:

- *"Will sign out from all authorizations"* (`ProfileViewController.swift:50`):
  `SignOutMeansOut`. `profileLogout` cancels no call, and a sign-in still in
  flight completes after it.
- *"Connection Failed. Re-connect, please."* (`ProfileViewController.swift:43`):
  `ConnectionFailedMeansFailed`. It is said of every profile presented before its
  data has arrived, and the segue after a Facebook login does not wait for it.
- *"Your account succesfully created!"* (`Extension.swift:33`):
  `AnnouncedHasRecord`. The record a sign-in needs is written without waiting;
  if it is rejected or the process dies, the account can never reach its profile.
- *"entries never hop across levels"* (`version_set.cc:346-348`):
  `SearchByLevelIsEnough`. A compaction may split the entries of one key between
  two files, and `CompactRange` may then move the newer one below the older.
- *"Must not overlap"* (`version_set.cc:765`): `LevelsDisjoint`. A memtable
  flushed during a manual compaction may go into a gap that the compaction's
  output will cover.

## 5. Proofs

What the runs check on a small instance, the theorems state for every value of the
constants. They use no assumption but the named ones of the modules, which TLC
evaluates in the runs: a nil is none of the things it stands beside
(`NoUserIsNoAccount`, `NoTokenIsNoToken`, `NilsAreNil`, ...), names of calls, logins
and requests are apart (`NamesApart`), numbers are numbers (`MaxRefreshIsNat`,
`PhoneAssumption`, `ConnectionAssumption`, `DBAssumption`, `QueueAssumption`,
`LevelsAssumption`), the skip list's keys are a finite set of positive numbers
(`ListAssumption`), the cache's readers are finitely many and its capacity is not zero
(`CacheAssumption`). Other sets need not be finite.
Some theorems have a hypothesis of their own, explained below: two of AccountProofs
(no Facebook), two of LevelsProofs (`Automatic`) and those of DBProofs (`~ReuseLogs`).

Each proof has the same shape: an inductive invariant in named parts, a lemma that it
holds at the start, one step per action that it is kept, and the property as a
consequence. Before each proof TLC checked the invariant on the run's instance.

**FIRAuthProofs** proves `TypeOK`, `MemoryIsStored`, `AnsweredOnce`,
`LastSuccessRules`, `SignedOutStays`, the action property `StaleRefreshHarmless`, and
that FIRAuth implements AuthSession. `IInv` is the conjunction of these invariants and
two more. `SignedOutStays` is not inductive alone: a call could be in flight without
being outstanding, or memory could hold a user the keychain does not, so it leans on
`MemoryIsStored` and on `NothingAfterDeath` (a launch starts from empty memory).
`LastSuccessRules` needs `AnsweredOnce` (appending a handler must not change the stage
of one already queued, and delivering the head must not remove another) and
`CallsHaveAccounts` (a queued success names an account). The refinement goes action
by action: `Complete` maps to `Grant` or, if the keychain refuses, `Refuse`;
`StartRefresh`, `Refreshed` and `TokensGranted` are stutters, `Refreshed` because
`MemoryIsStored` says the account is archived already.

**FBSDKProofs** proves `TypeOK`, `LoggedOutStays` and the action properties
`SwitchOnlyByStaleValidation` and `OnlyOwnTokenCleared`. What carries them is that a
validation compares two tokens, never a token with nothing (`ValidatingHasTokens`),
and that a dead process holds no token, login or request (`NothingAfterDeath`).
`RecoveryPaired`, a theorem of its own, says that a request whose user is asked to log
in again is waited for by exactly one login: without it a login's end could resume the
wrong request. All changes of token and cache go through `SetCurrent`, so the steps
are proved from lemmas about it.

**AccountProofs** proves of the composed app `TypeOK`, `SignedOutEverywhere`,
`CleanStart`, `MixedOnlyIfCallsCrossed` and `AnnouncedHasRecordUnlessLost`, and that
its Facebook session is a behaviour of FBSDK and its Firebase session one of
AuthSession: so what is proved of FBSDK and FIRAuth holds in the app, and the proof
uses FBSDK's invariant as a part of its own, `AppInv`. The other parts: calls
(`CallsCross`: calls unanswered together know of each other; `GrantedIsVisible`: who is
signed in is whom an uncrossed call asked for, until it is answered), the screen (a
profile that no other call crossed is of one account), everything after a sign-out
(`Quiet`: nobody signed in, and every call or request with a handler left belongs to a
covered screen; this is what makes `CleanStart` inductive), and the server's data.
`LoneProfileIsSession` and `NeverBlank` are proved for `"facebook" \notin Methods`:
with Facebook they are false, as `ConnectionFailedMeansFailed` shows, because the segue
after a Facebook login waits for no data. Forty handlers change the screen in a
handful of ways, so the steps are first described by what they do to calls and screen
(`CallsStep`, `ScreenStep`), and the parts are proved kept from that.

**PhoneLoginProofs** proves `PhoneLoginSound`. The part that is not obvious,
`CoveredIsQuiet`, says that under a profile presented with no other sign-in pending
there is none that could still change the session.

**ConnectionProofs** proves `ConnectionSound`, for any users, queries and bounds of puts
and of requests. `ConnectionInv` follows the requests in flight. `Linked` and `Restoring`:
nothing is in flight on a connection that is not there, and the request that restores
the session is the first of its connection, with no put behind it. `PutsSent`: puts in
flight are in the order of their numbers and, once the session is restored, contain all
that are outstanding. So, when a put is answered, every other outstanding put has a
later request, which is the step `ConfirmedIsKept` cannot make by itself; `Kept` adds
that what is confirmed, or withheld as a success, is older than what is outstanding or
in flight. `Once` splits the puts into answered, withheld and outstanding. `Leads`
reads the session off the last request about it: it names the user Auth announced last
and, if the server has handled it, the server knows him; if there is none, the server
knows him already. The counter's part, `WithheldForListens`, is inductive beside
`Restoring`. The nineteen actions do few things to the requests (`Flight`: one is sent,
handled or answered, all are lost, or all are sent again), and the parts are proved from
that.

**DBProofs** proves of the engine `TypeOK`, `NothingLost`, `AlwaysRecoverable`,
`OpensAgain`, `UsedFilesExist` and `LaterWins`, and that it implements DurableStore,
for any numbers of writes, readers, file numbers and incidents. `DBInv` is about every
state of the manifest that a crash of the machine may leave (`Left`: the states after
each prefix of its records that is at least what was synced), not only the present
one. Its parts follow the code: numbers below the next one (`Numbered`), tables of all
versions in use or that a crash may bring back (`Tables`), the edit on its way to the
manifest (`Recorded`), where promised writes are (`Durable`), what Open has rebuilt
(`Opened`), the order of a log's records (`Logged`), sequence numbers (`Sequenced`), the
write under way (`Attempt`). `UsedFilesExist` is not inductive without `Left`, since
`DeleteObsoleteFiles` must not delete what only an older manifest prefix names; and
`NothingLost` needs that a log is dropped only when the tables of every state in `Left`
hold its writes. `Rising` (file numbers never fall from one state of a manifest to the
next) is what makes a state found by `Recover` one it can continue from. The
refinement maps the store's content to `Kept`: what readers of the running process
see, or, with none running, what the next one will find.

The theorems of DBProofs assume `~ReuseLogs`, the default (`options.cc:26`), and the
only value Firebase uses. With `reuse_logs` the invariant is false, and so is
`AlwaysRecoverable`: a database that is reopened and reuses its log writes no new
manifest, so the old one is still not synced when `DeleteObsoleteFiles` deletes tables
that a prefix of it needs.

**LevelDBProofs** proves `WritesKept` and `NobodyForgotten` of the queue of writers.
Neither is inductive. `QueueInv` adds: the queue holds the unanswered calls in their
order, and only its front works (`InLine`); a leader's group is the front of the queue
(`Grouped`), and no member of it asks for a sync that its leader does not do; a group is
logged, synced and applied before anybody in it is answered (`GroupLogged`); what is
logged is older than what waits (`Behind`), hence the log keeps the order of the calls
(`Ordered`); no two calls of the queue have the same number (`Counted`). A call on an empty
queue and the sleeper at the front of a queue are in the same situation (`Ready`), so
that one lemma covers both.

Its second part proves `SearchExact` of the skip list for any finite set of keys, any
height and any number of readers. The list needs no induction: `Sorted` says that each linked node
points to the next greater key linked on that level, which one store changes in one
place, and `Towers` that a node linked on a level is linked below. `Linking` says that
what the writer noted (`prev`) is still right when it stores, as nobody else writes.
`Walking` is the readers' part: a reader stands on a linked node before its target, and
all keys that were there when it began are on one side of it.

Its third part proves `TablesKept` of the table cache, for any files, charges, capacity
and number of entries. `CacheInv` says of every entry that its count is that of its
readers, and one for the cache while it is there (`Counts`), so that it reaches zero,
and the table is freed, exactly when both are gone; of the LRU list that it is
what is in the cache without a reader; of the usage that it is the sum of the charges
in the cache (`Handles`). The hash table agrees with this only between operations
(`TableGood`): `Insert` puts the new entry into the table while the one it replaces is
still counted as in the cache, and `FinishErase` then restores it, so the two parts are
kept apart. The sum is given by its partial sums (`Total`), with a lemma for one value
more and one for a changed value; a trimming is followed state by state (`Trimming`).
An entry keeps its key for ever (`Lasting`), on which its readers rely.

**LevelsProofs** proves of the levels `TypeOK` always, and `LevelsOrdered` and
`ReadsRight` in the case `Automatic`: nobody calls `CompactRange`, and snapshots are
taken only if no output file ends between two entries of a key. Firebase does neither
(it holds no snapshot, and without one a compaction leaves one entry of a key), and
neither condition can be dropped: the run `manual` shows what a manual compaction does,
and with a snapshot one compaction that splits a key is enough to put two files of a
level over it. `LevelsInv` has these parts.
`TypeInv` adds to the types that every entry is in one file (`OneFile`) and that the
inputs of the compaction under way are still files of their levels, whatever was flushed
meanwhile (`CompType`). `Order` says that the memtables and the files of level 0 are
ordered by age (`Ages`), that files of a deeper level are apart (`FilesApart`), and that
of a key the newer entry is above the older (`NewerAbove`). `Compacting` makes this
inductive while a compaction runs beside flushes: the inputs leave no gap (`Covered`),
so that a flush, which must stay clear of them, cannot come between them; the files of
the output level that are not inputs are apart from them; what is older than an input
entry is an input too or lies where the compaction looks for it (`OlderInside`).
`Complete` says that the last write of a key that a held snapshot covers is stored, or
was a deletion and left nothing that the snapshot would see in its place; this is where
the rules that leave entries out (`Shadowed`, `Obsolete`, `IsBaseLevelForKey`) are used.
From `Order`, the first place that has the key has its newest entry (`GetIsNewest`), and
with `Complete` that is the write to be read.

Some definitions were chosen so that they can be reasoned about: `Replay`, `Trimmed` and
`Charged` are recursive functions and not folds; `InOrder` and `Writes` of WriteQueue and
`PutsInOrder` of PersistentConnection choose the increasing enumeration of a set instead
of sorting it; `GetOverlappingInputs`, a loop that starts again when the range grows, is
the least set of files closed under what the loop adds; `Get` takes the first of its
places that has the key.

Only model-checked:

- liveness: `EveryCallEnds`, `FetchesSettle`, `WriterServed`;
- `ReadBackExactly`, `TableExact`, `CursorRight`: what recursive definitions compute of
  bytes and blocks, by induction over the data;

## 6. Not modelled

The app: the reset screen (one call whose answer shows an alert); push
registration; the open-url callback as such (it is how a sheet ends);
`AppDelegate`'s Google delegate, which `initSetup` replaces; text-field focus;
`cleanStr`, which returns its argument unchanged. The toggle of the login screen
after a registration, a Facebook user who withholds the e-mail, and the growing
stack of presented screens are in the model or in its abstractions, without a
property. Phone sign-in is not a method of AccountApp: it has its own screens and
its own module.

FirebaseAuth: access groups, anonymous users, linking, listeners. Facebook SDK:
batches, profile and settings caches, token extension, the challenge string, the
special cases of `SFAuthenticationSession`; an expired token (subcode 493) stays
current, as in the code, and its request simply fails. Database: the sync tree,
queries, the rerun of transactions (the connection's part in it, cancelling what
was sent, is there), disconnect operations, the disk cache, which the app leaves
off; which user a write was made for, as the connection does not keep it.

leveldb: `RepairDB`, `DestroyDB`, the lock file, approximate sizes, compression,
checksums as arithmetic, the footer, seek statistics, the rotation of compactions
through a level, `initial_offset` (always 0 here), the buckets of the cache's hash
table, false matches of filters, `reuse_logs` (modelled, off in the run).

Not at all: FirebaseCore, analytics, instance id, GTMSessionFetcher and nanopb
(infrastructure that keeps no session), and GoogleSignIn beyond its use, as it is
a binary. Most of the repository's lines of C are nanopb and public headers.

## 7. What is left

1. `CursorRight` of the iterators: an invariant of the children's positions and the
   direction, as for the skip list; a loop over a block moves by recursion over data.
2. The log and the tables stay with TLC: their functions are recursive over bytes.
3. The three hazards of `PROJECT.json` that have no property.
