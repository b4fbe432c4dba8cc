# MDSync in TLA+

TLA+ models of the parts of MDSync (`src/packages`) whose correctness is a matter of ordering: the file sync through a
passive object store, live editing through the relay's hub, and the device-side and relay-side state around both.
TLC checks the models on small instances; TLAPS proves what section 6 says for every instance.

Paths below are relative to `src/packages/plugin/src` unless they start with `relay/`.

## 1. The system

A vault is synced by several devices that never talk to each other directly.

* **File sync** (`sync/`). A device scans its disk, compares it with the remote *head manifest* and with its
  *baseline* (the last agreement it persisted), and pushes, pulls or resolves. The remote is an object store: content
  blobs, one manifest object, a history log. There is no compare-and-set and no server.
* **Live editing** (`live/`, `relay/src/hub`). A note open on several devices is a Yjs document. The hub keeps, per
  document, a log of encrypted updates it cannot read and forwards them to the sockets that follow it.
* **Around them**: the queue of operations and the timers that feed it, the state file, keys, shared spaces, the
  storage adapters and their sign-ins, the scan of the vault, renames, drawings, presence, the settings.

| Component | State it keeps | Operations | Talks to | What is hard | Correct when |
|---|---|---|---|---|---|
| compare, publish, pull (`sync/engine.ts`, `manifest.ts`, `diff.ts`, `baseline.ts`, `content.ts`, `operations/`) | disk, baseline, published heads, uploads | compare, push, pull, accept remote, keep local | store, vault folder | no CAS; edits during downloads; partial transfers; stale reads; lost responses | heads are complete; nothing unpublished is overwritten; no absence reads as a deletion; devices converge |
| moves and folders (`sync/moves.ts`, `pull-moves.ts`) | disk, folders, baseline | pair up, pull, push | the above | a pull stopped halfway; an occupied place | a move loses no content |
| decisions, merges (`ui/diff`, `sync/operations`, `sync/merge-model.ts`) | the panel's two texts, the choices | choose, apply, merge, undo | engine | numbers chosen on texts that changed since | what is applied is what was shown |
| operation queue (`sync/runtime`), scheduler (`sync/scheduler.ts`) | queue, epoch, pending refresh, timers, paths | request, run, invalidate, tick | engine, UI | requests folded together; scope changes under an operation | nothing asked is dropped; a stale result is never shown |
| history, collector (`sync/history`) | log of snapshots and changes, pins | publish, prune, sweep, pin | store | a sweep beside a push; a crash between prune and sweep | no retained version dangles |
| live session (`live/session`), agreed texts (`live/cold`) | Y.Doc, outbox, position in the log; last agreed text | join, seed, merge, send, ack, resend, rotate, follow | hub, editor, file sync | dropped frames, dead sockets, lost logs, typing while joining | agreed text is the room; no edit lost, doubled or undone |
| rooms of notes (`live/workspace`), drawings (`live/drawing`) | which room a file is in; elements by version | rename, probe, follow; drag, load, save | sessions, hub | two renames; views that load late | one room a path; no older element over a newer |
| hub (`relay/src/hub`) | per document: deltas, snapshot, pointer, log name; per socket: follows, grants | subscribe, seed, update, compact, rotate; admit, cut | sockets, KV store | concurrent seeds, late snapshots, half-open sockets, a KV store read late | the row stands for all it acked; the revoked are cut |
| hub link (`hub/link.ts`), presence (`presence`) | socket, timers, attempts; who is where | connect, lose, wake; announce, open | hub | timer, wake-up and close race; decryption takes time | one socket; who is shown is there |
| spaces (`spaces/`), ignore rules (`plugin/ignore-state.ts`) | records with revisions; rules | trade, move, close, follow; load, refresh, share | store, relay, vault | unconditional puts; late reads of rules | revisions only grow; no ignored file is shared |
| state file (`core/state-persister.ts`, `vault/atomic-write.ts`), keys (`sync/keyfile.ts`), settings links (`settings/transfer.ts`) | memory, pending write, file, backup; wrapped data key; settings | persist, load, reset; create, open, rotate; export, import | disk, store | crash between renames; two creators; settings changed while asked | saved means found again; one data key |
| storage adapters (`storage/adapters`), share broker and OAuth (`relay/src`) | ids, tokens, signed URLs | get, put, delete; sign in, refresh; sign | stores | lost answers, retries, caches, expiry | an answer is what the store holds |
| vault scan (`vault/scanner.ts`) | index, hash cache | walk, stat, read | disk, app | the index lags the disk; files change during the scan | the scan is the disk, or says it is not |
| crypto, UI, editor, logs | - | - | - | - | not modelled |

The hazards of the code, each at its line with the properties that would catch it, are in `PROJECT.json`.

## 2. Modules

| Modules | Model |
|---|---|
| `SyncDiff`, `VaultSync`, `SharedVault` | the pure comparison; the file sync of several devices; what it promises: one tree, replaced by commits that name what they may replace: versions their device has held, paths its user keeps |
| `RoomStore`, `LiveRoom` | a document's row at the hub; hub handlers, sockets, sessions, agreed texts and the editor of one note |
| `NoteRooms`, `LiveNotes`, `LiveDrawings`, `People` | renames of live notes; rooms beside the file sync; drawings; presence |
| `VaultHistory`, `TreeMoves`, `FileDecisions`, `MergeText`, `OperationQueue`, `Scheduler` | history and collector; moves; decisions on one note; three-way text merge; queue; timers |
| `HubAccess`, `HubLink`, `SpaceRecords`, `IgnoreRules` | admission and revocation; a device's socket; records of shares; ignore rules |
| `Keyring`, `StateFile`, `SettingsTransfer`, `VaultScan` | keys; the state on disk; settings links; the scan |
| `ObjectStores`, `DriveSignIn`, `ShareBroker` | S3, WebDAV, Drive; Drive tokens; a share's signed URLs |
| `MCVaultSync`, `MCLiveRoom`, `MCHistory` | instances of the two core modules and of the history |
| `MCDevice`, `MCShared`, `MCScenes`, `MCConverges` | several modules under one model: `part` is chosen once, that module runs, the variables of the others hold `None` |
| `VaultSync_proofs` | theorems about `VaultSync` |
| `LiveRoom_proofs` | theorems about `LiveRoom`: its types; a session, its wire and its room, and the session's steps; the system's |
| `LiveOnce_proofs` | more of them: who made each operation, and that none is doubled, undone or lost from an open text |
| `Keyring_proofs`, `HubAccess_proofs`, `HubLink_proofs`, `VaultHistory_proofs` | theorems about `Keyring`, `HubAccess`, `HubLink` and `VaultHistory` |
| `Shared_proofs` | the same of the instances that `MCShared` composes |

The head of each module says which files it stands for and what it leaves out; `map` in `PROJECT.json` names the
lines of every definition. Three are described here: two because the rest leans on them, one for its callers.

**VaultSync.** A manifest is named by its position among all manifests ever put (`heads`), so its parent and the lag
of a read are numbers. `op[d]` is the operation device `d` runs: one at a time, as `controller-state.ts` enqueues them.
Each `await` between two accesses to shared state separates two actions: a push is `StartPush`, one `Upload` per
file, `Precheck`, `Put`, `Verify`, `PersistPush`; a pull is `StartPull` and per path `PullLeave` or `PullFetch` then
`PullWrite`, or `PullDelete`, then `FinishPull`. `Recompare` is the retry after a concurrent push, `Edit` the user.
`Fail` leaves transfers in flight (`utils/concurrency.ts` rejects while other workers go on): they land later through
`WriteLate`, under whatever the device does then. `Crash` keeps disk and baseline. A comparison is one step: it reads
every path once and the head once, and edits and puts in between commute out of it. The check of a file's stat and
its write are one step. Keeping this side of a conflict takes two comparisons: `Choose` picks conflicts on what a
refresh showed and remembers their paths (`chosen`; `controller.ts:390-400`), `StartKeep` compares again
(`operation-runner.ts:327-332`) and keeps what conflicts by then, whatever the remote version is. The history variable
`held` is what a device had on disk, nothing more: no step adds to it a version that was only compared with.

**LiveRoom.** A text is the set of edits it shows; a Yjs update is a set of operations, so merging is union and
applying twice is harmless. An operation inserts an edit under the client id of its document, or cuts an earlier
insertion: the same edit under two ids is a doubled text. `up` and `down` are the frames on the wire, in order per
socket; a device that reconnects uses its other socket, and with the fault `late` the hub still reads what the dead one
carried. A session's queue runs one step at a time and drops what a dead socket queued, so a handler with its awaits
is one action (`Receive`); each handler of `session.ts` is an operator of the same name that returns the session and
the frames it sends, and `Commit` puts them into effect. Which device believes it leads the compaction is left open.
Nobody deletes text in this model: whatever disappears was taken out by the program.

**Keyring.** The passphrase manager's callers are sessions, the commands of the settings tab, and settings links: an
export makes a link with whatever passphrase the manager holds, an import takes one from anywhere and, if it opens with
the passphrase held, adopts that as verified (`Transfer`, `Import`, `adopt`; `settings/transfer-controller.ts`).
`linked` are the passphrases that opened a link.

## 3. Runs

| Run | Instance | Checks |
|---|---|---|
| `vault_faults` | `VaultSync`: 2 devices, 2 paths, 2 contents, 2 edits, 1 fault, 4 puts, no lag | `TypeOK`, `HeadComplete`, `ReplacesOnlyHeldOrKept`, `PullSparesUnpublished`, `RemovesOnlyDeleted`, `ImplementsSharedVault` |
| `live_sockets` | `LiveRoom`: 2 devices, 2 typed edits, 1 rotation, one of `drop`, `late`, `over` | `TypeOK`, `AgreedIsRoom`, `RoomKept`, `OwnEditsTracked`, `NoDoubling`, `ViewKeeps` |
| `live_restart` | 1 typed edit, 1 rotation, 2 delayed writes, one of `crash`, `close`, `wipe`, `early` | `RestartKeeps`: no opening undoes an edit of the room or inserts one twice |
| `converges` | `VaultSync`, `LiveRoom`, `SpaceRecords` under fairness | devices end with one vault, one text, the same shares |
| `device` | 10 parts: `StateFile`, `OperationQueue`, `FileDecisions`, `MergeText`, `ObjectStores`, `DriveSignIn`, `ShareBroker`, `VaultScan`, `IgnoreRules`, and `VaultSync` with one device whose reads lag by one (`LinearHistory`) | one property per part (`StateSafe`, `DecisionSafe`, ...) |
| `shared` | 8 parts: `VaultHistory` (2 notes; its log and head in `HistorySafe`, its pins too in `VersionsSafe`), `HubAccess`, `HubLink`, `SpaceRecords`, `NoteRooms`, `LiveNotes`, `People`, `Keyring` | one property per part, two of the history |
| `scenes` | 5 parts: `TreeMoves`, `LiveDrawings`, `Scheduler`, `SettingsTransfer`, and `VaultSync` from vaults that never synced, with a drawing | one property per part |
| `vault_winners`, `vault_accept`, `live_reopen`, `live_join`, `history_pins` | the smallest instances | each finds one property violated (section 5) |

**Bounds.** Every race of the file sync needs two devices and one path; the second path is there for partial
transfers. Two contents tell an edit from its origin, the third (in the `first` part of `scenes`) makes a pair of equal
drawings. Three or four puts let a manifest be built on one that was replaced. In the live room two typed edits are
one per device or two in a row of one device; with `CompactAfter` = 3 a room is compacted once it holds the seed and
both of them, by either device or by both, one late. One rotation and one successor generation suffice for an update,
a snapshot or a lost socket to cross it; `MaxSent` bounds resends by the ack timer only. `live_restart` types one edit
and so never compacts: compaction meets lost sockets in `live_sockets` but no crash. The parts of the composites are
bounded by counters of what users, faults and time may do, in their `INSTANCE ... WITH`; each bound lets the race its
property is about happen, and a mutant of the code (`mutants` in `PROJECT.json`) breaks every property at those
bounds. Deadlock is not checked where a synced system with its bounds used up stops. Symmetry is used only over
values that no part treats differently; the runs for liveness and for violations use none.

**`Exclusive`.** The guard of a publish is a precheck, an unconditional put and a verify. Properties that need
publishers not to overlap are checked, and proved, with `"put" \in Exclusive`: while a device is between its precheck
and its put, no other device prechecks. The code does not enforce this: `vault_winners` shows what is lost. `converges`
also excludes between put and verify: without it two devices that auto-sync can refuse each other forever.

**Races.** Several modules have a constant `Races` (or `Overlapping`, `Rotates`): interleavings the code does not
exclude and under which its own promise fails. A run leaves them out, the module names them, and section 5 lists them.

**Fairness.** File sync: a device starts what its comparison offers (the auto cycle re-runs), an operation that can
take a step takes one (awaited promises settle), a user gets round to a conflict, late transfers end. No fairness
for edits or faults. Live room: the hub handles what reached it; a device's queue, flush and ack timers, binding,
following and reconnection (`link.ts` reschedules after every loss) go on; one weak fairness per device is enough, as
between faults a device has finitely many steps. Records: a trade that began goes on, and starts again.

## 4. Simplifications worth knowing

* `VaultSync`: vault ids, reset generations, foreign spaces' entries, the 12-hour trust in earlier uploads and the hash
  cache are left out; a move is a write and a deletion there, and `TreeMoves` has moves proper, without conflicts or
  live rooms' holds, its check and rename in one step.
* `LiveRoom`: read-only followers, staged drawings, refused and unreadable frames. `Sub` and `Seed` are never dropped for
  their rate: the burst covers what a socket asks when it opens. `NoteRooms` and `LiveNotes` have one note a device, and
  a room's round trip is one step in `LiveNotes`. `LiveDrawings` has a hub that loses nothing.
* `HubAccess`: the owner sends one request at a time and its routes read the KV store fresh; revoked rows outlive the
  store's lag. `HubLink`: the HTTP probe and disposal are left out. `People`: names, the idle timer and a failing read of
  the access key.
* `Scheduler`: paths taken by a push that fails are dropped until the next full sync; the cap of the backoff and a
  change of scope during a push are left out. `VaultScan`: case clashes, files too large, empty folders, a walk
  without the app's index. `SettingsTransfer`: clamps and validation. `MergeText`: a blank line at the end of a side is
  exempted (`merge-model.ts:355` treats it unlike `:319`). Key derivation, signatures and encryption are abstract.

## 5. What the checks found

Five runs expect a violation; `findings` in `PROJECT.json` quotes the lines.

* `vault_winners` (`sync/manifest.ts:151`): the verify does not guard writers that pass one precheck and put in turn;
  both are told they won, and the second silently replaces the first.
* `vault_accept` (`sync/operations/resolve.ts:55`): an accept asks once whether a file changed and then writes after the
  downloads; an edit in between is overwritten.
* `live_reopen` (`live/session/session.ts:187`): frames are matched by document only, so the answer to a session closed
  on the same socket reaches the next one, which may seed twice and call agreed a text the room does not hold.
* `live_join` (`live/workspace/room.ts:103`): a device joins a room seeded from an older text with its own synced version
  as merge base, and loses what that version added.
* `history_pins` (`sync/maintenance.ts:156`): a deep clean looks again at the flags of the pins before it deletes, but
  a pin's manifest is stored before its flag. A pin in between, of a snapshot whose contents a push took away and
  nothing in the log names any more, ends with its contents deleted. The collector asks storage for the manifests
  (`gc.ts:160`), and no such fault is found in it. The history part of `shared` therefore claims all the history offers
  (`VersionsSafe`: versions, deleted files, pins) until a deep clean begins, and at any time what the head and the walk
  over the log offer (`HistorySafe`).

Interleavings left out of the passing runs, because the promise fails under them:

* `VaultHistory`: a publish between the head a sweep read and its deletes (`upload`) leaves a head naming swept blobs;
  two rewrites of the log (`log`) lose a pinned version. With the bounds of
  `history_pins` raised, TLC finds two more ways from a deep clean to a pin without contents: a pin that overlaps an
  unpin of the same snapshot, and, on one device, a pin that trusts the manifest a crashed unpin left
  (`store.ts:140-145`).
* `Keyring`: a store that ignores conditional puts may keep a second key; two overlapping rotations both report
  success; a late save after a forget.
* `StateFile`: a reset while an older persist runs, or an unload during a write (`state-persister.ts:91`).
* `OperationQueue`: a walk asked for while a refresh runs may be answered by that refresh's older walk
  (`controller.ts:205-209` against `operation-runner.ts:144-145`).
* `SpaceRecords`: a record added during the first trade with another vault is dropped (`records.ts:217-223`).
* `LiveRoom`: fault `unnamed` (`room-log.ts:22`): the device whose seed started a room does not know the log's name until
  its next `State`, and takes a lost log that grew as long for it; with `wipe` the agreed text need not be the room.
* `DriveSignIn`: a sign-in that ends during a refresh is overwritten by it; with rotating refresh tokens the relay keeps
  the old one (`google-drive.ts:83-85` against `google-oauth.ts:54-60`).
* `ObjectStores`: on Drive two creates at once, a create whose answer was lost, an object another device deleted.
* `ShareBroker`: the owner registers another bucket while URLs are prepared; a late failure of an old batch fails a newer
  hint. `FileDecisions`: a click while the panel is entered.
* `VaultScan`: two writes within one tick of the mtime (`scanner.ts:129-131`).
* `LiveDrawings`: seeding from a file that dropped an element brings it back (`model.ts:31`); an element held open is
  bumped over a newer edit. `TreeMoves`: a stopped pull leaves an emptied folder that is then pushed
  (`engine.ts:281-286`).
* `SettingsTransfer`: settings changed while the person is asked are put back. `IgnoreRules`: refreshes that end in the
  other order, a failing save beside a refresh, files made while a folder is being shared.

Behaviours no property claims away: keeping this side of a conflict replaces the remote version that is there when the
operation runs, be it later than the one its user chose on (`resolve.ts:89-119` expects no remote hash, a saved merge
does, `:199-207`; the dialog of `ui/source-control/modals.ts:15` says that local versions overwrite the remote, and of
which remote versions nothing), so `ReplacesOnlyHeldOrKept` and `SharedVault` exempt the chosen paths; the runs meet
this in the `first` part of `scenes`, where three puts let a third version in between. A settings import adopts the passphrase that opened its link as verified
and caches it (`settings/transfer-controller.ts:80`, `passphrase-manager.ts:122-126`), where `:38` of the latter says "cached
on disk only once it does" open the keyfile: made and opened with a passphrase that was only typed, a link puts one on
disk that never opened it. `OnlyProvenOnDisk` says what does hold, that it opened the keyfile or a link; the keys are
unaffected. Further, a lost put response followed by a read of the manifest before it makes a device
refuse its own publish; with a lag of one, `ImplementsSharedVault` does not hold, and with forks neither does
`RemovesOnlyDeleted`; a failed accept's transfers land unchecked; a device that crashed with frames in flight may
double its edits (`live_restart` has no `late`); two devices that join one room with the same edit, received by file
sync and never agreed, both insert it.

## 6. What is proved

For all devices, paths, contents and bounds, from `NoFileAssumption`, `SceneAssumption` and `BoundsAssumption` (the
absent file is no content; a drawing's scene is a function of its content; the bounds are naturals). In
`VaultSync_proofs`:

* `TypeCorrect`: `Spec => []TypeOK`. `TypeOK` is not inductive: an operation's `base` and `mine`, the baseline and the
  published head must point into `heads`, a parent must precede its child (or `FilesAt` is applied outside its
  domain), and what a push still has to upload must be files. `TypeInv` adds that; one lemma per group of actions shows
  it preserved.
* `HeadsComplete`: `Spec => []HeadComplete`. `SupplyInv` is carried along: whatever an operation is about to publish is
  made of blobs in the store, of files it still has to upload, or of what a stored manifest already names; each action
  either adds blobs or moves an obligation from one part to the next.

Still for every environment (overlapping publishers, stale reads, faults):

* `ReplacesAreAccounted`: `Spec => ReplacesOnlyHeldOrKept`, an action property: a put changes a path of the manifest it
  builds on only if its device has held that version, or it is a keep of a path its user chose. `HeldInv` says of every
  place a version can come from that its device has held it: the baseline, the files on disk, and per phase of an
  operation the entries it carries, but for the paths a keep has read. Of those it does not say that the user saw the
  version replaced, which the code does not ensure.
* `PullsSpare`: `Spec => PullSparesUnpublished`, an action property. `PubInv`: a baseline's versions were published, and
  what a pull is about to replace was scanned as in the baseline or the head.

Under `Serial` (no stale reads, `"put" \in Exclusive`; the assumption the code does not
enforce, see `vault_winners`):

* `SerialHistory`: each manifest builds on the one it replaces. `SerialInv`: an operation past its precheck has the
  newest head as its base, and nobody else is there.
* `RemovesAreDeletions`: `Spec => RemovesOnlyDeleted`. `GoneInv`: wherever a path is missing that a version known to that
  place had (disk, baseline, an operation's next manifest, a late write), a user deleted it.
* `ImplementsVault`: `Spec => ImplementsSharedVault`. `KeptInv` joins the invariants above; every step maps to one commit
  of `SharedVault` or to a stutter.

For `LiveRoom`, for all devices, edits, generations and bounds, from `RoomAssumption` (what a device's file starts with
is edits, `None` is no text, `CompactAfter` is positive, the bounds are naturals):

* `TypesHold`: `Spec => []TypeOK`, with every fault. A fresh client id is chosen among the first
  `Cardinality(drawn) + 1` numbers, so it exists only if finitely many were drawn: `TypeInv` carries a bound on them,
  that a step raises by at most two; also, a rotation is asked only of a generation that has a next one.
* `AgreedTextIsRoom`, `RoomIsKept`, `EditsAreTracked`: `AgreedIsRoom`, `RoomKept` and
  `OwnEditsTracked` always hold under `Kept`: `"wipe"` and `"reopen"` are not among the faults. Drops, dead sockets the
  hub still reads, writes over the rate, early resends, closing, crashes, compactions by several leaders, rotations
  and following are all in. Without the second half of `Kept` the first theorem is false (`live_reopen`); without the
  first it is false with `unnamed` (section 5) and not proved otherwise.

None of the three is inductive. `Safe` is, given the types, and says of every state:

* a room that has not moved is its log (`RowIsLog`: the snapshot its first `snapSeq` updates, the deltas the rest), a
  moved one has its text in its successor's first update (`RoomOK`); a snapshot or rotation on the wire is a copy of
  the room's first `upto` updates, whoever sent it and when (`CopiesOK`);
* a session has its log's first `seq` updates, and its document is those, `pending` and `unacked`, nothing else
  (`PlaceOK`, `OwesOK`);
* between a session and its hub (`Conn`): what the device sent is of its present place (`AsksOK`), what is on its way
  to it tells of its log in order, without gaps, and an echo names an update that holds what it acks (`AnswersOK`), and a
  socket that follows a room has its last update, or will (`TipOK`): so nothing is skipped when a frame is handled and
  nothing that was dropped is taken for received;
* a socket's earlier rooms are unsubscribed, or about to be (`LeavesOK`), so none of their frames is taken for the next
  room's; what was agreed is a place in its room's log (`AgreedOK`).

The first half of `LiveRoom_proofs` shows what each part keeps when a frame is added or taken, the log grows or the
session moves on, and that each handler keeps them; the second puts the steps together, one lemma each.

Three more theorems of `LiveRoom`, in `LiveOnce_proofs`, hold under `Steady`: besides `Kept`, notes stay open (none of
`"crash"`, `"close"`, `"reopen"`, `"wipe"` is a fault; drops, dead sockets, lost or late frames, the rate, seeds by
several devices, rotations and following are all in):

* `NothingIsDoubled`: `Spec => []NoDoubling`, no room shows an edit under two client ids;
* `NothingIsUndone`: `Spec => []NothingUndone`, no merge cuts what nobody deleted;
* `TextIsKept`: `Spec => ViewKeeps`, an action property: no step takes an edit out of an open note.

What a seed or a merge inserts is what its session thinks the room lacks, and `Safe` says nothing of that: a join that
merges from too old a base inserts again what another device brought in. `Once` says where operations come from. What
a device shows is of its room's document, of an older room, of the text all started with, or the device is the only
one that ever made it (`KnowsOnce`, `Sole`); what two devices both show is already in some room (`SharedOnce`); a
room's first update has all that the rooms before it showed (`RoomOnce`), so a device that moves on loses and repeats
nothing; the base of a session that is still to join or to bind is in the room's text and in its own (`OpenOnce`); and
a room and the documents of everyone in it have one operation an edit (`RoomsOnce`), where what comes in is either the
room's or `Fresh`: made by this device now, of an edit that is nowhere else. `Once` is inductive together with the
types and `Safe`; `Keeps` comes from the same steps. With sessions that end it is false: a device that crashed with an
update on the wire opens its note again and inserts the same edit anew (section 5), so what holds of notes opened
again is checked up to the bounds of `live_restart`. A note that changes by file sync is in `LiveNotes`, not here.

For `Keyring`, for all devices, concurrent operations, passphrases and bounds, from `KeyringAssumption` (an operation
belongs to a device, `None` is nothing else), with restarts anywhere:

* `CacheIsProven`: a remembered key was opened by the passphrase its manager holds now (`KeyOfItsPassphrase`), and a
  passphrase on disk opened the keyfile or a settings link (`OnlyProvenOnDisk`), whatever the store; that it
  opened the keyfile is false after an import (section 5). `CacheInv` adds that a passphrase held and no longer
  marked unverified opened one of them, and so did the one an operation is about to save, import or has rotated to.
  An answer typed while another derivation runs is what it is about: the key is kept only if the passphrase is still
  the one it was derived from.
* `KeyIsOne`, under `Conditional` (the store honours `putIfAbsent`): every key handed out is the keyfile's. `KeyInv`:
  remembered keys and the key inside a wrapping about to be put are the keyfile's too, so rotations that cross replace
  wrappings of one key. Without `Conditional` it is false (section 5).

For `HubAccess`, for all devices, tokens, sockets and bounds, from `AccessAssumption` (tokens are positive, `None` is
nothing else), `CutAndSeen`, with requests that die at any await, a KV store read late and sockets that vanish:

* `RevokedIsCut` by `CutInv`: an issued token is the participant's pointer, or is being put in place and nothing goes by
  it yet (`Quiet`), or is `Gone`: no socket has it, and the hub refuses it or neither a late read nor an admission under
  way can bring it back. That is why `revoked.ts` may forget a token only past the store's lag, and why the drop comes
  first in every request (`PointerDropped`). A token whose request died before its pointer was put is `Gone` as well.
* `SeesWhoIsThere` by `ViewInv`: for every other socket, what a device sees and what is on its way to it amount to
  whether that socket is on the channel. Frames about one socket are in order, so a `leave` without a later `join`
  decides.

For `HubLink`, for all spaces, sockets, settings and bounds, from `LinkAssumption` (`None` is no number and no link),
`ToldAndTrying`: `ToldIsStatus` and `NeverStranded` under losses with and without an event, refusals, revocations, failed
openings and replaced links. `LInv` adds the types and `SocketLives`: the socket a link holds is one whose events still
come, and once it opened it is pinged, so that a silent one is found.

For `VaultHistory`, for all devices, notes, trees a push may hold and bounds, from `HistoryAssumption` (a push holds a
tree of the notes, `MaxPushes` and `Retained` are naturals), with pins, crashes, failed updates and deep clean anywhere:

* `HistoryTrue`: whatever order lost and repeated updates leave the log in, the walks over it attribute to a snapshot only
  what it held (`HistoryIsTrue`), with no assumption on what overlaps. The inductive invariant, `HTypes`, is small: an
  entry of the log, or of a copy of it, is of a snapshot that was published. The work is in the walk: the part of a log
  that it trusts counts down from the head without a gap (`contiguousLength`), and undoing the changes of one snapshot
  after another gives each parent's tree, by induction over the chain.
* `HeadHolds`, without `"upload"` in `Races`: the head can be downloaded (`HeadIntact`). `HeadInv` adds what each operation
  has promised the head (`HeadOK`): a push that can still win has its blobs in the store, a collector keeps what its own
  snapshot holds and sweeps only while that is the head, a deep clean keeps what the head it read holds.
* `ChainHolds`, with `Races` empty: so can every version the walk over the log offers (`ChainIntact`). `ChainInv` is about
  the snapshots of the log, wherever they stand in it (`LogIntact`: the blobs their changes name are in the store); the
  trees of the chain follow by walking down from the head. `ChainOK` says what a rewrite, a collector and a deep clean
  have promised the log, `Apart` what two devices cannot be at the same time.

With `"upload"` in `Races` both of the last two are false, with `"log"` the last (section 5): what the code leaves to luck is named in the
theorem's hypothesis. What the pins offer (`VersionsIntact`) is not proved: an unpin clears the flag before it drops the
manifest, a later pin trusts a manifest it finds, and with more pins than the run has that ends in a pin without
contents (section 5), so the property holds up to a bound only.

`KeyringSafe`, `AccessSafe`, `LinkSafe` and `HistorySafe` are properties of the composed runs; `KeyringHolds`,
`AccessHolds`, `LinkHolds` and `HistoryHolds` carry the proofs over:
the composition's steps are the component's, the constants it is given satisfy the assumptions (`SharedAssumption`,
which TLC evaluates), and the others' steps leave the part alone.

What no prover here reaches stays with TLC: liveness under fairness (`converges`) and anything that needs `ENABLED`.
`RestartKeeps` of `LiveRoom` is proved only without what it is about, sessions that end (`Steady`): with them it is
model-checked. All other properties are model-checked only. No module uses a `RECURSIVE` operator: a walk over a log
is a recursive function, which the provers can unfold, and `VaultHistory_proofs` shows what it computes by taking the
least index where it would not.

## 7. Plan

In `LiveRoom`, `Kept` without its first half, and `NoDoubling` and `NothingUndone` with notes that are closed and opened
again once their last frames have landed, which needs `Once` to say what the frames of a session that ended still hold.
Then the smaller modules whose properties are inductive with little: `StateFile`, `SettingsTransfer`, `People`.
