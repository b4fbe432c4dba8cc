------------------------------ MODULE VaultSync ------------------------------
(***************************************************************************)
(* The file sync of MDSync: several devices keep one vault in step through *)
(* a passive object store.  The store holds content blobs and one          *)
(* manifest, the head; a device compares its disk with the head and the    *)
(* baseline (what both last agreed on), uploads blobs, publishes a new     *)
(* head behind a precheck and a verify, or writes remote versions down.    *)
(*                                                                         *)
(* A manifest is identified by its position among all manifests ever put,  *)
(* so the last one is what the store holds now, and 0 is "no manifest".    *)
(* Every await between two reads or writes of shared state (the store, the *)
(* disk the user edits) separates two steps.  Operations of one device are *)
(* serialised by its queue (controller-state.ts enqueue), so a device runs *)
(* at most one.  A comparison is one step: it reads each path once and the *)
(* head once, so edits and puts around those reads commute out of it.      *)
(***************************************************************************)
EXTENDS SyncDiff, Naturals, Sequences, FiniteSets

CONSTANTS
    Device,
    MaxEdits,    \* bound: edits the users make, all devices together
    MaxKeeps,    \* bound: times users keep their side of a conflict
    MaxPuts,     \* bound: manifests put or on their way to be
    MaxFaults,   \* bound: crashes, failed requests and cancellations
    MaxLag,      \* versions by which a read of the manifest may lag
    Exclusive,   \* steps of a publish during which no other device prechecks
    StartSynced  \* start from a vault all devices hold, or from an empty store

ASSUME BoundsAssumption ==
    /\ MaxEdits \in Nat /\ MaxKeeps \in Nat /\ MaxPuts \in Nat
    /\ MaxFaults \in Nat /\ MaxLag \in Nat
    /\ Exclusive \subseteq {"put", "verify"} /\ StartSynced \in BOOLEAN

VARIABLES
    heads,      \* every manifest put, oldest first; the last is the stored one
    objects,    \* hashes whose blob is in the store
    disk,       \* what each device's vault folder holds
    baseline,   \* per device, the persisted agreement: a manifest id and files
    published,  \* per device, the head this session published (publishedHeads)
    uploads,    \* per device, blobs uploaded and not yet in a published manifest
    op,         \* per device, the operation it runs
    late,       \* per device, writes still in flight of an operation that failed
    edits, keeps, faults,  \* counters behind the bounds
    chosen,     \* per device, conflicts its user chose to keep this side of
    held,       \* history: versions of a path a device has held
    deleted,    \* history: paths some user deleted
    won         \* history: manifests whose publisher was told they are the head

store == <<heads, objects>>
local == <<disk, baseline, published, uploads, late>>
input == <<edits, keeps, faults, chosen>>
history == <<held, deleted, won>>
vars == <<store, local, op, input, history>>

-----------------------------------------------------------------------------
(* Operation records.                                                       *)

Kind == {"none", "push", "keep", "pull", "accept"}
Pc   == {"idle", "transfer", "put", "verify", "persist", "recompare"}

(* base: the remote manifest the comparison saw; snap: the scanned disk;    *)
(* todo: paths still to transfer; fetched: downloaded, not yet written;     *)
(* settled: paths whose baseline advances, or a keep read so far; next: the *)
(* files to publish;                                                        *)
(* mine: the id of the manifest put; touched: paths written or removed      *)
(* since the scan.                                                          *)
Operation ==
    [kind : Kind, pc : Pc, base : Nat, snap : Files, todo : SUBSET Path,
     fetched : SUBSET Path, settled : SUBSET Path, next : Files, mine : Nat,
     touched : SUBSET Path]

Idle ==
    [kind |-> "none", pc |-> "idle", base |-> 0, snap |-> NoFiles, todo |-> {},
     fetched |-> {}, settled |-> {}, next |-> NoFiles, mine |-> 0, touched |-> {}]

Begin(kind, base, snap, todo, settled, next) ==
    [kind |-> kind, pc |-> "transfer", base |-> base, snap |-> snap, todo |-> todo,
     fetched |-> {}, settled |-> settled, next |-> next, mine |-> 0, touched |-> {}]

(* A write that outlives its operation, and what unchangedSince allows it   *)
(* to replace: the scanned file, nothing, or (accept does not ask) any.     *)
LateWrite == [path : Path, content : Content, over : {"file", "nothing", "any"}]

idle(d) == op[d].pc = "idle"
running(d, kinds, pc) == op[d].kind \in kinds /\ op[d].pc = pc

-----------------------------------------------------------------------------
(* Manifests and reads of the head.                                         *)

Manifest == [parent : Nat, by : Device, files : Files]

FilesAt(n)  == IF n = 0 THEN NoFiles ELSE heads[n].files
ParentOf(n) == IF n = 0 THEN 0 ELSE heads[n].parent

(* What fetchRemoteManifest may return: the head, or a version the lagging  *)
(* store still serves.  A vault that starts synced is never read as absent. *)
Reads == {n \in 0..Len(heads) : n + MaxLag >= Len(heads) /\ (StartSynced => n # 0)}

(* An absent head clears what this session remembers publishing.            *)
publishedAfter(d, read) == IF read = 0 THEN 0 ELSE published[d]

(* reconcileRemoteAgainstBaseline: a read one version behind this session's *)
(* own head stands for that head; one behind any other baseline is refused. *)
lagsOwnHead(d, read) ==
    /\ read # 0 /\ baseline[d].id # 0 /\ read # baseline[d].id
    /\ published[d] = baseline[d].id
    /\ ParentOf(published[d]) = read

refused(d, read) ==
    /\ read # 0 /\ baseline[d].id # 0 /\ read # baseline[d].id
    /\ ~lagsOwnHead(d, read)
    /\ ParentOf(baseline[d].id) = read

(* Mutant: a stale read is taken at its word.                               *)
reconciledToRead(d, read) == read

reconciled(d, read) == IF lagsOwnHead(d, read) THEN published[d] ELSE read

(* compare: with no remote manifest there is no agreement either.           *)
agreed(d, n) == IF n = 0 THEN NoFiles ELSE baseline[d].files

localOf(d, n) == localChanges(disk[d], FilesAt(n), agreed(d, n))
(* Mutant: a remote deletion is not a change.                               *)
remoteOfKept(d, n) ==
    {p \in remoteChanges(disk[d], FilesAt(n), agreed(d, n)) : FilesAt(n)[p] # NoFile}

remoteOf(d, n) == remoteChanges(disk[d], FilesAt(n), agreed(d, n))
conflictsOf(d, n) == conflicts(disk[d], FilesAt(n), agreed(d, n))
convergedOf(d, n) == converged(disk[d], FilesAt(n), agreed(d, n))

(* The comparison an operation of d starts with: it saw manifest n.         *)
Compare(d, n) ==
    \E read \in Reads :
        /\ ~refused(d, read)
        /\ n = reconciled(d, read)
        /\ published' = [published EXCEPT ![d] = publishedAfter(d, read)]

(* The bound on manifests counts those on their way.                        *)
publishing == {d \in Device : op[d].kind \in {"push", "keep"} /\ op[d].mine = 0}
roomToPublish == Len(heads) + Cardinality(publishing) < MaxPuts

-----------------------------------------------------------------------------
TypeOK ==
    /\ heads \in Seq(Manifest)
    /\ objects \subseteq Hash
    /\ disk \in [Device -> Files]
    /\ baseline \in [Device -> [id : Nat, files : Files]]
    /\ published \in [Device -> Nat]
    /\ uploads \in [Device -> SUBSET Hash]
    /\ op \in [Device -> Operation]
    /\ late \in [Device -> SUBSET LateWrite]
    /\ edits \in 0..MaxEdits /\ keeps \in 0..MaxKeeps /\ faults \in 0..MaxFaults
    /\ chosen \in [Device -> SUBSET Path]
    /\ held \in [Device -> [Path -> SUBSET Content]]
    /\ deleted \subseteq Path
    /\ won \subseteq Nat

(* Fresh: any disks, an empty store.  Synced: one manifest, on every disk   *)
(* and in every baseline, as after a first push and pulls everywhere.       *)
Init ==
    /\ \/ /\ ~StartSynced
          /\ heads = << >>
          /\ objects = {}
          /\ disk \in [Device -> Files]
          /\ baseline = [d \in Device |-> [id |-> 0, files |-> NoFiles]]
       \/ /\ StartSynced
          /\ \E d \in Device, files \in Files :
                /\ heads = <<[parent |-> 0, by |-> d, files |-> files]>>
                /\ objects = hashesOf(files)
                /\ disk = [e \in Device |-> files]
                /\ baseline = [e \in Device |-> [id |-> 1, files |-> files]]
    /\ published = [d \in Device |-> 0]
    /\ uploads = [d \in Device |-> {}]
    /\ op = [d \in Device |-> Idle]
    /\ late = [d \in Device |-> {}]
    /\ edits = 0 /\ keeps = 0 /\ faults = 0
    /\ chosen = [d \in Device |-> {}]
    /\ held = [d \in Device |-> [p \in Path |-> {disk[d][p], NoFile}]]
    /\ deleted = {}
    /\ won = {}

-----------------------------------------------------------------------------
(* unchangedSince compares a file's stat with the scan's, so every write to *)
(* a path that held a file shows, even one that restores its content; a     *)
(* path that held none is unchanged whenever it holds none again.           *)

unchangedSince(d, p) ==
    IF op[d].snap[p] = NoFile THEN disk[d][p] = NoFile ELSE p \notin op[d].touched

touching(d, p) ==
    IF op[d].kind \in {"pull", "accept"}
    THEN [op EXCEPT ![d].touched = @ \cup {p}]
    ELSE op

(* Mutant: a late write over a file since rewritten still goes.             *)
writtenUnder(d, p, c) ==
    /\ disk' = [disk EXCEPT ![d][p] = c]
    /\ late' = late
    /\ held' = [held EXCEPT ![d][p] = @ \cup {c}]

(* Path p of d now holds c: late writes over the file it held will not go.  *)
written(d, p, c) ==
    /\ disk' = [disk EXCEPT ![d][p] = c]
    /\ late' = [late EXCEPT ![d] = {w \in @ : w.path # p \/ w.over # "file"}]
    /\ held' = [held EXCEPT ![d][p] = @ \cup {c}]

(* The user edits, creates or deletes a file while anything runs.           *)
Edit(d, p, c) ==
    /\ edits < MaxEdits
    /\ c # disk[d][p]
    /\ written(d, p, c)
    /\ op' = touching(d, p)
    /\ edits' = edits + 1
    /\ deleted' = IF c = NoFile THEN deleted \cup {p} ELSE deleted
    /\ UNCHANGED <<store, baseline, published, uploads, keeps, faults, chosen, won>>

(* refreshSpace: paths both sides changed alike enter the baseline.         *)
refreshedTo(d, n) ==
    /\ Compare(d, n)
    /\ baseline' =
         IF n # 0 /\ convergedOf(d, n) # {}
         THEN [baseline EXCEPT ![d] =
                 [id |-> n,
                  files |-> advanceFiles(@.files, FilesAt(n), convergedOf(d, n))]]
         ELSE baseline

refreshed(d) == \E n \in 0..Len(heads) : refreshedTo(d, n)

Refresh(d) ==
    /\ idle(d)
    /\ refreshed(d)
    /\ UNCHANGED <<store, disk, uploads, late, op, input, history>>

(* "Storage returned an older manifest": the comparison ends in an error.   *)
compareRefused(d) ==
    /\ \E read \in Reads : refused(d, read)
    /\ UNCHANGED <<baseline, published>>

(* A push that met another writer compares again before its turn ends.      *)
Recompare(d) ==
    /\ op[d].pc = "recompare"
    /\ refreshed(d) \/ compareRefused(d)
    /\ op' = [op EXCEPT ![d] = Idle]
    /\ UNCHANGED <<store, disk, uploads, late, input, history>>

-----------------------------------------------------------------------------
(* Push: upload what the head does not reference, then publish.             *)

(* Mutant: the push publishes the scan, not the scan's changes to the head. *)
StartPushWhole(d) ==
    /\ idle(d)
    /\ roomToPublish
    /\ \E n \in 0..Len(heads) :
        /\ Compare(d, n)
        /\ conflictsOf(d, n) = {}
        /\ localOf(d, n) # {}
        /\ op' = [op EXCEPT ![d] =
                    Begin("push", n, disk[d],
                          {p \in Path : disk[d][p] \in Hash \ hashesOf(FilesAt(n))},
                          publishedDelta(FilesAt(n), disk[d]), disk[d])]
    /\ UNCHANGED <<store, disk, baseline, uploads, late, input, history>>

StartPush(d) ==
    /\ idle(d)
    /\ roomToPublish
    /\ \E n \in 0..Len(heads) :
        /\ Compare(d, n)
        /\ conflictsOf(d, n) = {}
        /\ \E paths \in SUBSET localOf(d, n) \ {{}} :
            LET next == advanceFiles(FilesAt(n), disk[d], paths)
            IN  op' = [op EXCEPT ![d] =
                        Begin("push", n, disk[d],
                              {p \in paths : disk[d][p] \in Hash \ hashesOf(FilesAt(n))},
                              publishedDelta(FilesAt(n), next), next)]
    /\ UNCHANGED <<store, disk, baseline, uploads, late, input, history>>

(* One upload per hash: the other paths holding it are done too.            *)
uploaded(d, p) == {q \in op[d].todo : op[d].snap[q] = op[d].snap[p]}

(* uploadObject reads the file again: its bytes must still be the scanned.  *)
Upload(d, p) ==
    /\ running(d, {"push"}, "transfer")
    /\ p \in op[d].todo
    /\ disk[d][p] = op[d].snap[p]
    /\ objects' = objects \cup {op[d].snap[p]}
    /\ uploads' = [uploads EXCEPT ![d] = @ \cup {op[d].snap[p]}]
    /\ op' = [op EXCEPT ![d].todo = @ \ uploaded(d, p)]
    /\ UNCHANGED <<heads, disk, baseline, published, late, input, history>>

(* A push that died resumes: a blob this session uploaded, and the store    *)
(* still holds, is not read or sent again.                                  *)
UploadResumed(d, p) ==
    /\ running(d, {"push"}, "transfer")
    /\ p \in op[d].todo
    /\ op[d].snap[p] \in uploads[d] \cap objects
    /\ op' = [op EXCEPT ![d].todo = @ \ uploaded(d, p)]
    /\ UNCHANGED <<store, local, input, history>>

(* "Hash mismatch while uploading": the push publishes nothing.             *)
UploadMismatch(d, p) ==
    /\ running(d, {"push"}, "transfer")
    /\ p \in op[d].todo
    /\ disk[d][p] # op[d].snap[p]
    /\ op' = [op EXCEPT ![d] = Idle]
    /\ UNCHANGED <<store, local, input, history>>

(* The user chooses, on what a refresh showed, conflicts to keep this side  *)
(* of.  What is remembered of the choice is the paths (resolveConflicts).   *)
Choose(d) ==
    /\ idle(d)
    /\ chosen[d] = {}
    /\ keeps < MaxKeeps
    /\ keeps' = keeps + 1
    /\ \E n \in 0..Len(heads) :
        /\ refreshedTo(d, n)
        /\ \E paths \in SUBSET conflictsOf(d, n) \ {{}} :
            chosen' = [chosen EXCEPT ![d] = paths]
    /\ UNCHANGED <<store, disk, uploads, late, op, edits, faults, history>>

(* batchKeepLocal compares again, and keeps this side of the chosen paths   *)
(* that conflict now, whichever remote version they conflict with by then.  *)
StartKeep(d) ==
    /\ idle(d)
    /\ roomToPublish
    /\ \E n \in 0..Len(heads) :
        /\ Compare(d, n)
        /\ LET paths == chosen[d] \cap conflictsOf(d, n)
           IN  /\ paths # {}
               /\ op' = [op EXCEPT ![d] =
                           Begin("keep", n, disk[d], paths, {}, FilesAt(n))]
    /\ chosen' = [chosen EXCEPT ![d] = {}]
    /\ UNCHANGED <<store, disk, baseline, uploads, late, edits, keeps, faults, history>>

(* "No matching conflicts to resolve", or a read too old to trust.          *)
KeepNothing(d) ==
    /\ idle(d)
    /\ chosen[d] # {}
    /\ \/ /\ \E n \in 0..Len(heads) :
                Compare(d, n) /\ chosen[d] \cap conflictsOf(d, n) = {}
          /\ UNCHANGED baseline
       \/ compareRefused(d)
    /\ chosen' = [chosen EXCEPT ![d] = {}]
    /\ UNCHANGED <<store, disk, uploads, late, op, edits, keeps, faults, history>>

(* Mutant: the deletion is stored as if it were a file.                     *)
KeepReadMissing(d, p) ==
    /\ running(d, {"keep"}, "transfer")
    /\ p \in op[d].todo
    /\ objects' = objects \cup {disk[d][p]}
    /\ uploads' = uploads
    /\ op' = [op EXCEPT ![d].todo = @ \ {p}, ![d].settled = @ \cup {p},
                        ![d].next[p] = disk[d][p]]
    /\ UNCHANGED <<heads, disk, baseline, published, late, input, history>>

(* storeObject on what the disk holds now; a missing file is the deletion.  *)
KeepRead(d, p) ==
    /\ running(d, {"keep"}, "transfer")
    /\ p \in op[d].todo
    /\ LET c == disk[d][p]
           known == hashesOf(FilesAt(op[d].base)) \cup (uploads[d] \cap objects)
           put == {c} \cap (Hash \ known)
       IN  /\ objects' = objects \cup put
           /\ uploads' = [uploads EXCEPT ![d] = @ \cup put]
           /\ op' = [op EXCEPT ![d].todo = @ \ {p}, ![d].settled = @ \cup {p},
                               ![d].next[p] = c]
    /\ UNCHANGED <<heads, disk, baseline, published, late, input, history>>

-----------------------------------------------------------------------------
(* publishManifestWithGuard: precheck, put, verify.  No step of it is       *)
(* atomic with the next: the store has no compare-and-set.                  *)

(* Mutant: the manifest does not wait for the uploads.                      *)
readyAtOnce(d) == running(d, {"push", "keep"}, "transfer")

readyToPublish(d) == running(d, {"push", "keep"}, "transfer") /\ op[d].todo = {}

(* The code excludes nothing ({}): an environment where publishers seldom   *)
(* meet is assumed, where it is, by naming the steps they do not meet in.   *)
mayPrecheck(d) == \A e \in Device \ {d} : op[e].pc \notin Exclusive

(* Mutant: no precheck.                                                     *)
PrecheckSkipped(d) ==
    /\ readyToPublish(d)
    /\ mayPrecheck(d)
    /\ op' = [op EXCEPT ![d].pc = "put"]
    /\ UNCHANGED <<store, local, input, history>>

Precheck(d) ==
    /\ readyToPublish(d)
    /\ mayPrecheck(d)
    /\ Compare(d, op[d].base)
    /\ op' = [op EXCEPT ![d].pc = "put"]
    /\ UNCHANGED <<store, disk, baseline, uploads, late, input, history>>

(* ConcurrentPushError: the head is not the one this push builds on, and it *)
(* compares again. A read too old to trust ends it without.                 *)
Recomparing == [Idle EXCEPT !.pc = "recompare"]

PrecheckFails(d) ==
    /\ readyToPublish(d)
    /\ mayPrecheck(d)
    /\ \/ /\ \E n \in 0..Len(heads) : n # op[d].base /\ Compare(d, n)
          /\ op' = [op EXCEPT ![d] = Recomparing]
          /\ UNCHANGED baseline
       \/ compareRefused(d) /\ op' = [op EXCEPT ![d] = Idle]
    /\ UNCHANGED <<store, disk, uploads, late, input, history>>

(* The put is unconditional: it replaces whatever head the store holds.     *)
Put(d) ==
    /\ running(d, {"push", "keep"}, "put")
    /\ heads' = Append(heads, [parent |-> op[d].base, by |-> d, files |-> op[d].next])
    /\ op' = [op EXCEPT ![d].pc = "verify", ![d].mine = Len(heads) + 1]
    /\ UNCHANGED <<objects, local, input, history>>

(* Reading one of these back is taken for a stale read, not a lost push.    *)
ownIds(d) ==
    {ParentOf(op[d].mine), published[d], ParentOf(published[d])} \ {0}

Verify(d) ==
    /\ running(d, {"push", "keep"}, "verify")
    /\ \E read \in Reads : read = op[d].mine \/ read \in ownIds(d)
    /\ published' = [published EXCEPT ![d] = op[d].mine]
    /\ uploads' = [uploads EXCEPT ![d] = @ \ hashesOf(op[d].next)]
    /\ op' = [op EXCEPT ![d].pc = "persist"]
    /\ won' = won \cup {op[d].mine}
    /\ UNCHANGED <<store, disk, baseline, late, input, held, deleted>>

(* "Another device overwrote the manifest immediately after our push."      *)
VerifyFails(d) ==
    /\ running(d, {"push", "keep"}, "verify")
    /\ \E read \in Reads :
        /\ read # op[d].mine /\ read \notin ownIds(d)
        /\ published' = [published EXCEPT ![d] = publishedAfter(d, read)]
    /\ op' = [op EXCEPT ![d] = Recomparing]
    /\ UNCHANGED <<store, disk, baseline, uploads, late, input, history>>

(* Mutant: the baseline adopts the whole manifest.                          *)
PersistPushWhole(d) ==
    /\ running(d, {"push", "keep"}, "persist")
    /\ baseline' = [baseline EXCEPT ![d] = [id |-> op[d].mine, files |-> op[d].next]]
    /\ op' = [op EXCEPT ![d] = Idle]
    /\ UNCHANGED <<store, disk, published, uploads, late, input, history>>

(* The baseline advances for what the manifest changed, and is persisted.   *)
PersistPush(d) ==
    /\ running(d, {"push", "keep"}, "persist")
    /\ baseline' = [baseline EXCEPT ![d] =
                      [id |-> op[d].mine,
                       files |-> advanceFiles(@.files, op[d].next, op[d].settled)]]
    /\ op' = [op EXCEPT ![d] = Idle]
    /\ UNCHANGED <<store, disk, published, uploads, late, input, history>>

-----------------------------------------------------------------------------
(* Pull: downloads first, then deletions, each file on its own.             *)

StartPull(d) ==
    /\ idle(d)
    /\ \E n \in 1..Len(heads) :
        /\ Compare(d, n)
        /\ conflictsOf(d, n) = {}
        /\ \E paths \in SUBSET remoteOf(d, n) \ {{}} :
            op' = [op EXCEPT ![d] = Begin("pull", n, disk[d], paths, {}, NoFiles)]
    /\ UNCHANGED <<store, disk, baseline, uploads, late, input, history>>

incoming(d, p) == FilesAt(op[d].base)[p]
downloads(d) == {p \in op[d].todo : incoming(d, p) # NoFile}

(* Mutant: a file left alone counts as pulled.                              *)
PullLeaveSettled(d, p) ==
    /\ running(d, {"pull"}, "transfer")
    /\ p \in op[d].todo \cup op[d].fetched
    /\ ~unchangedSince(d, p)
    /\ op' = [op EXCEPT ![d].todo = @ \ {p}, ![d].fetched = @ \ {p},
                        ![d].settled = @ \cup {p}]
    /\ UNCHANGED <<store, local, input, history>>

(* A file edited since the scan is left alone.                              *)
PullLeave(d, p) ==
    /\ running(d, {"pull"}, "transfer")
    /\ p \in op[d].todo \cup op[d].fetched
    /\ ~unchangedSince(d, p)
    /\ op' = [op EXCEPT ![d].todo = @ \ {p}, ![d].fetched = @ \ {p}]
    /\ UNCHANGED <<store, local, input, history>>

PullFetch(d, p) ==
    /\ running(d, {"pull"}, "transfer")
    /\ p \in downloads(d)
    /\ unchangedSince(d, p)
    /\ incoming(d, p) \in objects
    /\ op' = [op EXCEPT ![d].todo = @ \ {p}, ![d].fetched = @ \cup {p}]
    /\ UNCHANGED <<store, local, input, history>>

(* Mutant: what was downloaded is written.                                  *)
PullWriteUnasked(d, p) ==
    /\ running(d, {"pull"}, "transfer")
    /\ p \in op[d].fetched
    /\ written(d, p, incoming(d, p))
    /\ op' = [op EXCEPT ![d].fetched = @ \ {p}, ![d].settled = @ \cup {p}]
    /\ UNCHANGED <<store, baseline, published, uploads, input, deleted, won>>

(* untouchedSince is asked again between the download and the write.        *)
PullWrite(d, p) ==
    /\ running(d, {"pull"}, "transfer")
    /\ p \in op[d].fetched
    /\ unchangedSince(d, p)
    /\ written(d, p, incoming(d, p))
    /\ op' = [op EXCEPT ![d].fetched = @ \ {p}, ![d].settled = @ \cup {p}]
    /\ UNCHANGED <<store, baseline, published, uploads, input, deleted, won>>

PullDelete(d, p) ==
    /\ running(d, {"pull"}, "transfer")
    /\ downloads(d) = {} /\ op[d].fetched = {}
    /\ p \in op[d].todo
    /\ unchangedSince(d, p)
    /\ written(d, p, NoFile)
    /\ op' = [op EXCEPT ![d].todo = @ \ {p}, ![d].settled = @ \cup {p}]
    /\ UNCHANGED <<store, baseline, published, uploads, input, deleted, won>>

(* batchAcceptRemote: the user takes the remote side of some conflicts.     *)
(* unchangedSince is asked once, before the downloads: for a path edited    *)
(* between scan and check this is the operation started without that path.  *)
StartAccept(d) ==
    /\ idle(d)
    /\ \E n \in 1..Len(heads) :
        /\ Compare(d, n)
        /\ \E paths \in SUBSET conflictsOf(d, n) \ {{}} :
            op' = [op EXCEPT ![d] = Begin("accept", n, disk[d], paths, {}, NoFiles)]
    /\ UNCHANGED <<store, disk, baseline, uploads, late, input, history>>

AcceptWrite(d, p) ==
    /\ running(d, {"accept"}, "transfer")
    /\ p \in op[d].todo
    /\ incoming(d, p) \in objects \cup {NoFile}
    /\ written(d, p, incoming(d, p))
    /\ op' = [op EXCEPT ![d].todo = @ \ {p}, ![d].settled = @ \cup {p}]
    /\ UNCHANGED <<store, baseline, published, uploads, input, deleted, won>>

(* Only what landed advances the baseline; its id is the manifest's.        *)
settle(d) ==
    /\ baseline' = [baseline EXCEPT ![d] =
                      [id |-> op[d].base,
                       files |-> advanceFiles(@.files, FilesAt(op[d].base), op[d].settled)]]
    /\ op' = [op EXCEPT ![d] = Idle]

FinishPull(d) ==
    /\ running(d, {"pull", "accept"}, "transfer")
    /\ op[d].todo = {} /\ op[d].fetched = {}
    /\ settle(d)
    /\ UNCHANGED <<store, disk, published, uploads, late, input, history>>

-----------------------------------------------------------------------------
(* Faults.                                                                   *)

(* A cancelled pull keeps the files that landed.                            *)
CancelPull(d) ==
    /\ faults < MaxFaults
    /\ running(d, {"pull"}, "transfer")
    /\ settle(d)
    /\ faults' = faults + 1
    /\ UNCHANGED <<store, disk, published, uploads, late, edits, keeps, chosen, history>>

(* A request fails, or a push is cancelled: the operation ends where it is. *)
(* runWithConcurrency rejects at once, so a transfer of a pull or an accept *)
(* that was running beside the failed one finishes on its own.              *)
inFlight(d) ==
    IF ~running(d, {"pull", "accept"}, "transfer") THEN {}
    ELSE IF op[d].kind = "accept" THEN op[d].todo
    ELSE {p \in op[d].fetched \cup (IF downloads(d) \cup op[d].fetched = {}
                                    THEN op[d].todo ELSE downloads(d)) :
            unchangedSince(d, p)}

lateWrite(d, p) ==
    [path |-> p, content |-> incoming(d, p),
     over |-> IF op[d].kind = "accept" THEN "any"
              ELSE IF op[d].snap[p] = NoFile THEN "nothing" ELSE "file"]

Fail(d) ==
    /\ faults < MaxFaults
    /\ ~idle(d)
    /\ \E paths \in SUBSET inFlight(d) :
        late' = [late EXCEPT ![d] = @ \cup {lateWrite(d, p) : p \in paths}]
    /\ op' = [op EXCEPT ![d] = Idle]
    /\ faults' = faults + 1
    /\ UNCHANGED <<store, disk, baseline, published, uploads, edits, keeps, chosen, history>>

(* Such a transfer lands, under whatever its device is doing by then.       *)
WriteLate(d, w) ==
    /\ w \in late[d]
    /\ w.content \in objects \cup {NoFile}
    /\ w.over = "nothing" => disk[d][w.path] = NoFile
    /\ disk' = [disk EXCEPT ![d][w.path] = w.content]
    /\ late' = [late EXCEPT ![d] = {v \in @ \ {w} : v.path # w.path \/ v.over # "file"}]
    /\ held' = [held EXCEPT ![d][w.path] = @ \cup {w.content}]
    /\ op' = touching(d, w.path)
    /\ UNCHANGED <<store, baseline, published, uploads, input, deleted, won>>

(* The app stops and starts: only the disk and the persisted state remain.  *)
Crash(d) ==
    /\ faults < MaxFaults
    /\ op' = [op EXCEPT ![d] = Idle]
    /\ published' = [published EXCEPT ![d] = 0]
    /\ uploads' = [uploads EXCEPT ![d] = {}]
    /\ late' = [late EXCEPT ![d] = {}]
    /\ chosen' = [chosen EXCEPT ![d] = {}]
    /\ faults' = faults + 1
    /\ UNCHANGED <<store, disk, baseline, edits, keeps, history>>

-----------------------------------------------------------------------------
Push(d) ==
    \/ StartPush(d)
    \/ \E p \in Path : Upload(d, p) \/ UploadResumed(d, p) \/ UploadMismatch(d, p)

Keep(d) ==
    \/ Choose(d) \/ StartKeep(d) \/ KeepNothing(d)
    \/ \E p \in Path : KeepRead(d, p)

Publish(d) ==
    \/ Precheck(d) \/ PrecheckFails(d)
    \/ Put(d)
    \/ Verify(d) \/ VerifyFails(d)
    \/ PersistPush(d)
    \/ Recompare(d)

Pull(d) ==
    \/ StartPull(d)
    \/ \E p \in Path : \/ PullLeave(d, p) \/ PullFetch(d, p)
                       \/ PullWrite(d, p) \/ PullDelete(d, p)
    \/ FinishPull(d)

Accept(d) == StartAccept(d) \/ \E p \in Path : AcceptWrite(d, p)

Fault(d) ==
    \/ CancelPull(d) \/ Fail(d) \/ Crash(d)
    \/ \E w \in late[d] : WriteLate(d, w)

Step(d) ==
    \/ \E p \in Path, c \in Content : Edit(d, p, c)
    \/ Refresh(d)
    \/ Push(d) \/ Keep(d) \/ Publish(d)
    \/ Pull(d) \/ Accept(d)
    \/ Fault(d)

Next == \E d \in Device : Step(d)

Spec == Init /\ [][Next]_vars

(* Auto-sync keeps starting what the comparison offers, users get round to  *)
(* their conflicts, an operation that can take a step does, and a running   *)
(* transfer ends.  Nothing obliges an edit or a fault.                      *)
Start(d) ==
    \/ StartPush(d) \/ StartPull(d) \/ StartAccept(d)
    \/ Choose(d) \/ StartKeep(d) \/ KeepNothing(d)

Continue(d) ==
    /\ ~idle(d)
    /\ Push(d) \/ Keep(d) \/ Publish(d) \/ Pull(d) \/ Accept(d)

Fairness ==
    \A d \in Device : /\ WF_vars(Start(d))
                      /\ WF_vars(Continue(d))
                      /\ WF_vars(\E w \in late[d] : WriteLate(d, w))

FairSpec == Spec /\ Fairness

-----------------------------------------------------------------------------
(* Properties.                                                              *)

(* Every manifest ever published can be pulled: each blob it references is  *)
(* in the store, whatever failed, crashed or was edited during the push     *)
(* that published it (engine.ts pushPaths, storeObject).                    *)
HeadComplete == \A i \in 1..Len(heads) : hashesOf(heads[i].files) \subseteq objects

wasPublished(p, c) ==
    \E i \in 1..Len(heads) : sameContent(heads[i].files[p], c)

(* Sync never destroys the only copy of an edit: a step that is neither the *)
(* user's nor an accept changes a file only if that version was published,  *)
(* however the edit, the download and a failed pull's leftovers interleave  *)
(* (engine.ts leftAlone, content.ts untouchedSince).                        *)
SparesUnpublished ==
    \A d \in Device, p \in Path :
        (/\ disk'[d][p] # disk[d][p]
         /\ edits' = edits
         /\ op[d].kind # "accept"
         /\ \A w \in late[d] : w.path = p => w.over # "any")
        => disk[d][p] = NoFile \/ wasPublished(p, disk[d][p])
PullSparesUnpublished == [][SparesUnpublished]_vars

(* A put replaces a file of the manifest it builds on only if its device    *)
(* has held that version, or its user chose to keep this side of the path:  *)
(* the baseline never claims an agreement on a version that did not land    *)
(* (baseline.ts 51-53).  Of a kept path it says no more: the version        *)
(* replaced need not be the one the user chose on, as the keep compares     *)
(* again and expects no remote hash (resolve.ts 89-119).                    *)
ReplacesHeldOrKept ==
    heads' # heads =>
        LET m == heads'[Len(heads')]
            before == FilesAt(m.parent)
        IN  \A p \in Path : m.files[p] # before[p]
                => \/ before[p] = NoFile
                   \/ \E c \in held[m.by][p] : sameContent(c, before[p])
                   \/ op[m.by].kind = "keep" /\ p \in op[m.by].settled
ReplacesOnlyHeldOrKept == [][ReplacesHeldOrKept]_vars

(* No operation removes a file from a vault unless some user deleted that   *)
(* file somewhere: an absence is never mistaken for a deletion.             *)
RemovesDeleted ==
    \A d \in Device, p \in Path :
        (edits' = edits /\ disk[d][p] # NoFile /\ disk'[d][p] = NoFile)
        => p \in deleted
RemovesOnlyDeleted == [][RemovesDeleted]_vars

(* Each manifest builds on the one it replaces: a stale read is recognised, *)
(* never published over (manifest.ts reconcileRemoteAgainstBaseline).       *)
LinearHistory == \A i \in 1..Len(heads) : ParentOf(i) = i - 1

(* Without overlapping publishers and stale reads, sync implements the      *)
(* shared vault: the stored head is its tree, its publisher the committer.  *)
Vault ==
    INSTANCE SharedVault WITH
        files  <- FilesAt(Len(heads)),
        by     <- IF heads = << >> THEN NoFile ELSE heads[Len(heads)].by,
        known  <- held,
        kept   <- [d \in Device |-> IF op[d].kind = "keep" THEN op[d].settled ELSE {}],
        Nobody <- NoFile
ImplementsSharedVault == Vault!Spec

Agree == \A d \in Device, p \in Path : sameContent(disk[d][p], FilesAt(Len(heads))[p])

(* Once users stop editing and faults stop, every device ends up with the   *)
(* files of the head.                                                       *)
Converges == <>[]Agree

(* manifest.ts 122-125: the verify after the put guards the race of two     *)
(* writers that passed the precheck.  So of two manifests built on one      *)
(* head, at most one publisher is told its push succeeded.                  *)
WinnersAreSerial ==
    \A i, j \in won : i # j => ParentOf(i) # ParentOf(j)

(* resolve.ts 44-47: accepting is refused for files changed since the       *)
(* compare, as it "would overwrite that change".                            *)
AcceptSparesLaterEdits ==
    [][\A d \in Device, p \in Path :
        (/\ disk'[d][p] # disk[d][p]
         /\ edits' = edits
         /\ op[d].kind = "accept" /\ op'[d].kind = "accept")
        => p \notin op[d].touched \/ disk[d][p] = op[d].snap[p]]_vars
=============================================================================
