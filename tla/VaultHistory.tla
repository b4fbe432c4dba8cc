---------------------------- MODULE VaultHistory ----------------------------
(* The history beside the head (sync/history, maintenance.ts): a log of      *)
(* snapshots with what each changed, pins that keep a whole manifest, and    *)
(* the collectors that sweep blobs nothing retained names. The log is one    *)
(* object rewritten without a guard by every device that publishes, pins or  *)
(* collects. Publishing itself is VaultSync's: here it succeeds while the    *)
(* head is still the manifest the push was built on.                         *)
EXTENDS Naturals, Sequences, SequencesExt, FiniteSets

CONSTANTS
    Collector,     \* the devices
    Note, Version, NoVersion,   \* paths, contents, absence of a file
    Written,       \* for each push, the trees its device may have by then
    Retained,      \* maxSnapshots
    Excess,        \* gcExcessBuffer
    MaxPushes, MaxPins, MaxCleans, MaxCrashes,
    Races          \* among {"upload", "log"}: the overlaps of two devices allowed

VARIABLES
    published,     \* the manifests put as head, in order
    blobs,         \* objects in the store
    young,         \* the objects and pins too new to be called orphans
    log,           \* the stored log, newest first
    pins,          \* snapshots with a stored pin manifest
    op,            \* per device, its running operation
    pinnings, cleans, crashes
store == <<published, blobs, young, log, pins>>
hvars == <<store, op, pinnings, cleans, crashes>>

Snapshot == 1..MaxPushes
Entry == [id : Snapshot, pinned : BOOLEAN]

head == Len(published)
NoFiles == [p \in Note |-> NoVersion]
filesOf(id) == IF id = 0 THEN NoFiles ELSE published[id]
hashes(files) == {files[p] : p \in Note} \ {NoVersion}

-----------------------------------------------------------------------------
(* Change records (changes.ts) and the walks over the log (replay.ts,        *)
(* query.ts). A snapshot's parent is the one published before it.            *)
diffManifests(parent, next) ==
    {[path |-> p, from |-> parent[p], to |-> next[p]] :
        p \in {q \in Note : parent[q] # next[q]}}
changes(id) == diffManifests(filesOf(id - 1), filesOf(id))
(* Mutant: what a change replaced is not counted among what its record names.*)
changeHashesAfter(id) == {c.to : c \in changes(id)} \ {NoVersion}

changeHashes(id) == (UNION {{c.from, c.to} : c \in changes(id)}) \ {NoVersion}

undoChanges(files, record) ==
    [p \in Note |-> IF \E c \in record : c.path = p
                    THEN (CHOOSE c \in record : c.path = p).from ELSE files[p]]

(* The run of snapshots each the parent of the one before.                   *)
contiguousLength(l) ==
    CHOOSE n \in 0..Len(l) :
        /\ \A i \in 1..(n - 1) : l[i].id - 1 = l[i + 1].id
        /\ n = Len(l) \/ (n > 0 /\ l[n].id - 1 # l[n + 1].id)

walkableChain(l) ==
    IF l = <<>> \/ Head(l).id # head THEN <<>> ELSE SubSeq(l, 1, contiguousLength(l))

(* The tree after undoing the first n snapshots of a chain.                  *)
undone(chain, n) ==
    LET files[i \in 0..n] == IF i = 0 THEN filesOf(head)
                             ELSE undoChanges(files[i - 1], changes(chain[i].id))
    IN  files[n]

(* The manifest a snapshot is rebuilt to: what `l` lets the head be undone   *)
(* to, or None when it does not reach the snapshot.                          *)
reaches(l, id) == \E i \in DOMAIN walkableChain(l) : l[i].id = id
replayTo(l, id) ==
    undone(walkableChain(l), (CHOOSE i \in DOMAIN walkableChain(l) : l[i].id = id) - 1)

(* One path's versions, and the files gone from the head that are offered    *)
(* for restore: from the chain (the head alone when the log lags), then from *)
(* the pins.                                                                 *)
getFileHistory(l, p) ==
    LET walk  == walkableChain(l)
        chain == IF walk = <<>> THEN <<[id |-> head, pinned |-> FALSE]>> ELSE walk
        at(i) == undone(chain, i - 1)[p]
        seen  == {chain[i].id : i \in DOMAIN chain}
    IN  {v \in {[id |-> chain[i].id, hash |-> at(i)] :
                    i \in {j \in DOMAIN chain : j = 1 \/ at(j) # at(j - 1)}}
               \cup {[id |-> e.id, hash |-> filesOf(e.id)[p]] :
                        e \in {x \in ToSet(l) : x.pinned /\ x.id \in pins \ seen}} :
            v.hash # NoVersion}

listDeletedFiles(l) ==
    LET chain == walkableChain(l)
        gone  == {c \in UNION {changes(chain[i].id) : i \in DOMAIN chain} : c.to = NoVersion}
        kept  == {e.id : e \in {x \in ToSet(l) : x.pinned /\ x.id \in pins}}
    IN  {f \in {[path |-> c.path, hash |-> c.from] : c \in gone}
               \cup UNION {{[path |-> p, hash |-> filesOf(id)[p]] : p \in Note} : id \in kept} :
            f.hash # NoVersion /\ filesOf(head)[f.path] = NoVersion}

-----------------------------------------------------------------------------
(* Rewriting the log (store.ts, gc.ts): what each operation makes of a copy, *)
(* and what it looks for when it reads it back.                              *)
(* The entries of a log that satisfy a filter, in their order (a recursive   *)
(* function, which unlike SelectSeq can be reasoned about).                  *)
only(l, entries) ==
    LET kept[i \in 0..Len(l)] ==
            IF i = 0 THEN <<>>
            ELSE IF l[i] \in entries THEN Append(kept[i - 1], l[i]) ELSE kept[i - 1]
    IN  kept[Len(l)]

(* The newest snapshot goes before its parent, or after its child.           *)
prependSnapshot(l, id) ==
    LET others == only(l, {e \in ToSet(l) : e.id # id})
        at(n)  == {i \in DOMAIN others : others[i].id = n}
        slot   == IF at(id - 1) # {} THEN CHOOSE i \in at(id - 1) : TRUE
                  ELSE IF at(id + 1) # {} THEN (CHOOSE i \in at(id + 1) : TRUE) + 1
                  ELSE 1
    IN  InsertAt(others, slot, [id |-> id, pinned |-> FALSE])

pruneLog(l, evicted) == only(l, {e \in ToSet(l) : e.id \notin evicted \/ e.pinned})

repin(l, id, pinned) ==
    [i \in DOMAIN l |-> IF l[i].id = id THEN [l[i] EXCEPT !.pinned = pinned] ELSE l[i]]

mutate(o, l) ==
    CASE o.change = "record" -> prependSnapshot(l, o.id)
      [] o.change = "prune"  -> pruneLog(l, o.evicted)
      [] o.change = "pin"    -> repin(l, o.id, TRUE)
      [] o.change = "unpin"  -> repin(l, o.id, FALSE)

survived(o, l) ==
    CASE o.change = "record" -> \E e \in ToSet(l) : e.id = o.id
      [] o.change = "prune"  -> \A e \in ToSet(l) : e.id \notin o.evicted \/ e.pinned
      [] o.change = "pin"    -> [id |-> o.id, pinned |-> TRUE] \in ToSet(l)
      [] o.change = "unpin"  -> [id |-> o.id, pinned |-> FALSE] \in ToSet(l)

-----------------------------------------------------------------------------
(* Operations. `phase` is the next await; `copy` the log last read; `live`   *)
(* and `sweep` the blobs a collector keeps and deletes.                      *)
Idle == [phase |-> "idle", change |-> "none", id |-> 0, files |-> NoFiles, copy |-> <<>>,
         base |-> 0, evicted |-> {}, live |-> {}, sweep |-> {}, drop |-> {}, wrote |-> FALSE]

busy(d) == op[d].phase # "idle"
go(d, o) == op' = [op EXCEPT ![d] = o]

pinned(l) == {e.id : e \in {x \in ToSet(l) : x.pinned}}
plain(l)  == only(l, {e \in ToSet(l) : ~e.pinned})

(* The code orders nothing between devices. Without "upload" no push is      *)
(* between its uploads and its manifest once a collector elsewhere has read  *)
(* the head for the last time. Without "log" no two devices rewrite the log  *)
(* at once, and none collects before another's record of its push is in.     *)
uploading(d)  == op[d].phase = "publish"
recording(d)  == op[d].change = "record"
deciding(d)   == op[d].phase \in {"check", "sweep", "clean"}
rewriting(d)  == op[d].phase \in {"write", "verify", "rewrite", "reread"}
mayUpload(d)  == "upload" \in Races \/ \A x \in Collector \ {d} : ~deciding(x)
mayDecide(d)  == "upload" \in Races \/ \A x \in Collector \ {d} : ~uploading(x)
mayCollect(d) == "log" \in Races \/ \A x \in Collector \ {d} : ~recording(x)
mayRewrite(d) ==
    "log" \in Races \/ \A x \in Collector \ {d} :
        /\ ~rewriting(x)
        /\ recording(d) => op[x].change # "prune" /\ op[x].phase # "retain"

HInit ==
    /\ published = <<>> /\ blobs = {} /\ young = {} /\ log = <<>> /\ pins = {}
    /\ op = [d \in Collector |-> Idle]
    /\ pinnings = 0 /\ cleans = 0 /\ crashes = 0

(* A push compares, then uploads whatever the head does not name.            *)
Upload(d) ==
    /\ ~busy(d) /\ mayUpload(d) /\ head < MaxPushes
    /\ \E files \in Written[head + 1] \ {filesOf(head)} :
          /\ go(d, [Idle EXCEPT !.phase = "publish", !.files = files, !.base = head])
          /\ blobs' = blobs \cup (hashes(files) \ hashes(filesOf(head)))
          /\ young' = young \cup (hashes(files) \ hashes(filesOf(head)))
    /\ UNCHANGED <<published, log, pins, pinnings, cleans, crashes>>

Publish(d) ==
    LET o == op[d]
        wins == o.base = head /\ head < MaxPushes
    IN  /\ o.phase = "publish"
        /\ published' = IF wins THEN Append(published, o.files) ELSE published
        /\ go(d, IF wins THEN [Idle EXCEPT !.phase = "read", !.change = "record", !.id = head + 1]
                 ELSE Idle)
        /\ UNCHANGED <<blobs, young, log, pins, pinnings, cleans, crashes>>

ReadLog(d) ==
    /\ op[d].phase = "read" /\ mayRewrite(d)
    /\ go(d, [op[d] EXCEPT !.phase = "write", !.copy = log])
    /\ UNCHANGED <<store, pinnings, cleans, crashes>>

WriteLog(d) ==
    /\ op[d].phase \in {"write", "rewrite"}
    /\ log' = mutate(op[d], op[d].copy)
    /\ go(d, [op[d] EXCEPT !.phase = IF @ = "write" THEN "verify" ELSE "reread"])
    /\ UNCHANGED <<published, blobs, young, pins, pinnings, cleans, crashes>>

(* What follows once the log is as stored: a push that finds too many        *)
(* snapshots collects, a collector looks at the head again, an unpinned      *)
(* manifest goes.                                                            *)
shouldRunGc(l) == Len(plain(l)) > Retained + Excess
then(d, l) ==
    LET o == [op[d] EXCEPT !.copy = l]
    IN  CASE o.change = "record" /\ shouldRunGc(l) -> [o EXCEPT !.phase = "retain"]
          [] o.change = "prune" -> [o EXCEPT !.phase = "late"]
          [] o.change = "unpin" -> [o EXCEPT !.phase = "drop"]
          [] OTHER -> Idle

ReadBack(d) ==
    /\ op[d].phase \in {"verify", "reread"}
    /\ go(d, IF op[d].phase = "reread" \/ survived(op[d], log) THEN then(d, log)
             ELSE [op[d] EXCEPT !.phase = "rewrite", !.copy = log])
    /\ UNCHANGED <<store, pinnings, cleans, crashes>>

(* The collector: what to evict and what every retained snapshot, every pin  *)
(* and the head need; a pin whose manifest is missing forbids the sweep.     *)
Retain(d) ==
    LET l == op[d].copy
        evicted == {plain(l)[i].id : i \in (Retained + 1)..Len(plain(l))}
        kept == {e.id : e \in ToSet(l)} \ evicted
        live == hashes(filesOf(op[d].id)) \cup (UNION {changeHashes(i) : i \in kept})
                   \cup (UNION {hashes(filesOf(i)) : i \in pinned(l) \cap pins})
        gone == UNION {changeHashes(i) : i \in evicted}
    IN  /\ op[d].phase = "retain" /\ mayCollect(d)
        /\ go(d, [op[d] EXCEPT !.phase = "read", !.change = "prune", !.evicted = evicted,
                  !.live = live, !.sweep = IF pinned(l) \subseteq pins THEN gone ELSE {}])
        /\ UNCHANGED <<store, pinnings, cleans, crashes>>

(* Mutant: a head of another device is not looked for.                       *)
headUnasked(o) == TRUE

headUnchanged(o) == head = o.id

(* The head is read again late, and another device's pin among the evicted   *)
(* withholds the sweep.                                                      *)
LateHead(d) ==
    /\ op[d].phase = "late" /\ mayDecide(d)
    /\ go(d, [op[d] EXCEPT !.phase = "check",
                           !.sweep = IF headUnchanged(op[d]) THEN @ ELSE {}])
    /\ UNCHANGED <<store, pinnings, cleans, crashes>>

rescued(o) == o.evicted \cap (pins \cup pinned(o.copy))

PinnedAmong(d) ==
    LET o == op[d]
        orphans == IF rescued(o) = {} THEN o.sweep \ o.live ELSE {}
    IN  /\ o.phase = "check"
        /\ go(d, IF orphans = {} THEN Idle ELSE [o EXCEPT !.phase = "sweep", !.sweep = orphans])
        /\ UNCHANGED <<store, pinnings, cleans, crashes>>

(* Deletes are one round trip each, for a collector and a deep clean.        *)
Sweep(d) ==
    LET left(o) == IF o.sweep = {} /\ o.drop = {} THEN Idle ELSE o
    IN  /\ op[d].phase \in {"sweep", "clean"}
        /\ \/ \E h \in op[d].sweep :
                 /\ blobs' = blobs \ {h} /\ UNCHANGED pins
                 /\ go(d, left([op[d] EXCEPT !.sweep = @ \ {h}]))
           \/ \E id \in op[d].drop :
                 /\ pins' = pins \ {id} /\ UNCHANGED blobs
                 /\ go(d, left([op[d] EXCEPT !.drop = @ \ {id}]))
        /\ UNCHANGED <<published, young, log, pinnings, cleans, crashes>>

-----------------------------------------------------------------------------
(* Pins (store.ts setSnapshotPinned).                                        *)

StartPin(d) ==
    /\ ~busy(d) /\ pinnings < MaxPins /\ pinnings' = pinnings + 1
    /\ \E id \in {e.id : e \in ToSet(log)} :
          go(d, [Idle EXCEPT !.change = "pin", !.id = id,
                             !.phase = IF id \in pins THEN "read" ELSE "rebuild"])
    /\ UNCHANGED <<store, cleans, crashes>>

(* Rebuilt from the log and the head read together; refused when the chain   *)
(* no longer reaches it.                                                     *)
Rebuild(d) ==
    /\ op[d].phase = "rebuild"
    /\ go(d, IF reaches(log, op[d].id)
             THEN [op[d] EXCEPT !.phase = "put", !.files = replayTo(log, op[d].id)] ELSE Idle)
    /\ UNCHANGED <<store, pinnings, cleans, crashes>>

(* The manifest before the flag.                                             *)
PutPin(d) ==
    /\ op[d].phase = "put"
    /\ pins' = pins \cup {op[d].id}
    /\ young' = young \cup {op[d].id}
    /\ go(d, [op[d] EXCEPT !.phase = "read", !.wrote = TRUE])
    /\ UNCHANGED <<published, blobs, log, pinnings, cleans, crashes>>

StartUnpin(d) ==
    /\ ~busy(d) /\ pinnings < MaxPins /\ pinnings' = pinnings + 1
    /\ \E id \in pinned(log) : go(d, [Idle EXCEPT !.change = "unpin", !.id = id, !.phase = "read"])
    /\ UNCHANGED <<store, cleans, crashes>>

DropPin(d) ==
    /\ op[d].phase = "drop"
    /\ pins' = pins \ {op[d].id}
    /\ go(d, Idle)
    /\ UNCHANGED <<published, blobs, young, log, pinnings, cleans, crashes>>

-----------------------------------------------------------------------------
(* The deep clean (maintenance.ts): everything old that nothing reaches.     *)

reachableHashes ==
    hashes(filesOf(head)) \cup (UNION {changeHashes(e.id) : e \in ToSet(log)})
        \cup (UNION {hashes(filesOf(i)) : i \in pinned(log) \cap pins})

StartClean(d) ==
    /\ ~busy(d) /\ mayCollect(d) /\ cleans < MaxCleans /\ cleans' = cleans + 1
    /\ head # 0 /\ pinned(log) \subseteq pins
    /\ go(d, [Idle EXCEPT !.phase = "list", !.base = head, !.live = reachableHashes,
                          !.evicted = pinned(log)])
    /\ UNCHANGED <<store, pinnings, crashes>>

ListSettled(d) ==
    /\ op[d].phase = "list"
    /\ go(d, [op[d] EXCEPT !.phase = "confirm", !.sweep = (blobs \ young) \ op[d].live,
                           !.drop = (pins \ young) \ op[d].evicted])
    /\ UNCHANGED <<store, pinnings, cleans, crashes>>

(* A head or a pin that moved meanwhile calls the whole clean off.           *)
Confirm(d) ==
    LET same == head = op[d].base /\ pinned(log) = op[d].evicted
        none == op[d].sweep = {} /\ op[d].drop = {}
    IN  /\ op[d].phase = "confirm" /\ mayDecide(d)
        /\ go(d, IF same /\ ~none THEN [op[d] EXCEPT !.phase = "clean"] ELSE Idle)
        /\ UNCHANGED <<store, pinnings, cleans, crashes>>

-----------------------------------------------------------------------------
(* The app dies in the middle of an operation.                               *)
HCrash(d) ==
    /\ busy(d) /\ crashes < MaxCrashes /\ crashes' = crashes + 1
    /\ go(d, Idle)
    /\ UNCHANGED <<store, pinnings, cleans>>

(* An update of the log fails: a pin takes its manifest back, a push keeps   *)
(* its manifest and leaves the history for later.                            *)
FailUpdate(d) ==
    /\ op[d].phase \in {"read", "write", "verify", "rewrite", "reread"}
    /\ crashes < MaxCrashes /\ crashes' = crashes + 1
    /\ pins' = IF op[d].wrote THEN pins \ {op[d].id} ELSE pins
    /\ go(d, Idle)
    /\ UNCHANGED <<published, blobs, young, log, pinnings, cleans>>

(* An object ages past ORPHAN_MIN_AGE_MS, which no operation outlasts.       *)
Settle ==
    /\ young # {} /\ \A d \in Collector : ~busy(d)
    /\ young' = {}
    /\ UNCHANGED <<published, blobs, log, pins, op, pinnings, cleans, crashes>>

HNext ==
    \/ \E d \in Collector :
          \/ Upload(d) \/ Publish(d) \/ ReadLog(d) \/ WriteLog(d) \/ ReadBack(d)
          \/ Retain(d) \/ LateHead(d) \/ PinnedAmong(d) \/ Sweep(d)
          \/ StartPin(d) \/ Rebuild(d) \/ PutPin(d) \/ StartUnpin(d) \/ DropPin(d)
          \/ StartClean(d) \/ ListSettled(d) \/ Confirm(d)
          \/ HCrash(d) \/ FailUpdate(d)
    \/ Settle

-----------------------------------------------------------------------------
(* Properties.                                                               *)

(* Every file of the head can be downloaded (gc.ts, maintenance.ts).         *)
HeadIntact == hashes(filesOf(head)) \subseteq blobs

(* Every version and every deleted file that the walk over the log offers    *)
(* can be downloaded, whatever was pruned, swept and cleaned.                *)
ChainIntact ==
    LET chain == walkableChain(log)
    IN  \A i \in DOMAIN chain : hashes(undone(chain, i)) \cup hashes(undone(chain, i - 1)) \subseteq blobs

(* A pinned snapshot can be restored whole.                                  *)
PinsKept == \A id \in pinned(log) \cap pins : hashes(filesOf(id)) \subseteq blobs

(* So can every version, every deleted file and every pin that the history   *)
(* offers, whatever was pruned, pinned and swept.                            *)
VersionsIntact ==
    /\ \A p \in Note : \A v \in getFileHistory(log, p) : v.hash \in blobs
    /\ \A f \in listDeletedFiles(log) : f.hash \in blobs
    /\ PinsKept

(* Whatever order lost and repeated updates leave the log in, the walks over *)
(* it attribute to a snapshot only what it held.                             *)
HistoryIsTrue ==
    /\ \A id \in Snapshot : reaches(log, id) => replayTo(log, id) = filesOf(id)
    /\ \A p \in Note : \A v \in getFileHistory(log, p) : v.hash = filesOf(v.id)[p]
=============================================================================
