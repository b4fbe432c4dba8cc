---------------------------- MODULE SpaceRecords ----------------------------
(* The records of the shared folders as one person's devices keep them       *)
(* (spaces/records.ts, record.ts, remote.ts, partition.ts): each device's    *)
(* copy, traded with the vault's storage one object a record, without any    *)
(* compare-and-set; a folder moved on one device and followed on the others  *)
(* (plugin/share-moves.ts); a share closed, joined again, left behind when   *)
(* the device moves to another vault's storage.                              *)
EXTENDS Naturals, FiniteSets, FiniteSetsExt

CONSTANTS
    Device,         \* numbers: their order breaks a tie between revisions
    Id,             \* numbers: the smaller id holds a folder two shares want
    Root,           \* the vault folders a share can be mounted at
    Vault,          \* the vault storages
    None,
    CloseStep,      \* the revisions a close skips
    MaxEdits, MaxSwitches, MaxDeaths

VARIABLES
    remote,         \* per vault and id, the record's object, or None
    spaces,         \* per device and id, its copy of the record, or None
    localRoots,     \* per device and id, where a folder not moved yet still is
    spacesVault,    \* per device, the vault its records were traded with, or None
    storage,        \* per device, the vault storage its settings name
    place,          \* per device and id, where the share's folder is, or None
    job,            \* per device, its trade with the storage
    used
svars == <<remote, spaces, localRoots, spacesVault, storage, place, job, used>>

Resting == [at |-> "rest"]
noRecords == [id \in Id |-> None]

(* One device knows the vault already, the others join it.                   *)
SInit ==
    /\ remote = [v \in Vault |-> noRecords]
    /\ spaces = [d \in Device |-> noRecords]
    /\ localRoots = [d \in Device |-> noRecords]
    /\ \E v \in Vault :
          /\ storage = [d \in Device |-> v]
          /\ spacesVault = [d \in Device |-> IF d = Min(Device) THEN v ELSE None]
    /\ place = [d \in Device |-> noRecords]
    /\ job = [d \in Device |-> Resting]
    /\ used = [edits |-> 0, switches |-> 0, deaths |-> 0]

spend(what, max) == used[what] < max /\ used' = [used EXCEPT ![what] = @ + 1]

-----------------------------------------------------------------------------
(* Records: the newest revision of each id wins on every device.             *)

isNewer(a, b) ==
    CASE a = None -> FALSE
      [] a # None /\ b = None -> TRUE
      [] OTHER -> a.rev > b.rev \/ (a.rev = b.rev /\ a.author > b.author)
newest(a, b) == IF isNewer(b, a) THEN b ELSE a
mergeRecords(a, b) == [id \in Id |-> newest(a[id], b[id])]

isOpen(r) == r # None /\ ~r.closed
rootHere(d, id) == IF localRoots[d][id] # None THEN localRoots[d][id] ELSE spaces[d][id].root
(* Every open record whose root no smaller id holds (spacesOf).              *)
mounted(d) ==
    {id \in Id : /\ isOpen(spaces[d][id])
                 /\ \A e \in Id : (e < id /\ isOpen(spaces[d][e])) => rootHere(d, e) # rootHere(d, id)}
(* mountError: no other share is mounted at `root`.                          *)
free(d, id, root) == \A e \in mounted(d) \ {id} : rootHere(d, e) # root

add(d, id, record) == spaces' = [spaces EXCEPT ![d][id] = newest(@, record)]
dropLocalRoot(d, id) == localRoots' = [localRoots EXCEPT ![d][id] = None]
edited(d, id) == [spaces[d][id] EXCEPT !.rev = @ + 1, !.author = d]

-----------------------------------------------------------------------------
(* What the person does on a device.                                         *)

Share(d, id, root) ==
    /\ spend("edits", MaxEdits)
    /\ spaces[d][id] = None /\ free(d, id, root)
    /\ \A e \in Device : spaces[e][id] = None      \* an id is made once
    /\ \A v \in Vault : remote[v][id] = None
    /\ add(d, id, [root |-> root, rev |-> 1, author |-> d, closed |-> FALSE,
                   kind |-> "owner", home |-> spacesVault[d]])
    /\ place' = [place EXCEPT ![d][id] = root]
    /\ UNCHANGED <<remote, localRoots, spacesVault, storage, job>>

(* An invite accepted, over a record of a share left before (acceptInvite).  *)
Join(d, id, root) ==
    LET previous == spaces[d][id]
    IN  /\ spend("edits", MaxEdits)
        /\ ~isOpen(previous) /\ free(d, id, root)
        /\ add(d, id, [root |-> root, rev |-> (IF previous = None THEN 0 ELSE previous.rev) + 1,
                       author |-> d, closed |-> FALSE, kind |-> "participant",
                       home |-> spacesVault[d]])
        /\ UNCHANGED <<remote, localRoots, spacesVault, storage, place, job>>

Close(d, id) ==
    /\ spend("edits", MaxEdits) /\ isOpen(spaces[d][id])
    /\ dropLocalRoot(d, id)
    /\ add(d, id, [spaces[d][id] EXCEPT !.rev = @ + CloseStep, !.author = d, !.closed = TRUE])
    /\ place' = [place EXCEPT ![d][id] = None]
    /\ UNCHANGED <<remote, spacesVault, storage, job>>

(* The folder renamed here (onFolderRenamed, moveRoot).                      *)
MoveRoot(d, id, root) ==
    /\ spend("edits", MaxEdits)
    /\ isOpen(spaces[d][id]) /\ place[d][id] # None /\ place[d][id] # root /\ free(d, id, root)
    /\ place' = [place EXCEPT ![d][id] = root]
    /\ dropLocalRoot(d, id)
    /\ IF spaces[d][id].root = root THEN UNCHANGED spaces
       ELSE add(d, id, [edited(d, id) EXCEPT !.root = root])
    /\ UNCHANGED <<remote, spacesVault, storage, job>>

(* Any other edit: paused everywhere, a new link, a new relay.               *)
Edit(d, id) ==
    /\ spend("edits", MaxEdits) /\ isOpen(spaces[d][id])
    /\ add(d, id, edited(d, id))
    /\ UNCHANGED <<remote, localRoots, spacesVault, storage, place, job>>

(* The share's first pull makes its folder.                                  *)
Pull(d, id) ==
    /\ job[d] = Resting /\ id \in mounted(d) /\ place[d][id] = None
    /\ place' = [place EXCEPT ![d][id] = rootHere(d, id)]
    /\ UNCHANGED <<remote, spaces, localRoots, spacesVault, storage, job, used>>

SwitchStorage(d, v) ==
    /\ spend("switches", MaxSwitches) /\ storage[d] # v
    /\ storage' = [storage EXCEPT ![d] = v]
    /\ UNCHANGED <<remote, spaces, localRoots, spacesVault, place, job>>

-----------------------------------------------------------------------------
(* One trade (SpaceRecords.sync, syncRecords): read all, put what is newer,  *)
(* merge with what was added meanwhile.                                      *)

(* Mutant: another vault's records are sent as well.                         *)
sentAlways(d) == spaces[d]

sent(d) == IF spacesVault[d] \notin {None, storage[d]} THEN noRecords ELSE spaces[d]

(* Unbound: the vault's own share stays its owner's; a join outranks a close.*)
mineOf(d, theirs) ==
    [id \in Id |->
        LET r == sent(d)[id]
            known == theirs[id]
        IN  IF spacesVault[d] # None \/ known = None \/ r = None THEN r
            ELSE IF known.kind = "owner" /\ r.kind = "participant" THEN known
            ELSE IF known.closed /\ ~r.closed THEN [r EXCEPT !.rev = known.rev + 1]
            ELSE r]

(* Shares joined unbound enter a vault at a root none of its shares holds    *)
(* (admitJoined), or the whole refresh stops.                                *)
admitted(d, theirs) ==
    spacesVault[d] = None =>
        \A id \in Id : isOpen(spaces[d][id]) =>
            \A e \in Id \ {id} : isOpen(theirs[e]) => theirs[e].root # rootHere(d, id)

ReadRecords(d) ==
    LET theirs == remote[storage[d]]
    IN  /\ job[d] = Resting /\ admitted(d, theirs)
        /\ job' = [job EXCEPT ![d] =
              [at |-> "put", vault |-> storage[d], sent |-> spaces[d], theirs |-> theirs,
               mine |-> mineOf(d, theirs)]]
        /\ UNCHANGED <<remote, spaces, localRoots, spacesVault, storage, place, used>>

(* Mutant: only a record the storage lacks is published.                     *)
unpublished(j, id) == j.mine[id] # None /\ j.theirs[id] = None

outdated(j, id) == isNewer(j.mine[id], j.theirs[id])

PutRecord(d, id) ==
    /\ job[d].at = "put" /\ outdated(job[d], id)
    /\ remote' = [remote EXCEPT ![job[d].vault][id] = job[d].mine[id]]
    /\ job' = [job EXCEPT ![d].theirs[id] = job[d].mine[id]]
    /\ UNCHANGED <<spaces, localRoots, spacesVault, storage, place, used>>

(* Mutant: a root moved elsewhere is taken at once.                          *)
pendingNothing(d, merged) == noRecords

(* A folder moved elsewhere stays where it is here until followed.           *)
pendingRoots(d, merged) ==
    [id \in Id |->
        IF merged[id] = None THEN None
        ELSE IF merged[id].closed THEN None
        ELSE IF spaces[d][id] = None THEN localRoots[d][id]
        ELSE IF rootHere(d, id) = merged[id].root THEN None
        ELSE IF isOpen(spaces[d][id]) THEN rootHere(d, id) ELSE localRoots[d][id]]

(* Mutant: what was added during the trade is overwritten by it.             *)
addedNothing(d, j) == noRecords

(* Added while the trade was in flight.                                      *)
added(d, j) == [id \in Id |-> IF spaces[d][id] = j.sent[id] THEN None ELSE spaces[d][id]]

FinishSync(d) ==
    LET j == job[d]
        settled == mergeRecords(j.theirs, j.mine)
        merged == mergeRecords(settled, added(d, j))
    IN  /\ j.at = "put" /\ \A id \in Id : ~outdated(j, id)
        /\ IF spacesVault[d] \in {None, j.vault}
           THEN /\ spaces' = [spaces EXCEPT ![d] = merged]
                /\ localRoots' = [localRoots EXCEPT ![d] = pendingRoots(d, merged)]
                /\ place' = [place EXCEPT ![d] = [id \in Id |-> IF isOpen(merged[id]) THEN @[id] ELSE None]]
           \* Another vault: its records replace this device's, whose folders stay as plain files.
           ELSE /\ spaces' = [spaces EXCEPT ![d] = settled]
                /\ localRoots' = [localRoots EXCEPT ![d] = noRecords]
                /\ place' = [place EXCEPT ![d] = noRecords]
        /\ spacesVault' = [spacesVault EXCEPT ![d] = j.vault]
        /\ job' = [job EXCEPT ![d] = Resting]
        /\ UNCHANGED <<remote, storage, used>>

(* The app dies, or the storage fails, during the trade.                     *)
SyncDies(d) ==
    /\ job[d] # Resting /\ spend("deaths", MaxDeaths)
    /\ job' = [job EXCEPT ![d] = Resting]
    /\ UNCHANGED <<remote, spaces, localRoots, spacesVault, storage, place>>

(* The move follower, in the same refresh (follow, settle).                  *)
FollowMove(d, id) ==
    /\ job[d] = Resting /\ localRoots[d][id] # None /\ spaces[d][id] # None
    /\ place[d][id] # None => free(d, id, spaces[d][id].root)
    /\ place' = [place EXCEPT ![d][id] = IF @ = None THEN None ELSE spaces[d][id].root]
    /\ dropLocalRoot(d, id)
    /\ UNCHANGED <<remote, spaces, spacesVault, storage, job, used>>

SNext ==
    \E d \in Device :
        \/ ReadRecords(d) \/ FinishSync(d) \/ SyncDies(d)
        \/ \E v \in Vault : SwitchStorage(d, v)
        \/ \E id \in Id :
              \/ Close(d, id) \/ Edit(d, id) \/ Pull(d, id) \/ PutRecord(d, id) \/ FollowMove(d, id)
              \/ \E root \in Root : Share(d, id, root) \/ Join(d, id, root) \/ MoveRoot(d, id, root)

(* Every device goes on refreshing.                                          *)
SFairness ==
    \A d \in Device : WF_svars(ReadRecords(d)) /\ WF_svars(FinishSync(d))
                      /\ \A id \in Id : WF_svars(PutRecord(d, id))

-----------------------------------------------------------------------------
(* Properties.                                                               *)

(* A share is mounted where its folder is on this device, whatever order its *)
(* moves here and elsewhere reach it in: its files never read as deleted, nor*)
(* as the vault's (share-moves.ts: "so an old root never becomes vault       *)
(* content").                                                                *)
MountedWhereItIs ==
    \A d \in Device, id \in Id :
        (isOpen(spaces[d][id]) /\ place[d][id] # None) => place[d][id] = rootHere(d, id)

(* A device never goes back to an older record of the vault it is bound to:  *)
(* nothing undoes a close, or an edit made while a trade was in flight.      *)
GivesWayToNewer ==
    \A d \in Device, id \in Id :
        LET r == spaces[d][id]
        IN  (r # None /\ spacesVault'[d] = spacesVault[d])
                => spaces'[d][id] = r \/ isNewer(spaces'[d][id], r)
NeverOlder == [][GivesWayToNewer]_svars

(* No record made in one vault is published in another, its key with it      *)
(* (records.ts: "Another vault's records never reach this one").             *)
StaysInItsVault ==
    \A v \in Vault, id \in Id : remote[v][id] # None => remote[v][id].home \in {None, v}

Agree == \A d, e \in Device : spaces[d] = spaces[e]

(* Once nobody edits any more, every device comes to hold the same records,  *)
(* also after one's put overwrote another's newer one (remote.ts: "no        *)
(* compare-and-set is needed").                                              *)
RecordsAgree == <>[]Agree
=============================================================================
