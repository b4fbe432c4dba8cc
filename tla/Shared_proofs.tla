---------------------------- MODULE Shared_proofs ----------------------------
(* What is proved of the hub's admission, of a device's link, of the history *)
(* and of the keys holds of them where they are checked.                     *)
EXTENDS MCShared, TLAPS

(* The admission's proofs, of the admission that the run instantiates.       *)
Door == INSTANCE HubAccess_proofs WITH
    issued <- accessIssued, socket <- accessSocket, used <- accessUsed,
    Guest <- {guest}, Token <- 1..2, MaxTags <- 3, MaxRequests <- 2,
    MaxGone <- 1, MaxDeaths <- 1

(* Both instances start alike.                                               *)
LEMMA DoorInit == Access!AInit => Door!AInit
BY DEF Access!AInit, Door!AInit, Access!Idle, Door!Idle, Access!Device, Door!Device, Access!Tags, Door!Tags

(* A set is put in the same order.                                           *)
LEMMA SameOrder == \A S : Access!SetToSeq(S) = Door!SetToSeq(S)
<1>1. \A S : Access!Cardinality(S) = Door!Cardinality(S)
  BY DEF Access!Cardinality, Door!Cardinality
<1> QED
  BY <1>1, Zenon DEF Access!SetToSeq, Door!SetToSeq, Access!IsInjective, Door!IsInjective

(* Whoever leaves, the others hear it in the same order.                     *)
LEMMA DoorLeave == ASSUME NEW gone PROVE Access!leave(gone) => Door!leave(gone)
<1> DEFINE left == {<<"leave", g>> : g \in gone \cap Access!present}
<1>1. Access!present = Door!present
  BY DEF Access!present, Door!present, Access!open, Door!open, Access!Tags, Door!Tags
<1>2. Access!SetToSeq(left) = Door!SetToSeq(left)
  BY SameOrder
<1>3. Access!Tags = Door!Tags /\ Access!Ended = Door!Ended
  BY DEF Access!Tags, Door!Tags, Access!Ended, Door!Ended
<1>4. \A cuts : Access!announced(gone, cuts) = Door!announced(gone, cuts)
  BY <1>1, <1>2, <1>3, Zenon DEF Access!announced, Door!announced
<1> QED
  BY <1>3, <1>4, Zenon DEF Access!leave, Door!leave

(* Both instances take the same steps.                                       *)
LEMMA DoorNext == Access!ANext => Door!ANext
<1>1. Access!Invite => Door!Invite
  BY DEF Access!Invite, Door!Invite, Access!Idle, Door!Idle, Access!spend, Door!spend, Access!goTo,
       Door!goTo
<1>2. Access!DropOld => Door!DropOld
  <2>1. \A t : {u \in Access!present : accessSocket[u].grant = t} = {u \in Door!present : accessSocket[u].grant = t}
    BY DEF Access!present, Door!present, Access!open, Door!open, Access!Tags, Door!Tags
  <2>2. \A t : Access!dropGrant(t) => Door!dropGrant(t)
    BY <2>1, DoorLeave, Zenon DEF Access!dropGrant, Door!dropGrant, Access!remembered, Door!remembered,
       Access!drop, Door!drop
  <2> QED
    BY <2>2 DEF Access!DropOld, Door!DropOld, Access!kv, Door!kv
<1>3. Access!DeleteOld => Door!DeleteOld
  BY DEF Access!DeleteOld, Door!DeleteOld
<1>4. Access!PutTok => Door!PutTok
  BY DEF Access!PutTok, Door!PutTok, Access!goTo, Door!goTo
<1>5. Access!PutPointer => Door!PutPointer
  BY DEF Access!PutPointer, Door!PutPointer, Access!setPointer, Door!setPointer, Access!Idle,
       Door!Idle
<1>6. Access!Revoke => Door!Revoke
  BY DEF Access!Revoke, Door!Revoke, Access!Idle, Door!Idle, Access!spend, Door!spend, Access!goTo,
       Door!goTo, Access!kv, Door!kv
<1>7. Access!DeletePointer => Door!DeletePointer
  BY DEF Access!DeletePointer, Door!DeletePointer, Access!setPointer, Door!setPointer, Access!Idle,
       Door!Idle
<1>8. Access!Leave => Door!Leave
  BY DEF Access!Leave, Door!Leave, Access!Idle, Door!Idle, Access!spend, Door!spend, Access!goTo,
       Door!goTo, Access!kv, Door!kv
<1>9. Access!EndShare => Door!EndShare
  BY DoorLeave DEF Access!EndShare, Door!EndShare, Access!Idle, Door!Idle, Access!spend, Door!spend,
       Access!drop, Door!drop, Access!present, Door!present, Access!open, Door!open,
       Access!Tags, Door!Tags, Access!kv, Door!kv
<1>10. Access!RequestDies => Door!RequestDies
  BY DEF Access!RequestDies, Door!RequestDies, Access!Idle, Door!Idle, Access!spend, Door!spend,
       Access!kv, Door!kv
<1>11. Access!KvSettles => Door!KvSettles
  BY DEF Access!KvSettles, Door!KvSettles
<1>12. Access!Forget => Door!Forget
  BY DEF Access!Forget, Door!Forget, Access!Idle, Door!Idle, Access!Device, Door!Device, Access!kv,
       Door!kv
<1>13. \A d : Access!Ask(d) => Door!Ask(d)
  BY DEF Access!Ask, Door!Ask, Access!Tags, Door!Tags, Access!OwnerGrant, Door!OwnerGrant,
       Access!live, Door!live, Access!kv, Door!kv
<1>14. \A d : Access!Accept(d) => Door!Accept(d)
  <2>1. Access!SetToSeq({<<"here", u>> : u \in Access!present}) = Door!SetToSeq({<<"here", u>> : u \in Door!present})
    BY SameOrder DEF Access!present, Door!present, Access!open, Door!open,
       Access!Tags, Door!Tags
  <2> QED
    BY <2>1, Zenon, ZenonT(60) DEF Access!Accept, Door!Accept, Access!refused, Door!refused, Access!told, Door!told,
       Access!present, Door!present, Access!open, Door!open,
       Access!Tags, Door!Tags, Access!kv, Door!kv
<1>15. \A t : Access!Hear(t) => Door!Hear(t)
  BY DEF Access!Hear, Door!Hear, Access!kv, Door!kv
<1>16. \A t : Access!Close(t) => Door!Close(t)
  BY DoorLeave DEF Access!Close, Door!Close, Access!spend, Door!spend, Access!open, Door!open,
       Access!Tags, Door!Tags, Access!kv, Door!kv
<1>17. \A t : Access!Vanish(t) => Door!Vanish(t)
  BY DEF Access!Vanish, Door!Vanish, Access!open, Door!open, Access!Tags, Door!Tags, Access!spend,
       Door!spend, Access!kv, Door!kv
<1>18. Access!Sweep => Door!Sweep
  BY DoorLeave, Zenon DEF Access!Sweep, Door!Sweep, Access!open, Door!open, Access!Tags, Door!Tags,
       Access!kv, Door!kv
<1> QED
  BY <1>1, <1>2, <1>3, <1>4, <1>5, <1>6, <1>7, <1>8, <1>9, <1>10, <1>11, <1>12, <1>13,
     <1>14, <1>15, <1>16, <1>17, <1>18 DEF Access!ANext, Door!ANext, Access!Device, Door!Device, Access!Tags, Door!Tags

(* What the proofs assume of the admission's constants holds of the run's.   *)
LEMMA DoorAssumption == Door!AccessAssumption
<1>1. Door!Device \cup {None} = {Owner, guest, None}
  BY DEF Door!Device
<1>2. (1..2) \cup {Door!OwnerGrant, None} = (1..2) \cup {0, None}
  BY DEF Door!OwnerGrant
<1>3. Door!Frame = {"here", "join", "leave"} \X (1..3)
  BY DEF Door!Frame, Door!Kind, Door!Tags
<1>4. 1..2 \subseteq Nat \ {0} /\ 3 \in Nat
  OBVIOUS
<1> QED
  BY SharedAssumption, <1>1, <1>2, <1>3, <1>4 DEF Door!AccessAssumption, Door!Tags

(* What was revoked stays cut, and everyone sees who is there: the           *)
(* admission's theorem, of the admission the run checks.                     *)
THEOREM AccessHolds == Spec => []AccessSafe
<1> DEFINE Inv == part = "access" => Door!ATypes /\ Door!CutInv /\ Door!ViewInv
<1>1. Init => Inv
  BY DoorInit, DoorAssumption, Door!ATypesInit, Door!CutInit, Door!ViewInit DEF Init
<1>2. Inv /\ [Next]_allvars => Inv'
  <2> SUFFICES ASSUME Inv, [Next]_allvars, part' = "access"
               PROVE  (Door!ATypes /\ Door!CutInv /\ Door!ViewInv)'
    OBVIOUS
  <2>1. part = "access" /\ (Door!ANext \/ UNCHANGED Door!avars)
    <3>1. CASE AccessStep
      BY <3>1, DoorNext DEF AccessStep
    <3>2. CASE UNCHANGED allvars
      BY <3>2 DEF allvars, accessvars, Door!avars
    <3> QED
      BY <3>1, <3>2 DEF Next, HistoryStep, LinkStep, RecordsStep, RoomsStep, NotesStep, WhoStep, KeysStep
  <2> QED
    BY <2>1, DoorAssumption, Door!ATypesStep, Door!CutStep, Door!ViewStep, Door!AccessStutters
<1>3. Inv => AccessSafe
  <2>1. Door!RevokedIsCut => Access!RevokedIsCut
    BY DEF Door!RevokedIsCut, Access!RevokedIsCut, Door!present, Access!present, Door!open, Access!open, Door!Tags, Access!Tags
  <2>2. Door!SeesWhoIsThere => Access!SeesWhoIsThere
    BY DEF Door!SeesWhoIsThere, Access!SeesWhoIsThere, Door!present, Access!present, Door!open, Access!open, Door!Tags, Access!Tags
  <2> QED
    BY <2>1, <2>2, DoorAssumption, Door!CutHolds, Door!ViewHolds DEF AccessSafe
<1> QED
  BY <1>1, <1>2, <1>3, PTL DEF Spec

-----------------------------------------------------------------------------
(* A device's link, the same way.                                            *)
Wire == INSTANCE HubLink_proofs WITH
    wanted <- linkWanted, socket <- linkSocket, used <- linkUsed,
    Space <- {v1, v2}, MaxSockets <- 5, MaxSettings <- 2, MaxFlips <- 2,
    MaxLosses <- 2, Retries <- 1, UnauthorizedRetries <- 1

(* Both instances start alike.                                               *)
LEMMA WireInit == Link!LInit => Wire!LInit
BY DEF Link!LInit, Wire!LInit, Link!Sockets, Wire!Sockets, Link!NoSocket, Wire!NoSocket

(* Both instances have the same helpers.                                     *)
LEMMA WireHelpers ==
    /\ Link!Sockets = Wire!Sockets /\ Link!unmade = Wire!unmade /\ Link!carried = Wire!carried
    /\ \A what, max : Link!spend(what, max) => Wire!spend(what, max)
    /\ \A n : Link!closed(n) = Wire!closed(n)
    /\ \A l : Link!cleaned(l) = Wire!cleaned(l) /\ Link!startOpen(l) = Wire!startOpen(l)
    /\ \A l, up : Link!hears(l, up) => Wire!hears(l, up)
    /\ \A l, refusal : Link!lose(l, refusal) = Wire!lose(l, refusal)
    /\ \A s : Link!statusOf(s) = Wire!statusOf(s)
    /\ \A carries : Link!replace(carries) => Wire!replace(carries)
    /\ \A n : Link!mine(n) => Wire!mine(n)
<1>1. Link!Sockets = Wire!Sockets
  BY DEF Link!Sockets, Wire!Sockets
<1>2. Link!unmade = Wire!unmade
  BY <1>1 DEF Link!unmade, Wire!unmade
<1>3. Link!carried = Wire!carried
  BY DEF Link!carried, Wire!carried
<1>4. \A what, max : Link!spend(what, max) => Wire!spend(what, max)
  BY DEF Link!spend, Wire!spend
<1>5. \A n : Link!closed(n) = Wire!closed(n)
  BY DEF Link!closed, Wire!closed, Link!NoSocket, Wire!NoSocket
<1>6. \A l : Link!cleaned(l) = Wire!cleaned(l) /\ Link!startOpen(l) = Wire!startOpen(l)
  BY DEF Link!cleaned, Wire!cleaned, Link!startOpen, Wire!startOpen
<1>7. \A l, up : Link!tellAll(l, up) = Wire!tellAll(l, up)
  BY DEF Link!tellAll, Wire!tellAll
<1>8. \A l, up : Link!hears(l, up) => Wire!hears(l, up)
  BY <1>7 DEF Link!hears, Wire!hears, Link!afresh, Wire!afresh
<1>9. \A l, refusal : Link!lose(l, refusal) = Wire!lose(l, refusal)
  BY DEF Link!lose, Wire!lose, Link!cleaned, Wire!cleaned
<1>10. \A s : Link!statusOf(s) = Wire!statusOf(s)
  BY DEF Link!statusOf, Wire!statusOf
<1>11. \A carries : Link!replace(carries) => Wire!replace(carries)
  BY <1>5, <1>7 DEF Link!replace, Wire!replace, Link!NewLink, Wire!NewLink
<1>12. \A n : Link!mine(n) => Wire!mine(n)
  BY DEF Link!mine, Wire!mine
<1> QED
  BY <1>1, <1>2, <1>3, <1>4, <1>5, <1>6, <1>8, <1>9, <1>10, <1>11, <1>12

(* Both instances take the same steps.                                       *)
LEMMA WireNext == Link!LNext => Wire!LNext
<1>1. Link!Open => Wire!Open
  BY WireHelpers, Zenon DEF Link!Open, Wire!Open
<1>2. Link!OpenFails => Wire!OpenFails
  BY WireHelpers, Zenon DEF Link!OpenFails, Wire!OpenFails
<1>3. Link!Backoff => Wire!Backoff
  BY WireHelpers, Zenon DEF Link!Backoff, Wire!Backoff
<1>4. Link!Wake => Wire!Wake
  BY WireHelpers, Zenon DEF Link!Wake, Wire!Wake, Link!connected, Wire!connected, Link!connecting, Wire!connecting
<1>5. Link!PingFindsSilence => Wire!PingFindsSilence
  BY WireHelpers, Zenon DEF Link!PingFindsSilence, Wire!PingFindsSilence
<1>6. Link!SettingsSaved => Wire!SettingsSaved
  BY WireHelpers, Zenon DEF Link!SettingsSaved, Wire!SettingsSaved
<1>7. \A n : Link!RelayAccepts(n) => Wire!RelayAccepts(n)
  BY WireHelpers, Zenon DEF Link!RelayAccepts, Wire!RelayAccepts
<1>8. \A n : Link!Opened(n) => Wire!Opened(n)
  BY WireHelpers, Zenon DEF Link!Opened, Wire!Opened
<1>9. \A n : Link!Closed(n) => Wire!Closed(n)
  BY WireHelpers, Zenon DEF Link!Closed, Wire!Closed
<1>10. \A n : Link!Drop(n) => Wire!Drop(n)
  BY WireHelpers, Zenon DEF Link!Drop, Wire!Drop
<1>11. \A n : Link!Revoked(n) => Wire!Revoked(n)
  BY WireHelpers, Zenon DEF Link!Revoked, Wire!Revoked
<1>12. \A s : Link!FrameFor(s) => Wire!FrameFor(s)
  BY WireHelpers, Zenon DEF Link!FrameFor, Wire!FrameFor, Link!connected, Wire!connected
<1>13. \A s : Link!RetryRevoked(s) => Wire!RetryRevoked(s)
  BY WireHelpers, Zenon DEF Link!RetryRevoked, Wire!RetryRevoked
<1>14. \A s : Link!AdmitsFlip(s) => Wire!AdmitsFlip(s)
  BY WireHelpers, Zenon DEF Link!AdmitsFlip, Wire!AdmitsFlip
<1> QED
  BY WireHelpers, <1>1, <1>2, <1>3, <1>4, <1>5, <1>6, <1>7, <1>8, <1>9, <1>10, <1>11, <1>12, <1>13, <1>14
     DEF Link!LNext, Wire!LNext

(* What the proofs assume of the link's constants holds of the run's.        *)
LEMMA WireAssumption == Wire!LinkAssumption
<1>1. Wire!HubLinks =
          [carries : SUBSET {v1, v2}, ws : (1..5) \cup {None},
           status : {"connecting", "connected", "offline", "unauthorized", "broken"},
           opening : BOOLEAN, timer : BOOLEAN, ping : BOOLEAN, refusals : Nat, revoked : SUBSET {v1, v2}]
  BY DEF Wire!HubLinks, Wire!Sockets, Wire!Statuses
<1> QED
  BY SharedAssumption, <1>1 DEF Wire!LinkAssumption

(* Listeners were told the status, and no space is left waiting: the link's  *)
(* theorem, of the link the run checks.                                      *)
THEOREM LinkHolds == Spec => []LinkSafe
<1> DEFINE Inv == part = "link" => Wire!LInv
<1>1. Init => Inv
  BY WireInit, WireAssumption, Wire!LinkInit DEF Init
<1>2. Inv /\ [Next]_allvars => Inv'
  <2> SUFFICES ASSUME Inv, [Next]_allvars, part' = "link"
               PROVE  Wire!LInv'
    OBVIOUS
  <2>1. part = "link" /\ (Wire!LNext \/ UNCHANGED Wire!lvars)
    <3>1. CASE LinkStep
      BY <3>1, WireNext DEF LinkStep
    <3>2. CASE UNCHANGED allvars
      BY <3>2 DEF allvars, linkvars, Wire!lvars
    <3> QED
      BY <3>1, <3>2 DEF Next, HistoryStep, AccessStep, RecordsStep, RoomsStep, NotesStep, WhoStep, KeysStep
  <2> QED
    BY <2>1, WireAssumption, Wire!LinkStep, Wire!LinkStutters
<1>3. Inv => LinkSafe
  <2>1. Wire!ToldIsStatus => Link!ToldIsStatus
    BY WireHelpers DEF Wire!ToldIsStatus, Link!ToldIsStatus
  <2>2. Wire!NeverStranded => Link!NeverStranded
    BY DEF Wire!NeverStranded, Link!NeverStranded
  <2> QED
    BY <2>1, <2>2 DEF LinkSafe, Wire!LInv
<1> QED
  BY <1>1, <1>2, <1>3, PTL DEF Spec

-----------------------------------------------------------------------------
(* The history, the same way.                                                *)
Past == INSTANCE VaultHistory_proofs WITH
    Collector <- {d1, d2}, Note <- {n1, n2}, Version <- {w1, w2},
    Written <- pushed, Retained <- 1, Excess <- 0, MaxPushes <- 3,
    MaxPins <- 2, MaxCleans <- 1, MaxCrashes <- 1, Races <- {}

(* Both instances read a log and its snapshots alike.                        *)
LEMMA PastTrees ==
    /\ History!head = Past!head /\ History!NoFiles = Past!NoFiles
    /\ \A id : History!filesOf(id) = Past!filesOf(id)
    /\ \A files : History!hashes(files) = Past!hashes(files)
    /\ \A id : History!changes(id) = Past!changes(id) /\ History!changeHashes(id) = Past!changeHashes(id)
    /\ \A files, record : History!undoChanges(files, record) = Past!undoChanges(files, record)
    /\ \A chain, n : History!undone(chain, n) = Past!undone(chain, n)
<1>1. History!head = Past!head /\ History!NoFiles = Past!NoFiles
  BY DEF History!head, Past!head, History!NoFiles, Past!NoFiles
<1>2. \A id : History!filesOf(id) = Past!filesOf(id)
  BY <1>1 DEF History!filesOf, Past!filesOf
<1>3. \A files : History!hashes(files) = Past!hashes(files)
  BY DEF History!hashes, Past!hashes
<1>4. \A id : History!changes(id) = Past!changes(id)
  BY <1>2 DEF History!changes, Past!changes, History!diffManifests, Past!diffManifests
<1>5. \A id : History!changeHashes(id) = Past!changeHashes(id)
  BY <1>4 DEF History!changeHashes, Past!changeHashes
<1>6. \A files, record : History!undoChanges(files, record) = Past!undoChanges(files, record)
  BY DEF History!undoChanges, Past!undoChanges
<1>7. ASSUME NEW chain, NEW n PROVE History!undone(chain, n) = Past!undone(chain, n)
  BY <1>1, <1>2, <1>4, <1>6, Zenon DEF History!undone, Past!undone
<1> QED
  BY <1>1, <1>2, <1>3, <1>4, <1>5, <1>6, <1>7

LEMMA PastLogs ==
    /\ \A l : History!ToSet(l) = Past!ToSet(l)
    /\ \A l, entries : History!only(l, entries) = Past!only(l, entries)
    /\ \A l : History!walkableChain(l) = Past!walkableChain(l)
    /\ \A l, id : (History!reaches(l, id) <=> Past!reaches(l, id))
    /\ \A l, id : History!replayTo(l, id) = Past!replayTo(l, id)
    /\ \A o, l : History!mutate(o, l) = Past!mutate(o, l)
    /\ \A o, l : (History!survived(o, l) <=> Past!survived(o, l))
    /\ \A l : History!pinned(l) = Past!pinned(l) /\ History!plain(l) = Past!plain(l)
<1>1. \A l : History!ToSet(l) = Past!ToSet(l)
  BY DEF History!ToSet, Past!ToSet
<1>2. ASSUME NEW l, NEW entries PROVE History!only(l, entries) = Past!only(l, entries)
  BY Zenon DEF History!only, Past!only
<1>3. \A l : History!contiguousLength(l) = Past!contiguousLength(l)
  BY DEF History!contiguousLength, Past!contiguousLength
<1>4. \A l : History!walkableChain(l) = Past!walkableChain(l)
  BY <1>3, PastTrees DEF History!walkableChain, Past!walkableChain
<1>5. \A l, id : (History!reaches(l, id) <=> Past!reaches(l, id))
  BY <1>4 DEF History!reaches, Past!reaches
<1>6. ASSUME NEW l, NEW id PROVE History!replayTo(l, id) = Past!replayTo(l, id)
  BY <1>4, PastTrees, Zenon DEF History!replayTo, Past!replayTo
<1>7. \A l, i, e : History!InsertAt(l, i, e) = Past!InsertAt(l, i, e)
  BY DEF History!InsertAt, Past!InsertAt
<1>8. ASSUME NEW l, NEW id PROVE History!prependSnapshot(l, id) = Past!prependSnapshot(l, id)
  BY <1>1, <1>2, <1>7, Zenon DEF History!prependSnapshot, Past!prependSnapshot
<1>9. \A l, evicted : History!pruneLog(l, evicted) = Past!pruneLog(l, evicted)
  BY <1>1, <1>2 DEF History!pruneLog, Past!pruneLog
<1>10. \A l, id, flag : History!repin(l, id, flag) = Past!repin(l, id, flag)
  BY DEF History!repin, Past!repin
<1>11. \A o, l : History!mutate(o, l) = Past!mutate(o, l)
  BY <1>8, <1>9, <1>10 DEF History!mutate, Past!mutate
<1>12. \A o, l : (History!survived(o, l) <=> Past!survived(o, l))
  BY <1>1 DEF History!survived, Past!survived
<1>13. \A l : History!pinned(l) = Past!pinned(l) /\ History!plain(l) = Past!plain(l)
  BY <1>1, <1>2 DEF History!pinned, Past!pinned, History!plain, Past!plain
<1> QED
  BY <1>1, <1>2, <1>4, <1>5, <1>6, <1>11, <1>12, <1>13

LEMMA PastHelpers ==
    /\ History!Idle = Past!Idle
    /\ \A d, o : History!go(d, o) => Past!go(d, o)
    /\ \A d : (History!busy(d) <=> Past!busy(d))
    /\ \A d : History!mayUpload(d) => Past!mayUpload(d)
    /\ \A d : History!mayDecide(d) => Past!mayDecide(d)
    /\ \A d : History!mayCollect(d) => Past!mayCollect(d)
    /\ \A d : History!mayRewrite(d) => Past!mayRewrite(d)
    /\ \A d, l : History!then(d, l) = Past!then(d, l)
    /\ \A o : History!rescued(o) = Past!rescued(o)
    /\ History!reachableHashes = Past!reachableHashes
<1>1. History!Idle = Past!Idle
  BY PastTrees DEF History!Idle, Past!Idle
<1>2. \A d, o : History!go(d, o) => Past!go(d, o)
  BY DEF History!go, Past!go
<1>3. \A d : (History!busy(d) <=> Past!busy(d))
  BY DEF History!busy, Past!busy
<1>4. \A d : History!mayUpload(d) => Past!mayUpload(d)
  BY DEF History!mayUpload, Past!mayUpload, History!deciding, Past!deciding
<1>5. \A d : History!mayDecide(d) => Past!mayDecide(d)
  BY DEF History!mayDecide, Past!mayDecide, History!uploading, Past!uploading
<1>6. \A d : History!mayCollect(d) => Past!mayCollect(d)
  BY DEF History!mayCollect, Past!mayCollect, History!recording, Past!recording
<1>7. \A d : History!mayRewrite(d) => Past!mayRewrite(d)
  BY DEF History!mayRewrite, Past!mayRewrite, History!recording, Past!recording,
     History!rewriting, Past!rewriting
<1>8. \A l : (History!shouldRunGc(l) <=> Past!shouldRunGc(l))
  BY PastLogs DEF History!shouldRunGc, Past!shouldRunGc
<1>9. \A d, l : History!then(d, l) = Past!then(d, l)
  BY <1>1, <1>8 DEF History!then, Past!then
<1>10. \A o : History!rescued(o) = Past!rescued(o)
  BY PastLogs DEF History!rescued, Past!rescued
<1>11. History!reachableHashes = Past!reachableHashes
  BY PastTrees, PastLogs, ZenonT(60) DEF History!reachableHashes, Past!reachableHashes
<1> QED
  BY <1>1, <1>2, <1>3, <1>4, <1>5, <1>6, <1>7, <1>9, <1>10, <1>11

(* Both instances start alike.                                               *)
LEMMA PastInit == History!HInit => Past!HInit
BY PastHelpers DEF History!HInit, Past!HInit

(* Both instances take the same steps.                                       *)
LEMMA PastNext == History!HNext => Past!HNext
<1>1. \A d : History!Upload(d) => Past!Upload(d)
  BY PastTrees, PastHelpers, Zenon DEF History!Upload, Past!Upload
<1>2. \A d : History!Publish(d) => Past!Publish(d)
  BY PastTrees, PastHelpers, Zenon DEF History!Publish, Past!Publish
<1>3. \A d : History!ReadLog(d) => Past!ReadLog(d)
  BY PastHelpers, Zenon DEF History!ReadLog, Past!ReadLog, History!store, Past!store
<1>4. \A d : History!WriteLog(d) => Past!WriteLog(d)
  BY PastLogs, PastHelpers, Zenon DEF History!WriteLog, Past!WriteLog
<1>5. \A d : History!ReadBack(d) => Past!ReadBack(d)
  BY PastLogs, PastHelpers, Zenon DEF History!ReadBack, Past!ReadBack, History!store, Past!store
<1>6. ASSUME NEW d, History!Retain(d) PROVE Past!Retain(d)
  <2> DEFINE
             fewH == History!plain(op[d].copy)
             evictedH == {fewH[i].id : i \in (1 + 1)..Len(fewH)}
             keptH == {e.id : e \in History!ToSet(op[d].copy)} \ evictedH
             liveH == History!hashes(History!filesOf(op[d].id)) \cup (UNION {History!changeHashes(i) : i \in keptH})
                         \cup (UNION {History!hashes(History!filesOf(i)) : i \in History!pinned(op[d].copy) \cap pins})
             sweepH == IF History!pinned(op[d].copy) \subseteq pins THEN UNION {History!changeHashes(i) : i \in evictedH} ELSE {}
             fewP == Past!plain(op[d].copy)
             evictedP == {fewP[i].id : i \in (1 + 1)..Len(fewP)}
             keptP == {e.id : e \in Past!ToSet(op[d].copy)} \ evictedP
             liveP == Past!hashes(Past!filesOf(op[d].id)) \cup (UNION {Past!changeHashes(i) : i \in keptP})
                         \cup (UNION {Past!hashes(Past!filesOf(i)) : i \in Past!pinned(op[d].copy) \cap pins})
             sweepP == IF Past!pinned(op[d].copy) \subseteq pins THEN UNION {Past!changeHashes(i) : i \in evictedP} ELSE {}
  <2>1. fewH = fewP /\ History!ToSet(op[d].copy) = Past!ToSet(op[d].copy)
        /\ History!pinned(op[d].copy) = Past!pinned(op[d].copy)
    BY PastLogs
  <2>2. \A i : History!changeHashes(i) = Past!changeHashes(i)
    BY PastTrees
  <2>3. \A i : History!hashes(History!filesOf(i)) = Past!hashes(Past!filesOf(i))
    BY PastTrees
  <2>4. evictedH = evictedP
    <3> HIDE DEF fewH, fewP
    <3> QED
      BY <2>1, Zenon
  <2>5. keptH = keptP
    <3> HIDE DEF evictedH, evictedP
    <3> QED
      BY <2>1, <2>4, Zenon
  <2>6. liveH = liveP
    <3> HIDE DEF keptH, keptP
    <3> QED
      BY <2>1, <2>2, <2>3, <2>5, Zenon
  <2>7. sweepH = sweepP
    <3> HIDE DEF evictedH, evictedP
    <3> QED
      BY <2>1, <2>2, <2>4, Zenon
  <2>8. op[d].phase = "retain" /\ History!mayCollect(d) /\ UNCHANGED <<History!store, pinnings, cleans, crashes>>
        /\ History!go(d, [op[d] EXCEPT !.phase = "read", !.change = "prune", !.evicted = evictedH,
                          !.live = liveH, !.sweep = sweepH])
    BY <1>6, Zenon DEF History!Retain
  <2>9. \A E, L, S : E = evictedP /\ L = liveP /\ S = sweepP
           /\ op[d].phase = "retain" /\ Past!mayCollect(d) /\ UNCHANGED <<Past!store, pinnings, cleans, crashes>>
           /\ Past!go(d, [op[d] EXCEPT !.phase = "read", !.change = "prune", !.evicted = E,
                          !.live = L, !.sweep = S]) => Past!Retain(d)
    BY Zenon DEF Past!Retain
  <2>10. UNCHANGED <<Past!store, pinnings, cleans, crashes>>
    BY <2>8 DEF History!store, Past!store
  <2>11. \A o : History!go(d, o) => Past!go(d, o)
    BY PastHelpers
  <2>12. Past!mayCollect(d)
    BY <2>8, PastHelpers
  <2> HIDE DEF evictedH, evictedP, liveH, liveP, sweepH, sweepP
  <2> QED
    BY <2>4, <2>6, <2>7, <2>8, <2>9, <2>10, <2>11, <2>12, ZenonT(60)
<1>7. \A d : History!LateHead(d) => Past!LateHead(d)
  BY PastTrees, PastHelpers, Zenon
     DEF History!LateHead, Past!LateHead, History!store, Past!store, History!headUnchanged, Past!headUnchanged
<1>8. \A d : History!PinnedAmong(d) => Past!PinnedAmong(d)
  BY PastHelpers, Zenon DEF History!PinnedAmong, Past!PinnedAmong, History!store, Past!store
<1>9. \A d : History!Sweep(d) => Past!Sweep(d)
  BY PastHelpers, Zenon DEF History!Sweep, Past!Sweep
<1>10. \A d : History!StartPin(d) => Past!StartPin(d)
  BY PastLogs, PastHelpers, Zenon DEF History!StartPin, Past!StartPin, History!store, Past!store
<1>11. \A d : History!Rebuild(d) => Past!Rebuild(d)
  BY PastLogs, PastHelpers, Zenon DEF History!Rebuild, Past!Rebuild, History!store, Past!store
<1>12. \A d : History!PutPin(d) => Past!PutPin(d)
  BY PastHelpers, Zenon DEF History!PutPin, Past!PutPin
<1>13. \A d : History!StartUnpin(d) => Past!StartUnpin(d)
  BY PastLogs, PastHelpers, Zenon DEF History!StartUnpin, Past!StartUnpin, History!store, Past!store
<1>14. \A d : History!DropPin(d) => Past!DropPin(d)
  BY PastHelpers, Zenon DEF History!DropPin, Past!DropPin
<1>15. \A d : History!StartClean(d) => Past!StartClean(d)
  BY PastTrees, PastLogs, PastHelpers, Zenon DEF History!StartClean, Past!StartClean, History!store, Past!store
<1>16. \A d : History!ListSettled(d) => Past!ListSettled(d)
  BY PastHelpers, Zenon DEF History!ListSettled, Past!ListSettled, History!store, Past!store
<1>17. \A d : History!Confirm(d) => Past!Confirm(d)
  BY PastTrees, PastLogs, PastHelpers, Zenon DEF History!Confirm, Past!Confirm, History!store, Past!store
<1>18. \A d : History!HCrash(d) => Past!HCrash(d)
  BY PastHelpers, Zenon DEF History!HCrash, Past!HCrash, History!store, Past!store
<1>19. \A d : History!FailUpdate(d) => Past!FailUpdate(d)
  BY PastHelpers, Zenon DEF History!FailUpdate, Past!FailUpdate
<1>20. History!Settle => Past!Settle
  BY PastHelpers, Zenon DEF History!Settle, Past!Settle
<1> QED
  BY <1>1, <1>2, <1>3, <1>4, <1>5, <1>6, <1>7, <1>8, <1>9, <1>10, <1>11, <1>12, <1>13, <1>14, <1>15,
     <1>16, <1>17, <1>18, <1>19, <1>20, Zenon DEF History!HNext, Past!HNext

(* What the proofs assume of the trees holds of the run's.                   *)
LEMMA PastAssumption == Past!HistoryAssumption
<1>1. \A a, b \in {w1, w2, NoVersion} : tree(a, b) \in Past!Files
  BY DEF tree, Past!Files
<1>2. 1..3 = {1, 2, 3}
  OBVIOUS
<1>3. pushed \in [1..3 -> SUBSET Past!Files]
  BY <1>1, <1>2 DEF pushed
<1> QED
  BY <1>3 DEF Past!HistoryAssumption

(* The head and the versions the chain offers can be downloaded, and the     *)
(* history is true: the history's theorems, of the history the run checks.   *)
THEOREM HistoryHolds == Spec => []HistorySafe
<1> DEFINE Inv == part = "history" => Past!HTypes /\ Past!HeadInv /\ Past!ChainInv
<1>1. Init => Inv
  BY PastInit, PastAssumption, Past!HTypesInit, Past!HeadInvInit, Past!ChainInvInit DEF Init
<1>2. Inv /\ [Next]_allvars => Inv'
  <2> SUFFICES ASSUME Inv, [Next]_allvars, part' = "history"
               PROVE  (Past!HTypes /\ Past!HeadInv /\ Past!ChainInv)'
    OBVIOUS
  <2>1. part = "history" /\ (Past!HNext \/ UNCHANGED Past!hvars)
    <3>1. CASE HistoryStep
      BY <3>1, PastNext DEF HistoryStep
    <3>2. CASE UNCHANGED allvars
      BY <3>2 DEF allvars, historyvars, Past!hvars, Past!store
    <3> QED
      BY <3>1, <3>2 DEF Next, AccessStep, LinkStep, RecordsStep, RoomsStep, NotesStep, WhoStep, KeysStep
  <2> QED
    BY <2>1, PastAssumption, Past!HTypesStep, Past!HeadInvNext, Past!ChainInvNext
<1>3. Inv => HistorySafe
  <2> SUFFICES ASSUME Past!HTypes, Past!HeadInv, Past!ChainInv
               PROVE  History!HeadIntact /\ History!HistoryIsTrue /\ History!ChainIntact
    BY DEF HistorySafe
  <2>1. Past!HeadIntact /\ Past!LogIntact
    BY DEF Past!HeadInv, Past!ChainInv
  <2>2. Past!HistoryIsTrue /\ Past!ChainIntact
    BY <2>1, PastAssumption, Past!TypesTrue, Past!ChainOfLog
  <2>3. History!HeadIntact
    BY <2>1, PastTrees DEF History!HeadIntact, Past!HeadIntact
  <2>4. History!ChainIntact
    BY <2>2, PastTrees, PastLogs, Zenon DEF History!ChainIntact, Past!ChainIntact
  <2>5. ASSUME NEW l, NEW p PROVE History!getFileHistory(l, p) = Past!getFileHistory(l, p)
    <3> DEFINE
               walkH == History!walkableChain(l)
               chainH == IF walkH = <<>> THEN <<[id |-> History!head, pinned |-> FALSE]>> ELSE walkH
               atH(i) == History!undone(chainH, i - 1)[p]
               seenH == {chainH[i].id : i \in DOMAIN chainH}
               turnsH == {j \in DOMAIN chainH : j = 1 \/ atH(j) # atH(j - 1)}
               walkedH == {[id |-> chainH[i].id, hash |-> atH(i)] : i \in turnsH}
               keptH == {[id |-> e.id, hash |-> History!filesOf(e.id)[p]] :
                            e \in {x \in History!ToSet(l) : x.pinned /\ x.id \in pins \ seenH}}
               allH == {v \in walkedH \cup keptH : v.hash # NoVersion}
               walkP == Past!walkableChain(l)
               chainP == IF walkP = <<>> THEN <<[id |-> Past!head, pinned |-> FALSE]>> ELSE walkP
               atP(i) == Past!undone(chainP, i - 1)[p]
               seenP == {chainP[i].id : i \in DOMAIN chainP}
               turnsP == {j \in DOMAIN chainP : j = 1 \/ atP(j) # atP(j - 1)}
               walkedP == {[id |-> chainP[i].id, hash |-> atP(i)] : i \in turnsP}
               keptP == {[id |-> e.id, hash |-> Past!filesOf(e.id)[p]] :
                            e \in {x \in Past!ToSet(l) : x.pinned /\ x.id \in pins \ seenP}}
               allP == {v \in walkedP \cup keptP : v.hash # NoVersion}
    <3>1. walkH = walkP /\ History!ToSet(l) = Past!ToSet(l) /\ chainH = chainP
      BY PastTrees, PastLogs
    <3>2. \A i : atH(i) = atP(i)
      BY <3>1, PastTrees
    <3>3. \A i : History!filesOf(i) = Past!filesOf(i)
      BY PastTrees
    <3>4. seenH = seenP
      <4> HIDE DEF chainH, chainP
      <4> QED
        BY <3>1, Zenon
    <3>5. turnsH = turnsP
      <4> HIDE DEF chainH, chainP, atH, atP
      <4> QED
        BY <3>1, <3>2
    <3>6. walkedH = walkedP
      <4> HIDE DEF chainH, chainP, atH, atP, turnsH, turnsP
      <4> QED
        BY <3>1, <3>2, <3>5
    <3>7. keptH = keptP
      <4> HIDE DEF seenH, seenP
      <4> QED
        BY <3>1, <3>3, <3>4, Zenon
    <3>8. History!getFileHistory(l, p) = allH
      BY Zenon DEF History!getFileHistory
    <3>9. Past!getFileHistory(l, p) = allP
      BY Zenon DEF Past!getFileHistory
    <3> HIDE DEF walkedH, walkedP, keptH, keptP
    <3> QED
      BY <3>6, <3>7, <3>8, <3>9, Zenon
  <2>6. History!HistoryIsTrue
    BY <2>2, <2>5, PastTrees, PastLogs, Zenon
       DEF History!HistoryIsTrue, Past!HistoryIsTrue, History!Snapshot, Past!Snapshot
  <2> QED
    BY <2>3, <2>4, <2>6
<1> QED
  BY <1>1, <1>2, <1>3, PTL DEF Spec

-----------------------------------------------------------------------------
(* The keys, the same way.                                                   *)
Ring == INSTANCE Keyring_proofs WITH
    issued <- keysIssued, typed <- keysTyped,
    Holder <- {u1, u2}, Task <- {a1, a2, b1}, holder <- holderOf,
    Passphrase <- {p1, p2}, Weak <- {}, Conditional <- TRUE,
    MaxTyped <- 2, MaxCommands <- 1, MaxRestarts <- 1

(* Both instances start alike.                                               *)
LEMMA RingInit == Keys!KInit => Ring!KInit
BY DEF Keys!KInit, Ring!KInit, Keys!Blank, Ring!Blank, Keys!AtRest, Ring!AtRest

(* Both instances take the same steps.                                       *)
LEMMA RingNext == Keys!KNext => Ring!KNext
<1>1. \A t \in {a1, a2, b1} : Keys!OpenSession(t) => Ring!OpenSession(t)
  BY DEF Keys!OpenSession, Ring!OpenSession, Keys!AtRest, Ring!AtRest, Keys!kstore, Ring!kstore,
       Keys!step, Ring!step
<1>2. \A t \in {a1, a2, b1} : Keys!Command(t) => Ring!Command(t)
  BY DEF Keys!Command, Ring!Command, Keys!AtRest, Ring!AtRest, Keys!keep, Ring!keep, Keys!kstore,
       Ring!kstore, Keys!mgr, Ring!mgr, Keys!persists, Ring!persists, Keys!step, Ring!step
<1>3. \A t \in {a1, a2, b1} : Keys!Forget(t) => Ring!Forget(t)
  BY DEF Keys!Forget, Ring!Forget, Keys!AtRest, Ring!AtRest, Keys!kstore, Ring!kstore, Keys!step,
       Ring!step
<1>4. \A t \in {a1, a2, b1} : Keys!Prompt(t) => Ring!Prompt(t)
  BY DEF Keys!Prompt, Ring!Prompt, Keys!AtRest, Ring!AtRest, Keys!answered, Ring!answered, Keys!granted, Ring!granted,
       Keys!keep, Ring!keep, Keys!kstore, Ring!kstore, Keys!mgr, Ring!mgr, Keys!step, Ring!step
<1>5. \A t \in {a1, a2, b1} : Keys!LoadCached(t) => Ring!LoadCached(t)
  BY DEF Keys!LoadCached, Ring!LoadCached, Keys!AtRest, Ring!AtRest, Keys!answered, Ring!answered, Keys!granted, Ring!granted,
       Keys!keep, Ring!keep, Keys!kstore, Ring!kstore, Keys!mgr, Ring!mgr, Keys!peers, Ring!peers,
       Keys!settle, Ring!settle, Keys!step, Ring!step, Keys!to, Ring!to
<1>6. \A t \in {a1, a2, b1} : Keys!Answer(t) => Ring!Answer(t)
  BY DEF Keys!Answer, Ring!Answer, Keys!AtRest, Ring!AtRest, Keys!answered, Ring!answered, Keys!granted, Ring!granted,
       Keys!keep, Ring!keep, Keys!kstore, Ring!kstore, Keys!mgr, Ring!mgr, Keys!peers, Ring!peers, Keys!settle,
       Ring!settle
<1>7. \A t \in {a1, a2, b1} : Keys!Resolve(t) => Ring!Resolve(t)
  BY DEF Keys!Resolve, Ring!Resolve, Keys!AtRest, Ring!AtRest, Keys!keep, Ring!keep, Keys!kstore,
       Ring!kstore, Keys!mgr, Ring!mgr, Keys!step, Ring!step
<1>8. \A t \in {a1, a2, b1} : Keys!ReadSalt(t) => Ring!ReadSalt(t)
  BY DEF Keys!ReadSalt, Ring!ReadSalt, Keys!AtRest, Ring!AtRest, Keys!kstore, Ring!kstore, Keys!mgr,
       Ring!mgr, Keys!step, Ring!step
<1>9. \A t \in {a1, a2, b1} : Keys!PutSalt(t) => Ring!PutSalt(t)
  BY DEF Keys!PutSalt, Ring!PutSalt, Keys!putIfAbsent, Ring!putIfAbsent, Keys!step, Ring!step,
       Keys!to, Ring!to
<1>10. \A t \in {a1, a2, b1} : Keys!RereadSalt(t) => Ring!RereadSalt(t)
  BY DEF Keys!RereadSalt, Ring!RereadSalt, Keys!kstore, Ring!kstore, Keys!step, Ring!step
<1>11. \A t \in {a1, a2, b1} : Keys!ReadKeyfile(t) => Ring!ReadKeyfile(t)
  BY DEF Keys!ReadKeyfile, Ring!ReadKeyfile, Keys!AtRest, Ring!AtRest, Keys!derived, Ring!derived,
       Keys!failed, Ring!failed, Keys!keep, Ring!keep, Keys!kstore, Ring!kstore, Keys!mgr, Ring!mgr,
       Keys!peers, Ring!peers, Keys!refused, Ring!refused, Keys!resolved, Ring!resolved, Keys!step,
       Ring!step, Keys!stillCurrent, Ring!stillCurrent, Keys!to, Ring!to, Keys!unwraps,
       Ring!unwraps
<1>12. \A t \in {a1, a2, b1} : Keys!CreateKeyfile(t) => Ring!CreateKeyfile(t)
  BY DEF Keys!CreateKeyfile, Ring!CreateKeyfile, Keys!putIfAbsent, Ring!putIfAbsent, Keys!step,
       Ring!step, Keys!to, Ring!to
<1>13. \A t \in {a1, a2, b1} : Keys!RereadKeyfile(t) => Ring!RereadKeyfile(t)
  BY DEF Keys!RereadKeyfile, Ring!RereadKeyfile, Keys!AtRest, Ring!AtRest, Keys!derived, Ring!derived,
       Keys!keep, Ring!keep, Keys!kstore, Ring!kstore, Keys!mgr, Ring!mgr, Keys!peers, Ring!peers,
       Keys!refused, Ring!refused, Keys!resolved, Ring!resolved, Keys!stillCurrent,
       Ring!stillCurrent, Keys!unwraps, Ring!unwraps
<1>14. \A t \in {a1, a2, b1} : Keys!Refused(t) => Ring!Refused(t)
  BY DEF Keys!Refused, Ring!Refused, Keys!AtRest, Ring!AtRest, Keys!keep, Ring!keep, Keys!kstore,
       Ring!kstore, Keys!mgr, Ring!mgr, Keys!peers, Ring!peers, Keys!refused, Ring!refused,
       Keys!resolved, Ring!resolved, Keys!step, Ring!step
<1>15. \A t \in {a1, a2, b1} : Keys!Save(t) => Ring!Save(t)
  BY DEF Keys!Save, Ring!Save, Keys!AtRest, Ring!AtRest, Keys!kstore, Ring!kstore, Keys!step,
       Ring!step
<1>16. \A t \in {a1, a2, b1} : Keys!ReadToRotate(t) => Ring!ReadToRotate(t)
  BY DEF Keys!ReadToRotate, Ring!ReadToRotate, Keys!AtRest, Ring!AtRest, Keys!kstore, Ring!kstore,
       Keys!step, Ring!step, Keys!unwraps, Ring!unwraps
<1>17. \A t \in {a1, a2, b1} : Keys!Rewrap(t) => Ring!Rewrap(t)
  BY DEF Keys!Rewrap, Ring!Rewrap, Keys!step, Ring!step, Keys!to, Ring!to
<1>18. \A t \in {a1, a2, b1} : Keys!Rotated(t) => Ring!Rotated(t)
  BY DEF Keys!Rotated, Ring!Rotated, Keys!adopt, Ring!adopt, Keys!AtRest, Ring!AtRest, Keys!keep, Ring!keep, Keys!kstore,
       Ring!kstore, Keys!mgr, Ring!mgr, Keys!step, Ring!step
<1>19. \A d \in {u1, u2} : Keys!Restart(d) => Ring!Restart(d)
  BY DEF Keys!Restart, Ring!Restart, Keys!AtRest, Ring!AtRest, Keys!Blank, Ring!Blank, Keys!kstore,
       Ring!kstore
<1>20. \A t \in {a1, a2, b1} : Keys!Transfer(t) => Ring!Transfer(t)
  BY DEF Keys!Transfer, Ring!Transfer, Keys!AtRest, Ring!AtRest, Keys!kstore, Ring!kstore,
       Keys!mgr, Ring!mgr, Keys!step, Ring!step
<1>21. \A t \in {a1, a2, b1} : Keys!Import(t) => Ring!Import(t)
  BY DEF Keys!Import, Ring!Import, Keys!adopt, Ring!adopt, Keys!AtRest, Ring!AtRest, Keys!keep,
       Ring!keep, Keys!kstore, Ring!kstore, Keys!mgr, Ring!mgr, Keys!step, Ring!step
<1> QED
  BY <1>1, <1>2, <1>3, <1>4, <1>5, <1>6, <1>7, <1>8, <1>9, <1>10, <1>11, <1>12, <1>13,
     <1>14, <1>15, <1>16, <1>17, <1>18, <1>19, <1>20, <1>21
     DEF Keys!KNext, Ring!KNext

(* What the proofs assume of the keyring's constants holds of the run's.     *)
LEMMA RingAssumption == Ring!KeyringAssumption
BY SharedAssumption DEF Ring!KeyringAssumption, holderOf

(* One data key, remembered and cached only as it was proven: the            *)
(* keyring's two theorems, of the keyring the run checks.                    *)
THEOREM KeyringHolds == Spec => []KeyringSafe
<1> DEFINE Inv == part = "keys" => Ring!CacheInv /\ Ring!KeyInv
<1>1. Init => Inv
  BY RingInit, RingAssumption, Ring!CacheInit, Ring!KeyInit DEF Init
<1>2. Inv /\ [Next]_allvars => Inv'
  <2> SUFFICES ASSUME Inv, [Next]_allvars, part' = "keys" PROVE (Ring!CacheInv /\ Ring!KeyInv)'
    OBVIOUS
  <2>1. part = "keys" /\ [Ring!KNext]_Ring!kvars
    <3>1. CASE KeysStep
      BY <3>1, RingNext DEF KeysStep
    <3>2. CASE UNCHANGED allvars
      BY <3>2 DEF allvars, keysvars, Ring!kvars, Ring!kstore
    <3>3. part' = part
      BY DEF Next, HistoryStep, AccessStep, LinkStep, RecordsStep, RoomsStep, NotesStep, WhoStep, KeysStep, allvars
    <3> QED
      BY <3>1, <3>2, <3>3 DEF Next, HistoryStep, AccessStep, LinkStep, RecordsStep, RoomsStep, NotesStep, WhoStep
  <2> QED
    BY <2>1, RingAssumption, Ring!CacheStep, Ring!KeyStep
<1>3. Inv => KeyringSafe
  <2>1. Ring!CacheInv => Keys!KeyOfItsPassphrase /\ Keys!OnlyProvenOnDisk
    BY DEF Ring!CacheInv, Ring!ManagersSafe, Ring!ManagerSafe, Ring!OnlyProvenOnDisk, Keys!KeyOfItsPassphrase,
       Keys!OnlyProvenOnDisk
  <2>2. Ring!KeyInv => Keys!OneDataKey
    BY DEF Ring!KeyInv, Ring!IssuedFits, Ring!Holds, Keys!OneDataKey
  <2> QED
    BY <2>1, <2>2 DEF KeyringSafe
<1> QED
  BY <1>1, <1>2, <1>3, PTL DEF Spec
=============================================================================
