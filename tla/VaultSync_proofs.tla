--------------------------- MODULE VaultSync_proofs ---------------------------
(* Theorems about VaultSync and their proofs: its types and operations, then *)
(* what a device has held, then what serial publishers promise.              *)
EXTENDS VaultSync, TLAPS

-----------------------------------------------------------------------------
(* Operators of SyncDiff stay within their types.                           *)

(* Advancing some paths of a tree gives a tree.                             *)
LEMMA AdvanceFilesType ==
    ASSUME NEW f \in Files, NEW g \in Files, NEW paths
    PROVE  advanceFiles(f, g, paths) \in Files
BY DEF advanceFiles, Files

(* The empty tree is one.                                                   *)
LEMMA NoFilesType == NoFiles \in Files
BY DEF NoFiles, Files, Content

(* A tree's blobs are hashes.                                               *)
LEMMA HashesOfType ==
    ASSUME NEW f \in Files
    PROVE  hashesOf(f) \subseteq Hash
BY DEF hashesOf, Files, Content

(* The classes of a comparison are sets of paths.                           *)
LEMMA ClassesArePaths ==
    ASSUME NEW l, NEW r, NEW b
    PROVE  /\ localChanges(l, r, b) \subseteq Path
           /\ remoteChanges(l, r, b) \subseteq Path
           /\ conflicts(l, r, b) \subseteq Path
           /\ converged(l, r, b) \subseteq Path
           /\ publishedDelta(l, r) \subseteq Path
BY DEF localChanges, remoteChanges, conflicts, converged, bothChanged, publishedDelta

(* Sameness of contents is an equivalence, and only absence is none.        *)
LEMMA SameContentEquivalence ==
    ASSUME NEW a \in Content, NEW b \in Content, NEW c \in Content
    PROVE  /\ sameContent(a, a)
           /\ sameContent(a, b) => sameContent(b, a)
           /\ sameContent(a, b) /\ sameContent(b, c) => sameContent(a, c)
           /\ sameContent(a, NoFile) <=> a = NoFile
BY NoFileAssumption DEF sameContent, Content

-----------------------------------------------------------------------------
(* Types.  Ids point into the list of manifests, a parent precedes its      *)
(* child, and what a push still has to upload are files.                    *)

OpOK(o, n) ==
    /\ o \in Operation
    /\ o.base \in 0..n /\ o.mine \in 0..n
    /\ o.kind = "push" => \A p \in o.todo : o.snap[p] \in Hash

StoreOK ==
    /\ heads \in Seq(Manifest)
    /\ \A i \in 1..Len(heads) : heads[i].parent < i
    /\ objects \subseteq Hash

LocalOK ==
    /\ disk \in [Device -> Files]
    /\ baseline \in [Device -> [id : 0..Len(heads), files : Files]]
    /\ published \in [Device -> 0..Len(heads)]
    /\ uploads \in [Device -> SUBSET Hash]
    /\ late \in [Device -> SUBSET LateWrite]

CountsOK ==
    /\ edits \in 0..MaxEdits /\ keeps \in 0..MaxKeeps /\ faults \in 0..MaxFaults
    /\ chosen \in [Device -> SUBSET Path]

HistoryOK ==
    /\ held \in [Device -> [Path -> SUBSET Content]]
    /\ deleted \subseteq Path
    /\ won \subseteq Nat

OpsOK == op \in [Device -> Operation] /\ \A d \in Device : OpOK(op[d], Len(heads))

TypeInv == StoreOK /\ LocalOK /\ OpsOK /\ CountsOK /\ HistoryOK

(* The stronger types imply the type invariant.                             *)
LEMMA TypeInvImpliesTypeOK == TypeInv => TypeOK
BY DEF TypeInv, TypeOK, StoreOK, LocalOK, OpsOK, CountsOK, HistoryOK

(* The tree of a manifest, and its parent, which precedes it.               *)
LEMMA FilesAtType ==
    ASSUME StoreOK, NEW n \in 0..Len(heads)
    PROVE  /\ FilesAt(n) \in Files
           /\ ParentOf(n) \in 0..Len(heads)
           /\ n # 0 => ParentOf(n) < n
<1>1. CASE n = 0
  BY <1>1, NoFilesType DEF FilesAt, ParentOf, StoreOK
<1>2. CASE n # 0
  <2>1. n \in 1..Len(heads)
    BY <1>2
  <2>2. heads[n] \in Manifest
    BY <2>1 DEF StoreOK
  <2> QED
    BY <1>2, <2>1, <2>2 DEF FilesAt, ParentOf, StoreOK, Manifest
<1> QED
  BY <1>1, <1>2

(* A device between operations.                                             *)
LEMMA IdleType == ASSUME NEW n \in Nat PROVE OpOK(Idle, n) /\ OpOK(Recomparing, n)
BY NoFilesType DEF Idle, Recomparing, Operation, OpOK, Kind, Pc

(* An operation that starts.                                                *)
LEMMA BeginType ==
    ASSUME NEW n \in Nat, NEW kind \in Kind, NEW base \in 0..n, NEW snap \in Files,
           NEW todo \in SUBSET Path, NEW settled \in SUBSET Path, NEW next \in Files,
           kind = "push" => \A p \in todo : snap[p] \in Hash
    PROVE  OpOK(Begin(kind, base, snap, todo, settled, next), n)
BY DEF Begin, Operation, OpOK, Kind, Pc

(* One device's operation moves on, the others' stay.                       *)
LEMMA OpsStep ==
    ASSUME OpsOK, StoreOK, NEW d \in Device, NEW o, OpOK(o, Len(heads)),
           op' = [op EXCEPT ![d] = o], UNCHANGED heads
    PROVE  OpsOK'
BY DEF OpsOK, OpOK

(* A comparison notes which manifest it saw.                                *)
LEMMA CompareType ==
    ASSUME StoreOK, LocalOK, NEW d \in Device, NEW n \in 0..Len(heads), Compare(d, n)
    PROVE  published' \in [Device -> 0..Len(heads)]
BY DEF Compare, StoreOK, LocalOK, publishedAfter

(* A pull or accept goes on with one path less.                             *)
LEMMA TouchingType ==
    ASSUME OpsOK, StoreOK, NEW d \in Device, NEW p \in Path, op' = touching(d, p),
           UNCHANGED heads
    PROVE  OpsOK'
<1>1. CASE op[d].kind \in {"pull", "accept"}
  <2> DEFINE o == [op[d] EXCEPT !.touched = @ \cup {p}]
  <2>1. op' = [op EXCEPT ![d] = o]
    BY <1>1 DEF touching, OpsOK
  <2>2. OpOK(op[d], Len(heads))
    BY DEF OpsOK
  <2>3. OpOK(o, Len(heads))
    BY <2>2 DEF OpOK, Operation
  <2> QED
    BY <2>1, <2>3, OpsStep
<1>2. CASE op[d].kind \notin {"pull", "accept"}
  BY <1>2 DEF touching, OpsOK
<1> QED
  BY <1>1, <1>2

(* A file is written, and its version held.                                 *)
LEMMA WrittenType ==
    ASSUME LocalOK, HistoryOK, NEW d \in Device, NEW p \in Path, NEW c \in Content,
           written(d, p, c)
    PROVE  /\ disk' \in [Device -> Files]
           /\ late' \in [Device -> SUBSET LateWrite]
           /\ held' \in [Device -> [Path -> SUBSET Content]]
<1>1. disk' \in [Device -> Files]
  BY DEF written, LocalOK, Files
<1>2. late' \in [Device -> SUBSET LateWrite]
  BY DEF written, LocalOK
<1>3. held' \in [Device -> [Path -> SUBSET Content]]
  BY DEF written, HistoryOK
<1> QED
  BY <1>1, <1>2, <1>3

(* At first.                                                                *)
LEMMA InitTypeInv == Init => TypeInv
<1> SUFFICES ASSUME Init PROVE TypeInv
  OBVIOUS
<1>1. heads \in Seq(Manifest) /\ (\A i \in 1..Len(heads) : heads[i].parent < i)
      /\ disk \in [Device -> Files]
      /\ baseline \in [Device -> [id : 0..Len(heads), files : Files]]
  <2>1. CASE ~StartSynced
    <3>1. heads = << >> /\ disk \in [Device -> Files]
          /\ baseline = [d \in Device |-> [id |-> 0, files |-> NoFiles]]
      BY <2>1 DEF Init
    <3> QED
      BY <3>1, NoFilesType
  <2>2. CASE StartSynced
    <3>1. PICK d \in Device, files \in Files :
            /\ heads = <<[parent |-> 0, by |-> d, files |-> files]>>
            /\ disk = [e \in Device |-> files]
            /\ baseline = [e \in Device |-> [id |-> 1, files |-> files]]
      BY <2>2 DEF Init
    <3>2. [parent |-> 0, by |-> d, files |-> files] \in Manifest
      BY DEF Manifest
    <3> QED
      BY <3>1, <3>2
  <2> QED
    BY <2>1, <2>2, BoundsAssumption
<1>2. objects \subseteq Hash
  BY HashesOfType DEF Init
<1>3. OpsOK
  BY <1>1, IdleType DEF Init, OpsOK, OpOK
<1>4. LocalOK
  BY <1>1 DEF Init, LocalOK
<1>5. HistoryOK
  BY <1>1 DEF Init, HistoryOK, Files, Content
<1> QED
  BY <1>1, <1>2, <1>3, <1>4, <1>5, BoundsAssumption DEF Init, TypeInv, StoreOK, CountsOK

(* A keep starts on paths its user chose that conflict in its comparison.    *)
LEMMA KeepShape ==
    ASSUME NEW d \in Device, StartKeep(d)
    PROVE  \E n \in 0..Len(heads), paths \in SUBSET Path :
             /\ Compare(d, n)
             /\ paths \subseteq conflictsOf(d, n)
             /\ op' = [op EXCEPT ![d] = Begin("keep", n, disk[d], paths, {}, FilesAt(n))]
<1>1. PICK n \in 0..Len(heads) :
        /\ Compare(d, n)
        /\ op' = [op EXCEPT ![d] = Begin("keep", n, disk[d], chosen[d] \cap conflictsOf(d, n),
                                        {}, FilesAt(n))]
  BY DEF StartKeep
<1>2. chosen[d] \cap conflictsOf(d, n) \in SUBSET Path
  BY ClassesArePaths DEF conflictsOf
<1> QED
  BY <1>1, <1>2

(* A device's steps keep the types.                                         *)
LEMMA StepTypeInv ==
    ASSUME TypeInv, NEW d \in Device, Step(d)
    PROVE  TypeInv'
<1> USE DEF store, local, input, history
<1>a. StoreOK /\ LocalOK /\ OpsOK /\ CountsOK /\ HistoryOK
  BY DEF TypeInv
<1>b. op[d] \in Operation /\ OpOK(op[d], Len(heads)) /\ Len(heads) \in Nat
  BY <1>a DEF OpsOK, StoreOK
<1>c. ASSUME NEW o, OpOK(o, Len(heads)), op' = [op EXCEPT ![d] = o], UNCHANGED heads
      PROVE  OpsOK'
  BY <1>a, <1>c, OpsStep
<1>d. ASSUME op' = [op EXCEPT ![d] = Idle] \/ op' = [op EXCEPT ![d] = Recomparing],
             UNCHANGED heads
      PROVE  OpsOK'
  BY <1>a, <1>b, <1>c, <1>d, IdleType
<1>e. ASSUME NEW n \in 0..Len(heads), Compare(d, n)
      PROVE  published' \in [Device -> 0..Len(heads)] /\ FilesAt(n) \in Files
  BY <1>a, <1>e, CompareType, FilesAtType
<1>f. ASSUME OpsOK', UNCHANGED <<store, local, input, history>>
      PROVE  TypeInv'
  BY <1>a, <1>f DEF TypeInv, StoreOK, LocalOK, CountsOK, HistoryOK
<1>g. ASSUME NEW p \in Path, NEW c \in Content, written(d, p, c)
      PROVE  /\ disk' \in [Device -> Files]
             /\ late' \in [Device -> SUBSET LateWrite]
             /\ held' \in [Device -> [Path -> SUBSET Content]]
  BY <1>a, <1>g, WrittenType
<1>h. FilesAt(op[d].base) \in Files /\ \A p \in Path : incoming(d, p) \in Content
  BY <1>a, <1>b, FilesAtType DEF OpOK, incoming, Files

<1>1. ASSUME NEW p \in Path, NEW c \in Content, Edit(d, p, c)
      PROVE  TypeInv'
  <2>1. OpsOK'
    BY <1>1, <1>a, TouchingType DEF Edit
  <2>2. edits' \in 0..MaxEdits /\ deleted' \subseteq Path
    BY <1>1, <1>a, BoundsAssumption DEF Edit, CountsOK, HistoryOK
  <2>3. /\ disk' \in [Device -> Files] /\ late' \in [Device -> SUBSET LateWrite]
        /\ held' \in [Device -> [Path -> SUBSET Content]]
    BY <1>1, <1>g DEF Edit
  <2> QED
    BY <1>1, <2>1, <2>2, <2>3, <1>a DEF Edit, TypeInv, StoreOK, LocalOK, CountsOK, HistoryOK

<1>2. ASSUME Refresh(d) PROVE TypeInv'
  <2>1. PICK n \in 0..Len(heads) :
          /\ Compare(d, n)
          /\ baseline' = baseline \/
             baseline' = [baseline EXCEPT ![d] =
               [id |-> n,
                files |-> advanceFiles(baseline[d].files, FilesAt(n), convergedOf(d, n))]]
    BY <1>2, <1>a DEF Refresh, refreshed, refreshedTo, LocalOK
  <2>2. published' \in [Device -> 0..Len(heads)] /\ FilesAt(n) \in Files
    BY <2>1, <1>e
  <2>3. advanceFiles(baseline[d].files, FilesAt(n), convergedOf(d, n)) \in Files
    BY <1>a, <2>2, AdvanceFilesType DEF LocalOK
  <2>4. baseline' \in [Device -> [id : 0..Len(heads), files : Files]]
    <3>1. [id |-> n, files |-> advanceFiles(baseline[d].files, FilesAt(n), convergedOf(d, n))]
          \in [id : 0..Len(heads), files : Files]
      BY <2>3
    <3> QED
      BY <1>a, <2>1, <3>1 DEF LocalOK
  <2>5. OpsOK'
    BY <1>2, <1>a DEF Refresh, OpsOK, OpOK
  <2> QED
    BY <1>2, <1>a, <2>2, <2>4, <2>5 DEF Refresh, TypeInv, StoreOK, LocalOK, CountsOK, HistoryOK

<1>3. ASSUME Recompare(d) PROVE TypeInv'
  <2>1. PICK n \in 0..Len(heads) :
          /\ Compare(d, n) \/ published' = published
          /\ baseline' = baseline \/
             baseline' = [baseline EXCEPT ![d] =
               [id |-> n,
                files |-> advanceFiles(baseline[d].files, FilesAt(n), convergedOf(d, n))]]
    <3>1. CASE refreshed(d)
      BY <3>1, <1>a DEF refreshed, refreshedTo, LocalOK
    <3>2. CASE compareRefused(d)
      <4>1. 0 \in 0..Len(heads)
        BY <1>a DEF StoreOK
      <4> QED
        BY <3>2, <4>1 DEF compareRefused
    <3> QED
      BY <1>3, <3>1, <3>2 DEF Recompare
  <2>2. published' \in [Device -> 0..Len(heads)] /\ FilesAt(n) \in Files
    BY <2>1, <1>a, <1>e, FilesAtType DEF LocalOK
  <2>3. advanceFiles(baseline[d].files, FilesAt(n), convergedOf(d, n)) \in Files
    BY <1>a, <2>2, AdvanceFilesType DEF LocalOK
  <2>4. baseline' \in [Device -> [id : 0..Len(heads), files : Files]]
    <3>1. [id |-> n, files |-> advanceFiles(baseline[d].files, FilesAt(n), convergedOf(d, n))]
          \in [id : 0..Len(heads), files : Files]
      BY <2>3
    <3> QED
      BY <1>a, <2>1, <3>1 DEF LocalOK
  <2>5. OpsOK'
    BY <1>3, <1>d DEF Recompare
  <2> QED
    BY <1>3, <1>a, <2>2, <2>4, <2>5 DEF Recompare, TypeInv, StoreOK, LocalOK, CountsOK, HistoryOK

<1>5. ASSUME StartPush(d) PROVE TypeInv'
  <2>1. PICK n \in 0..Len(heads), paths \in SUBSET Path :
          /\ paths \subseteq localOf(d, n)
          /\ Compare(d, n)
          /\ op' = [op EXCEPT ![d] =
                Begin("push", n, disk[d],
                      {p \in paths : disk[d][p] \in Hash \ hashesOf(FilesAt(n))},
                      publishedDelta(FilesAt(n), advanceFiles(FilesAt(n), disk[d], paths)),
                      advanceFiles(FilesAt(n), disk[d], paths))]
    BY <1>5, ClassesArePaths DEF StartPush, localOf
  <2>2. published' \in [Device -> 0..Len(heads)] /\ FilesAt(n) \in Files
    BY <2>1, <1>e
  <2> DEFINE next == advanceFiles(FilesAt(n), disk[d], paths)
             todo == {p \in paths : disk[d][p] \in Hash \ hashesOf(FilesAt(n))}
  <2>3. disk[d] \in Files /\ next \in Files /\ publishedDelta(FilesAt(n), next) \subseteq Path
    BY <1>a, <2>2, AdvanceFilesType, ClassesArePaths DEF LocalOK
  <2>4. todo \subseteq Path /\ \A p \in todo : disk[d][p] \in Hash
    BY ClassesArePaths DEF localOf
  <2>5. OpOK(Begin("push", n, disk[d], todo, publishedDelta(FilesAt(n), next), next), Len(heads))
    BY <1>b, <2>3, <2>4, BeginType DEF Kind
  <2>6. OpsOK'
    BY <1>5, <2>1, <2>5, <1>c DEF StartPush
  <2> QED
    BY <1>5, <1>a, <2>2, <2>6 DEF StartPush, TypeInv, StoreOK, LocalOK, CountsOK, HistoryOK

<1>6. ASSUME NEW p \in Path, Upload(d, p)
      PROVE  TypeInv'
  <2> DEFINE o == [op[d] EXCEPT !.todo = @ \ uploaded(d, p)]
  <2>1. op' = [op EXCEPT ![d] = o]
    BY <1>6, <1>a DEF Upload, OpsOK
  <2>2. OpOK(o, Len(heads))
    BY <1>6, <1>b DEF Upload, OpOK, Operation
  <2>3. OpsOK'
    BY <1>6, <2>1, <2>2, <1>c DEF Upload
  <2>4. op[d].snap[p] \in Hash
    BY <1>6, <1>b DEF Upload, running, OpOK
  <2>5. objects' \subseteq Hash /\ uploads' \in [Device -> SUBSET Hash]
    BY <1>6, <1>a, <2>4 DEF Upload, StoreOK, LocalOK
  <2> QED
    BY <1>6, <1>a, <2>3, <2>5 DEF Upload, TypeInv, StoreOK, LocalOK, CountsOK, HistoryOK

<1>7. ASSUME NEW p \in Path, UploadResumed(d, p)
      PROVE  TypeInv'
  <2> DEFINE o == [op[d] EXCEPT !.todo = @ \ uploaded(d, p)]
  <2>1. op' = [op EXCEPT ![d] = o]
    BY <1>7, <1>a DEF UploadResumed, OpsOK
  <2>2. OpOK(o, Len(heads))
    BY <1>7, <1>b DEF UploadResumed, OpOK, Operation
  <2>3. OpsOK'
    BY <1>7, <2>1, <2>2, <1>c DEF UploadResumed
  <2> QED
    BY <1>7, <2>3, <1>f DEF UploadResumed

<1>8. ASSUME NEW p \in Path, UploadMismatch(d, p)
      PROVE  TypeInv'
  <2>1. OpsOK'
    BY <1>8, <1>d DEF UploadMismatch
  <2> QED
    BY <1>8, <2>1, <1>f DEF UploadMismatch

<1>9. ASSUME StartKeep(d) PROVE TypeInv'
  <2>1. PICK n \in 0..Len(heads), paths \in SUBSET Path :
          /\ Compare(d, n)
          /\ op' = [op EXCEPT ![d] = Begin("keep", n, disk[d], paths, {}, FilesAt(n))]
    BY <1>9, KeepShape
  <2>2. published' \in [Device -> 0..Len(heads)] /\ FilesAt(n) \in Files
    BY <2>1, <1>e
  <2>3. disk[d] \in Files
    BY <1>a DEF LocalOK
  <2>4. OpOK(Begin("keep", n, disk[d], paths, {}, FilesAt(n)), Len(heads))
    BY <1>b, <2>2, <2>3, BeginType DEF Kind
  <2>5. OpsOK'
    BY <1>9, <2>1, <2>4, <1>c DEF StartKeep
  <2>6. chosen' \in [Device -> SUBSET Path]
    BY <1>9, <1>a DEF StartKeep, CountsOK
  <2> QED
    BY <1>9, <1>a, <2>2, <2>5, <2>6 DEF StartKeep, TypeInv, StoreOK, LocalOK, CountsOK, HistoryOK

<1>10. ASSUME NEW p \in Path, KeepRead(d, p)
      PROVE  TypeInv'
  <2> DEFINE c == disk[d][p]
             known == hashesOf(FilesAt(op[d].base)) \cup (uploads[d] \cap objects)
             put == {c} \cap (Hash \ known)
             o == [op[d] EXCEPT !.todo = @ \ {p}, !.settled = @ \cup {p}, !.next[p] = c]
  <2>1. op' = [op EXCEPT ![d] = o]
    BY <1>10, <1>a DEF KeepRead, OpsOK, Operation
  <2>2. c \in Content
    BY <1>a DEF LocalOK, Files
  <2>3. OpOK(o, Len(heads))
    <3>1. op[d].kind # "push"
      BY <1>10 DEF KeepRead, running
    <3>2. [op[d].next EXCEPT ![p] = c] \in Files
      BY <1>b, <2>2 DEF Operation, Files
    <3> QED
      BY <3>1, <3>2, <1>b DEF OpOK, Operation
  <2>4. OpsOK'
    BY <1>10, <2>1, <2>3, <1>c DEF KeepRead
  <2>5. objects' \subseteq Hash /\ uploads' \in [Device -> SUBSET Hash]
    BY <1>10, <1>a DEF KeepRead, StoreOK, LocalOK
  <2> QED
    BY <1>10, <1>a, <2>4, <2>5 DEF KeepRead, TypeInv, StoreOK, LocalOK, CountsOK, HistoryOK

<1>11. ASSUME Precheck(d) PROVE TypeInv'
  <2> DEFINE o == [op[d] EXCEPT !.pc = "put"]
  <2>1. op' = [op EXCEPT ![d] = o]
    BY <1>11, <1>a DEF Precheck, OpsOK
  <2>2. OpOK(o, Len(heads))
    BY <1>b DEF OpOK, Operation, Pc
  <2>3. OpsOK'
    BY <1>11, <2>1, <2>2, <1>c DEF Precheck
  <2>4. published' \in [Device -> 0..Len(heads)]
    BY <1>11, <1>b, <1>e DEF Precheck, OpOK
  <2> QED
    BY <1>11, <1>a, <2>3, <2>4 DEF Precheck, TypeInv, StoreOK, LocalOK, CountsOK, HistoryOK

<1>12. ASSUME PrecheckFails(d) PROVE TypeInv'
  <2>1. OpsOK'
    BY <1>12, <1>d DEF PrecheckFails
  <2>2. published' \in [Device -> 0..Len(heads)] /\ baseline' = baseline
    BY <1>12, <1>a, <1>e DEF PrecheckFails, compareRefused, LocalOK
  <2> QED
    BY <1>12, <1>a, <2>1, <2>2 DEF PrecheckFails, TypeInv, StoreOK, LocalOK, CountsOK, HistoryOK

<1>14. ASSUME Put(d) PROVE TypeInv'
  <2> DEFINE m == [parent |-> op[d].base, by |-> d, files |-> op[d].next]
             o == [op[d] EXCEPT !.pc = "verify", !.mine = Len(heads) + 1]
  <2>1. m \in Manifest
    BY <1>b DEF Operation, Manifest
  <2>2. heads' = Append(heads, m) /\ Len(heads') = Len(heads) + 1
    BY <1>14, <1>a, <2>1 DEF Put, StoreOK
  <2>3. StoreOK'
    <3>1. heads' \in Seq(Manifest)
      BY <1>a, <2>1, <2>2 DEF StoreOK
    <3>2. ASSUME NEW i \in 1..Len(heads') PROVE heads'[i].parent < i
      <4>1. CASE i = Len(heads) + 1
        <5>1. heads'[i] = m
          BY <4>1, <2>1, <2>2, <1>a DEF StoreOK
        <5> QED
          BY <5>1, <4>1, <1>b DEF OpOK
      <4>2. CASE i \in 1..Len(heads)
        BY <4>2, <2>1, <2>2, <1>a DEF StoreOK
      <4> QED
        BY <4>1, <4>2, <2>2, <1>b
    <3>3. objects' \subseteq Hash
      BY <1>14, <1>a DEF Put, StoreOK
    <3> QED
      BY <3>1, <3>2, <3>3 DEF StoreOK
  <2>4. op' = [op EXCEPT ![d] = o]
    BY <1>14, <1>a DEF Put, OpsOK
  <2>5. OpOK(o, Len(heads'))
    <3>1. Len(heads) + 1 \in Nat /\ op[d].base \in 0..(Len(heads) + 1)
      BY <1>b DEF OpOK
    <3>2. o \in Operation /\ o.base = op[d].base /\ o.mine = Len(heads) + 1
          /\ o.kind = op[d].kind /\ o.todo = op[d].todo /\ o.snap = op[d].snap
      BY <1>b, <3>1 DEF Operation, Pc
    <3> HIDE DEF o
    <3> QED
      BY <1>b, <2>2, <3>1, <3>2 DEF OpOK
  <2>6. OpsOK'
    <3>1. \A e \in Device : OpOK(op[e], Len(heads'))
      BY <1>a, <1>b, <2>2 DEF OpsOK, OpOK
    <3>2. op' \in [Device -> Operation]
      BY <1>a, <2>4, <2>5 DEF OpsOK, OpOK
    <3> QED
      BY <3>1, <3>2, <2>4, <2>5, <1>a DEF OpsOK
  <2>7. LocalOK'
    <3>1. 0..Len(heads) \subseteq 0..Len(heads')
      BY <2>2, <1>b
    <3> QED
      BY <1>14, <1>a, <3>1 DEF Put, LocalOK
  <2> QED
    BY <1>14, <1>a, <2>3, <2>6, <2>7 DEF Put, TypeInv, CountsOK, HistoryOK

<1>15. ASSUME Verify(d) PROVE TypeInv'
  <2> DEFINE o == [op[d] EXCEPT !.pc = "persist"]
  <2>1. op' = [op EXCEPT ![d] = o]
    BY <1>15, <1>a DEF Verify, OpsOK
  <2>2. OpOK(o, Len(heads))
    BY <1>b DEF OpOK, Operation, Pc
  <2>3. OpsOK'
    BY <1>15, <2>1, <2>2, <1>c DEF Verify
  <2>4. published' \in [Device -> 0..Len(heads)] /\ uploads' \in [Device -> SUBSET Hash]
    BY <1>15, <1>a, <1>b DEF Verify, LocalOK, OpOK
  <2>5. won' \subseteq Nat
    BY <1>15, <1>a, <1>b DEF Verify, HistoryOK, OpOK
  <2> QED
    BY <1>15, <1>a, <2>3, <2>4, <2>5 DEF Verify, TypeInv, StoreOK, LocalOK, CountsOK, HistoryOK

<1>16. ASSUME VerifyFails(d) PROVE TypeInv'
  <2>1. OpsOK'
    BY <1>16, <1>d DEF VerifyFails
  <2>2. published' \in [Device -> 0..Len(heads)]
    BY <1>16, <1>a, <1>b DEF VerifyFails, publishedAfter, LocalOK
  <2> QED
    BY <1>16, <1>a, <2>1, <2>2 DEF VerifyFails, TypeInv, StoreOK, LocalOK, CountsOK, HistoryOK

<1>17. ASSUME PersistPush(d) PROVE TypeInv'
  <2>1. OpsOK'
    BY <1>17, <1>d DEF PersistPush
  <2>2. advanceFiles(baseline[d].files, op[d].next, op[d].settled) \in Files
    BY <1>a, <1>b, AdvanceFilesType DEF LocalOK, Operation
  <2>3. baseline' \in [Device -> [id : 0..Len(heads), files : Files]]
    BY <1>17, <1>a, <1>b, <2>2 DEF PersistPush, LocalOK, OpOK
  <2> QED
    BY <1>17, <1>a, <2>1, <2>3 DEF PersistPush, TypeInv, StoreOK, LocalOK, CountsOK, HistoryOK

<1>18. ASSUME StartPull(d) PROVE TypeInv'
  <2>1. PICK n \in 1..Len(heads), paths \in SUBSET Path :
          /\ paths \subseteq remoteOf(d, n)
          /\ Compare(d, n)
          /\ op' = [op EXCEPT ![d] = Begin("pull", n, disk[d], paths, {}, NoFiles)]
    BY <1>18, ClassesArePaths DEF StartPull, remoteOf
  <2>2. published' \in [Device -> 0..Len(heads)]
    BY <2>1, <1>b, <1>e
  <2>3. paths \subseteq Path /\ disk[d] \in Files
    BY <1>a, ClassesArePaths DEF remoteOf, LocalOK
  <2>4. OpOK(Begin("pull", n, disk[d], paths, {}, NoFiles), Len(heads))
    BY <1>b, <2>3, NoFilesType, BeginType DEF Kind
  <2>5. OpsOK'
    BY <1>18, <2>1, <2>4, <1>c DEF StartPull
  <2> QED
    BY <1>18, <1>a, <2>2, <2>5 DEF StartPull, TypeInv, StoreOK, LocalOK, CountsOK, HistoryOK

<1>19. ASSUME NEW p \in Path, PullLeave(d, p)
      PROVE  TypeInv'
  <2> DEFINE o == [op[d] EXCEPT !.todo = @ \ {p}, !.fetched = @ \ {p}]
  <2>1. op' = [op EXCEPT ![d] = o]
    BY <1>19, <1>a DEF PullLeave, OpsOK
  <2>2. OpOK(o, Len(heads))
    BY <1>19, <1>b DEF PullLeave, OpOK, Operation
  <2>3. OpsOK'
    BY <1>19, <2>1, <2>2, <1>c DEF PullLeave
  <2> QED
    BY <1>19, <2>3, <1>f DEF PullLeave

<1>20. ASSUME NEW p \in Path, PullFetch(d, p)
      PROVE  TypeInv'
  <2> DEFINE o == [op[d] EXCEPT !.todo = @ \ {p}, !.fetched = @ \cup {p}]
  <2>1. op' = [op EXCEPT ![d] = o]
    BY <1>20, <1>a DEF PullFetch, OpsOK
  <2>2. OpOK(o, Len(heads))
    BY <1>20, <1>b DEF PullFetch, OpOK, Operation
  <2>3. OpsOK'
    BY <1>20, <2>1, <2>2, <1>c DEF PullFetch
  <2> QED
    BY <1>20, <2>3, <1>f DEF PullFetch

<1>21. ASSUME NEW p \in Path, PullWrite(d, p)
      PROVE  TypeInv'
  <2> DEFINE o == [op[d] EXCEPT !.fetched = @ \ {p}, !.settled = @ \cup {p}]
  <2>1. op' = [op EXCEPT ![d] = o]
    BY <1>21, <1>a DEF PullWrite, OpsOK
  <2>2. OpOK(o, Len(heads))
    BY <1>21, <1>b DEF PullWrite, OpOK, Operation
  <2>3. OpsOK'
    BY <1>21, <2>1, <2>2, <1>c DEF PullWrite
  <2> QED
    BY <1>21, <1>a, <1>g, <1>h, <2>3 DEF PullWrite, TypeInv, StoreOK, LocalOK, CountsOK, HistoryOK

<1>22. ASSUME NEW p \in Path, PullDelete(d, p)
      PROVE  TypeInv'
  <2> DEFINE o == [op[d] EXCEPT !.todo = @ \ {p}, !.settled = @ \cup {p}]
  <2>1. op' = [op EXCEPT ![d] = o]
    BY <1>22, <1>a DEF PullDelete, OpsOK
  <2>2. OpOK(o, Len(heads))
    BY <1>22, <1>b DEF PullDelete, OpOK, Operation
  <2>3. OpsOK'
    BY <1>22, <2>1, <2>2, <1>c DEF PullDelete
  <2> QED
    BY <1>22, <1>a, <1>g, <2>3 DEF PullDelete, Content, TypeInv, StoreOK, LocalOK, CountsOK, HistoryOK

<1>23. ASSUME StartAccept(d) PROVE TypeInv'
  <2>1. PICK n \in 1..Len(heads), paths \in SUBSET Path :
          /\ paths \subseteq conflictsOf(d, n)
          /\ Compare(d, n)
          /\ op' = [op EXCEPT ![d] = Begin("accept", n, disk[d], paths, {}, NoFiles)]
    BY <1>23, ClassesArePaths DEF StartAccept, conflictsOf
  <2>2. published' \in [Device -> 0..Len(heads)]
    BY <2>1, <1>b, <1>e
  <2>3. paths \subseteq Path /\ disk[d] \in Files
    BY <1>a, ClassesArePaths DEF conflictsOf, LocalOK
  <2>4. OpOK(Begin("accept", n, disk[d], paths, {}, NoFiles), Len(heads))
    BY <1>b, <2>3, NoFilesType, BeginType DEF Kind
  <2>5. OpsOK'
    BY <1>23, <2>1, <2>4, <1>c DEF StartAccept
  <2> QED
    BY <1>23, <1>a, <2>2, <2>5 DEF StartAccept, TypeInv, StoreOK, LocalOK, CountsOK, HistoryOK

<1>24. ASSUME NEW p \in Path, AcceptWrite(d, p)
      PROVE  TypeInv'
  <2> DEFINE o == [op[d] EXCEPT !.todo = @ \ {p}, !.settled = @ \cup {p}]
  <2>1. op' = [op EXCEPT ![d] = o]
    BY <1>24, <1>a DEF AcceptWrite, OpsOK
  <2>2. OpOK(o, Len(heads))
    BY <1>24, <1>b DEF AcceptWrite, OpOK, Operation
  <2>3. OpsOK'
    BY <1>24, <2>1, <2>2, <1>c DEF AcceptWrite
  <2> QED
    BY <1>24, <1>a, <1>g, <1>h, <2>3 DEF AcceptWrite, TypeInv, StoreOK, LocalOK, CountsOK, HistoryOK

<1>25. ASSUME FinishPull(d) PROVE TypeInv'
  <2>1. OpsOK'
    BY <1>25, <1>d DEF FinishPull, settle
  <2>2. advanceFiles(baseline[d].files, FilesAt(op[d].base), op[d].settled) \in Files
    BY <1>a, <1>h, AdvanceFilesType DEF LocalOK
  <2>3. baseline' \in [Device -> [id : 0..Len(heads), files : Files]]
    BY <1>25, <1>a, <1>b, <2>2 DEF FinishPull, settle, LocalOK, OpOK
  <2> QED
    BY <1>25, <1>a, <2>1, <2>3 DEF FinishPull, TypeInv, StoreOK, LocalOK, CountsOK, HistoryOK

<1>26. ASSUME CancelPull(d) PROVE TypeInv'
  <2>1. OpsOK'
    BY <1>26, <1>d DEF CancelPull, settle
  <2>2. advanceFiles(baseline[d].files, FilesAt(op[d].base), op[d].settled) \in Files
    BY <1>a, <1>h, AdvanceFilesType DEF LocalOK
  <2>3. baseline' \in [Device -> [id : 0..Len(heads), files : Files]]
    BY <1>26, <1>a, <1>b, <2>2 DEF CancelPull, settle, LocalOK, OpOK
  <2> QED
    BY <1>26, <1>a, <2>1, <2>3, BoundsAssumption DEF CancelPull, TypeInv, StoreOK, LocalOK, CountsOK, HistoryOK

<1>27. ASSUME Fail(d) PROVE TypeInv'
  <2>1. OpsOK'
    BY <1>27, <1>d DEF Fail
  <2>2. \A p \in inFlight(d) : p \in Path
    BY <1>b DEF inFlight, downloads, Operation
  <2>3. \A p \in Path : lateWrite(d, p) \in LateWrite
    BY <1>h DEF lateWrite, LateWrite
  <2>4. late' \in [Device -> SUBSET LateWrite]
    BY <1>27, <1>a, <2>2, <2>3 DEF Fail, LocalOK
  <2> QED
    BY <1>27, <1>a, <2>1, <2>4, BoundsAssumption DEF Fail, TypeInv, StoreOK, LocalOK, CountsOK, HistoryOK

<1>28. ASSUME NEW w \in late[d], WriteLate(d, w)
      PROVE  TypeInv'
  <2>1. w.path \in Path /\ w.content \in Content
    BY <1>a DEF LocalOK, LateWrite
  <2>2. OpsOK'
    BY <1>28, <1>a, <2>1, TouchingType DEF WriteLate
  <2>3. disk' \in [Device -> Files]
    BY <1>28, <1>a, <2>1 DEF WriteLate, LocalOK, Files
  <2>4. late' \in [Device -> SUBSET LateWrite]
    BY <1>28, <1>a DEF WriteLate, LocalOK
  <2>5. held' \in [Device -> [Path -> SUBSET Content]]
    BY <1>28, <1>a, <2>1 DEF WriteLate, HistoryOK
  <2> QED
    BY <1>28, <1>a, <2>2, <2>3, <2>4, <2>5 DEF WriteLate, TypeInv, StoreOK, LocalOK, CountsOK, HistoryOK

<1>30. ASSUME Choose(d) PROVE TypeInv'
  <2>1. PICK n \in 0..Len(heads), paths \in SUBSET Path :
          /\ Compare(d, n)
          /\ baseline' = baseline \/
             baseline' = [baseline EXCEPT ![d] =
               [id |-> n,
                files |-> advanceFiles(baseline[d].files, FilesAt(n), convergedOf(d, n))]]
          /\ chosen' = [chosen EXCEPT ![d] = paths]
    BY <1>30, <1>a, ClassesArePaths DEF Choose, refreshedTo, LocalOK, conflictsOf
  <2>2. published' \in [Device -> 0..Len(heads)] /\ FilesAt(n) \in Files
    BY <2>1, <1>e
  <2>3. [id |-> n, files |-> advanceFiles(baseline[d].files, FilesAt(n), convergedOf(d, n))]
        \in [id : 0..Len(heads), files : Files]
    BY <1>a, <2>2, AdvanceFilesType DEF LocalOK
  <2>4. baseline' \in [Device -> [id : 0..Len(heads), files : Files]]
    BY <1>a, <2>1, <2>3 DEF LocalOK
  <2>5. OpsOK'
    BY <1>30, <1>a DEF Choose, OpsOK, OpOK
  <2>6. keeps' \in 0..MaxKeeps /\ chosen' \in [Device -> SUBSET Path]
    BY <1>30, <1>a, <2>1, BoundsAssumption DEF Choose, CountsOK
  <2> QED
    BY <1>30, <1>a, <2>2, <2>4, <2>5, <2>6
       DEF Choose, TypeInv, StoreOK, LocalOK, CountsOK, HistoryOK

<1>31. ASSUME KeepNothing(d) PROVE TypeInv'
  <2>1. published' \in [Device -> 0..Len(heads)] /\ UNCHANGED baseline
    <3>1. CASE compareRefused(d)
      BY <3>1, <1>a DEF compareRefused, LocalOK
    <3>2. CASE ~compareRefused(d)
      <4>1. PICK n \in 0..Len(heads) : Compare(d, n)
        BY <1>31, <3>2 DEF KeepNothing
      <4> QED
        BY <1>31, <3>2, <4>1, <1>e DEF KeepNothing
    <3> QED
      BY <3>1, <3>2
  <2>2. OpsOK'
    BY <1>31, <1>a DEF KeepNothing, OpsOK, OpOK
  <2>3. chosen' \in [Device -> SUBSET Path]
    BY <1>31, <1>a DEF KeepNothing, CountsOK
  <2> QED
    BY <1>31, <1>a, <2>1, <2>2, <2>3
       DEF KeepNothing, TypeInv, StoreOK, LocalOK, CountsOK, HistoryOK

<1>29. ASSUME Crash(d) PROVE TypeInv'
  <2>1. OpsOK' /\ chosen' \in [Device -> SUBSET Path]
    BY <1>29, <1>a, <1>d DEF Crash, CountsOK
  <2> QED
    BY <1>29, <1>a, <2>1, BoundsAssumption DEF Crash, TypeInv, StoreOK, LocalOK, CountsOK, HistoryOK

<1> QED
  BY <1>1, <1>2, <1>3, <1>5, <1>6, <1>7, <1>8, <1>9, <1>10, <1>11, <1>12, <1>14, <1>15, <1>16, <1>17, <1>18, <1>19, <1>20, <1>21, <1>22, <1>23, <1>24, <1>25, <1>26, <1>27, <1>28, <1>29, <1>30, <1>31
     DEF Step, Push, Keep, Publish, Pull, Accept, Fault


(* So do all steps.                                                         *)
LEMMA TypeInvInductive == TypeInv /\ [Next]_vars => TypeInv'
<1>1. ASSUME TypeInv, Next PROVE TypeInv'
  BY <1>1, StepTypeInv DEF Next
<1>2. ASSUME TypeInv, UNCHANGED vars PROVE TypeInv'
  BY <1>2 DEF vars, store, local, input, history, TypeInv, StoreOK, LocalOK, OpsOK,
              CountsOK, HistoryOK
<1> QED
  BY <1>1, <1>2

(* The variables hold what the code keeps in them, in every state.          *)
THEOREM TypeCorrect == Spec => []TypeOK
<1>1. Init => TypeInv
  BY InitTypeInv
<1>2. TypeInv /\ [Next]_vars => TypeInv'
  BY TypeInvInductive
<1>3. TypeInv => TypeOK
  BY TypeInvImpliesTypeOK
<1> QED
  BY <1>1, <1>2, <1>3, PTL DEF Spec

-----------------------------------------------------------------------------
(* No published manifest dangles.  The manifest a push or a keep is to      *)
(* publish references only blobs in the store, a push's also what is still  *)
(* on its list.                                                             *)

Awaited(o) == IF o.kind = "push" THEN {o.snap[q] : q \in o.todo} ELSE {}

Supplied(o, blobs) ==
    /\ o.kind \in {"push", "keep"} /\ o.pc \in {"transfer", "put"}
       => hashesOf(o.next) \subseteq blobs \cup Awaited(o)
    /\ o.pc = "put" => o.todo = {}

SupplyInv == HeadComplete /\ \A d \in Device : Supplied(op[d], objects)

(* More blobs supply as much.                                               *)
LEMMA SupplyMonotone ==
    ASSUME NEW o, NEW blobs, NEW more, blobs \subseteq more, Supplied(o, blobs)
    PROVE  Supplied(o, more)
BY DEF Supplied

(* Idle, and every operation that is not about to publish, needs nothing.   *)
LEMMA SupplyIdle ==
    ASSUME NEW blobs
    PROVE  /\ Supplied(Idle, blobs) /\ Supplied(Recomparing, blobs)
           /\ \A o \in Operation :
                 \/ o.kind \in {"pull", "accept"} /\ o.pc = "transfer"
                 \/ o.pc \in {"verify", "persist"}
                 => Supplied(o, blobs)
BY DEF Supplied, Idle, Recomparing

(* One operation moves on, and the blobs only grow.                         *)
LEMMA SupplyMoves ==
    ASSUME SupplyInv, OpsOK, NEW d \in Device, NEW o, op' = [op EXCEPT ![d] = o],
           UNCHANGED heads, objects \subseteq objects', Supplied(o, objects')
    PROVE  SupplyInv'
<1>1. HeadComplete'
  BY DEF SupplyInv, HeadComplete
<1>2. ASSUME NEW e \in Device PROVE Supplied(op'[e], objects')
  <2>1. CASE e = d
    BY <2>1 DEF OpsOK
  <2>2. CASE e # d
    <3>1. op'[e] = op[e] /\ Supplied(op[e], objects)
      BY <2>2 DEF OpsOK, SupplyInv
    <3> QED
      BY <3>1, SupplyMonotone
  <2> QED
    BY <2>1, <2>2
<1> QED
  BY <1>1, <1>2 DEF SupplyInv

(* A path less of a pull or accept changes nothing here.                    *)
LEMMA SupplyTouching ==
    ASSUME SupplyInv, OpsOK, NEW d \in Device, NEW p \in Path, op' = touching(d, p),
           UNCHANGED store
    PROVE  SupplyInv'
<1>1. op[d] \in Operation /\ Supplied(op[d], objects)
  BY DEF OpsOK, OpOK, SupplyInv
<1>2. CASE op[d].kind \in {"pull", "accept"}
  <2> DEFINE o == [op[d] EXCEPT !.touched = @ \cup {p}]
  <2>1. op' = [op EXCEPT ![d] = o]
    BY <1>2 DEF touching, OpsOK
  <2>2. o.kind = op[d].kind /\ o.pc = op[d].pc /\ o.todo = op[d].todo
    BY <1>1 DEF Operation
  <2>3. Supplied(o, objects)
    BY <1>1, <1>2, <2>2 DEF Supplied
  <2> QED
    BY <2>1, <2>3, SupplyMoves DEF store
<1>3. CASE op[d].kind \notin {"pull", "accept"}
  BY <1>3 DEF touching, OpsOK, SupplyInv, store, HeadComplete
<1> QED
  BY <1>2, <1>3

(* A device's steps keep every manifest supplied.                           *)
LEMMA SupplyStep ==
    ASSUME TypeInv, SupplyInv, NEW d \in Device, Step(d)
    PROVE  SupplyInv'
<1>a. StoreOK /\ LocalOK /\ OpsOK
  BY DEF TypeInv
<1>b. op[d] \in Operation /\ OpOK(op[d], Len(heads)) /\ Supplied(op[d], objects)
  BY <1>a DEF OpsOK, OpOK, SupplyInv
<1>c. ASSUME NEW n \in 0..Len(heads)
      PROVE  FilesAt(n) \in Files /\ hashesOf(FilesAt(n)) \subseteq objects
  <2>1. CASE n = 0
    BY <2>1, NoFilesType DEF FilesAt, hashesOf, NoFiles
  <2>2. CASE n # 0
    BY <2>2, <1>a, FilesAtType DEF FilesAt, SupplyInv, HeadComplete
  <2> QED
    BY <2>1, <2>2
<1>d. ASSUME op' = [op EXCEPT ![d] = Idle] \/ op' = [op EXCEPT ![d] = Recomparing],
             UNCHANGED store
      PROVE  SupplyInv'
  BY <1>a, <1>d, SupplyIdle, SupplyMoves DEF store
<1>e. ASSUME NEW o \in Operation, op' = [op EXCEPT ![d] = o], UNCHANGED store,
             \/ o.kind \in {"pull", "accept"} /\ o.pc = "transfer"
             \/ o.pc \in {"verify", "persist"}
      PROVE  SupplyInv'
  BY <1>a, <1>e, SupplyIdle, SupplyMoves DEF store

<1>1. ASSUME NEW p \in Path, NEW c \in Content, Edit(d, p, c) PROVE SupplyInv'
  BY <1>1, <1>a, SupplyTouching DEF Edit, store

<1>2. ASSUME Refresh(d) PROVE SupplyInv'
  BY <1>2, <1>a DEF Refresh, SupplyInv, HeadComplete, store

<1>30. ASSUME Choose(d) PROVE SupplyInv'
  BY <1>30, <1>a DEF Choose, SupplyInv, HeadComplete, store

<1>31. ASSUME KeepNothing(d) PROVE SupplyInv'
  BY <1>31, <1>a DEF KeepNothing, SupplyInv, HeadComplete, store

<1>3. ASSUME Recompare(d) PROVE SupplyInv'
  BY <1>3, <1>d DEF Recompare, store

<1>5. ASSUME NEW p \in Path, UploadMismatch(d, p) PROVE SupplyInv'
  BY <1>5, <1>d DEF UploadMismatch, store

<1>6. ASSUME PrecheckFails(d) PROVE SupplyInv'
  BY <1>6, <1>d DEF PrecheckFails, store

<1>8. ASSUME VerifyFails(d) PROVE SupplyInv'
  BY <1>8, <1>d DEF VerifyFails, store

<1>9. ASSUME PersistPush(d) PROVE SupplyInv'
  BY <1>9, <1>d DEF PersistPush, store

<1>10. ASSUME FinishPull(d) PROVE SupplyInv'
  BY <1>10, <1>d DEF FinishPull, settle, store

<1>11. ASSUME CancelPull(d) PROVE SupplyInv'
  BY <1>11, <1>d DEF CancelPull, settle, store

<1>12. ASSUME Fail(d) PROVE SupplyInv'
  BY <1>12, <1>d DEF Fail, store

<1>13. ASSUME Crash(d) PROVE SupplyInv'
  BY <1>13, <1>d DEF Crash, store

<1>14. ASSUME NEW w \in late[d], w.path \in Path, WriteLate(d, w) PROVE SupplyInv'
  BY <1>14, <1>a, SupplyTouching DEF WriteLate, store

<1>15. ASSUME Verify(d) PROVE SupplyInv'
  <2> DEFINE o == [op[d] EXCEPT !.pc = "persist"]
  <2>1. op' = [op EXCEPT ![d] = o] /\ UNCHANGED store
    BY <1>15, <1>a DEF Verify, OpsOK, store
  <2>2. o \in Operation /\ o.pc = "persist"
    BY <1>b DEF Operation, Pc
  <2> HIDE DEF o
  <2> QED
    BY <2>1, <2>2, <1>e

<1>16. ASSUME StartPull(d) PROVE SupplyInv'
  <2>1. PICK n \in 1..Len(heads), paths \in SUBSET Path :
          op' = [op EXCEPT ![d] = Begin("pull", n, disk[d], paths, {}, NoFiles)]
    BY <1>16, ClassesArePaths DEF StartPull, remoteOf
  <2> DEFINE o == Begin("pull", n, disk[d], paths, {}, NoFiles)
  <2>2. Supplied(o, objects)
    BY DEF Supplied, Begin
  <2> HIDE DEF o
  <2> QED
    BY <1>16, <1>a, <2>1, <2>2, SupplyMoves DEF StartPull, store, o

<1>17. ASSUME StartAccept(d) PROVE SupplyInv'
  <2>1. PICK n \in 1..Len(heads), paths \in SUBSET Path :
          op' = [op EXCEPT ![d] = Begin("accept", n, disk[d], paths, {}, NoFiles)]
    BY <1>17, ClassesArePaths DEF StartAccept, conflictsOf
  <2> DEFINE o == Begin("accept", n, disk[d], paths, {}, NoFiles)
  <2>2. Supplied(o, objects)
    BY DEF Supplied, Begin
  <2> HIDE DEF o
  <2> QED
    BY <1>17, <1>a, <2>1, <2>2, SupplyMoves DEF StartAccept, store, o

<1>18. ASSUME NEW p \in Path, PullLeave(d, p) PROVE SupplyInv'
  <2> DEFINE o == [op[d] EXCEPT !.todo = @ \ {p}, !.fetched = @ \ {p}]
  <2>1. op' = [op EXCEPT ![d] = o] /\ UNCHANGED store /\ running(d, {"pull"}, "transfer")
    BY <1>18, <1>a DEF PullLeave, OpsOK, store
  <2>2. o \in Operation /\ o.kind = "pull" /\ o.pc = "transfer"
    BY <1>b, <2>1 DEF running, Operation
  <2> HIDE DEF o
  <2> QED
    BY <2>1, <2>2, <1>e

<1>19. ASSUME NEW p \in Path, PullFetch(d, p) PROVE SupplyInv'
  <2> DEFINE o == [op[d] EXCEPT !.todo = @ \ {p}, !.fetched = @ \cup {p}]
  <2>1. op' = [op EXCEPT ![d] = o] /\ UNCHANGED store /\ running(d, {"pull"}, "transfer")
    BY <1>19, <1>a DEF PullFetch, OpsOK, store
  <2>2. o \in Operation /\ o.kind = "pull" /\ o.pc = "transfer"
    BY <1>b, <2>1 DEF running, Operation
  <2> HIDE DEF o
  <2> QED
    BY <2>1, <2>2, <1>e

<1>20. ASSUME NEW p \in Path, PullWrite(d, p) PROVE SupplyInv'
  <2> DEFINE o == [op[d] EXCEPT !.fetched = @ \ {p}, !.settled = @ \cup {p}]
  <2>1. op' = [op EXCEPT ![d] = o] /\ UNCHANGED store /\ running(d, {"pull"}, "transfer")
    BY <1>20, <1>a DEF PullWrite, OpsOK, store
  <2>2. o \in Operation /\ o.kind = "pull" /\ o.pc = "transfer"
    BY <1>b, <2>1 DEF running, Operation
  <2> HIDE DEF o
  <2> QED
    BY <2>1, <2>2, <1>e

<1>21. ASSUME NEW p \in Path, PullDelete(d, p) PROVE SupplyInv'
  <2> DEFINE o == [op[d] EXCEPT !.todo = @ \ {p}, !.settled = @ \cup {p}]
  <2>1. op' = [op EXCEPT ![d] = o] /\ UNCHANGED store /\ running(d, {"pull"}, "transfer")
    BY <1>21, <1>a DEF PullDelete, OpsOK, store
  <2>2. o \in Operation /\ o.kind = "pull" /\ o.pc = "transfer"
    BY <1>b, <2>1 DEF running, Operation
  <2> HIDE DEF o
  <2> QED
    BY <2>1, <2>2, <1>e

<1>22. ASSUME NEW p \in Path, AcceptWrite(d, p) PROVE SupplyInv'
  <2> DEFINE o == [op[d] EXCEPT !.todo = @ \ {p}, !.settled = @ \cup {p}]
  <2>1. op' = [op EXCEPT ![d] = o] /\ UNCHANGED store /\ running(d, {"accept"}, "transfer")
    BY <1>22, <1>a DEF AcceptWrite, OpsOK, store
  <2>2. o \in Operation /\ o.kind = "accept" /\ o.pc = "transfer"
    BY <1>b, <2>1 DEF running, Operation
  <2> HIDE DEF o
  <2> QED
    BY <2>1, <2>2, <1>e

<1>23. ASSUME StartPush(d) PROVE SupplyInv'
  <2>1. PICK n \in 0..Len(heads), paths \in SUBSET Path :
          op' = [op EXCEPT ![d] =
                Begin("push", n, disk[d],
                      {p \in paths : disk[d][p] \in Hash \ hashesOf(FilesAt(n))},
                      publishedDelta(FilesAt(n), advanceFiles(FilesAt(n), disk[d], paths)),
                      advanceFiles(FilesAt(n), disk[d], paths))]
    BY <1>23, ClassesArePaths DEF StartPush, localOf
  <2> DEFINE next == advanceFiles(FilesAt(n), disk[d], paths)
             todo == {p \in paths : disk[d][p] \in Hash \ hashesOf(FilesAt(n))}
             delta == publishedDelta(FilesAt(n), next)
             o == Begin("push", n, disk[d], todo, delta, next)
  <2>2. hashesOf(next) \subseteq objects \cup {disk[d][q] : q \in todo}
    <3> SUFFICES ASSUME NEW p \in Path, next[p] # NoFile
                 PROVE  next[p] \in objects \cup {disk[d][q] : q \in todo}
      BY DEF hashesOf
    <3>1. FilesAt(n)[p] # NoFile => FilesAt(n)[p] \in objects
      BY <1>c DEF hashesOf
    <3>2. CASE p \in paths
      <4>1. next[p] = disk[d][p] /\ disk[d][p] \in Hash
        BY <3>2, <1>a DEF advanceFiles, LocalOK, Files, Content
      <4>2. CASE disk[d][p] \in hashesOf(FilesAt(n))
        BY <4>1, <4>2, <1>c
      <4>3. CASE disk[d][p] \notin hashesOf(FilesAt(n))
        BY <4>1, <4>3, <3>2
      <4> QED
        BY <4>2, <4>3
    <3>3. CASE p \notin paths
      BY <3>1, <3>3 DEF advanceFiles
    <3> QED
      BY <3>2, <3>3
  <2>3. o.next = next /\ o.snap = disk[d] /\ o.todo = todo /\ o.pc = "transfer"
        /\ o.kind = "push"
    BY DEF Begin
  <2>4. op' = [op EXCEPT ![d] = o]
    BY <2>1
  <2> HIDE DEF o, next, todo
  <2>5. Supplied(o, objects)
    BY <2>2, <2>3 DEF Supplied, Awaited
  <2> QED
    BY <1>23, <1>a, <2>4, <2>5, SupplyMoves DEF StartPush, store

<1>24. ASSUME StartKeep(d) PROVE SupplyInv'
  <2>1. PICK n \in 0..Len(heads), paths \in SUBSET Path :
          op' = [op EXCEPT ![d] = Begin("keep", n, disk[d], paths, {}, FilesAt(n))]
    BY <1>24, KeepShape
  <2> DEFINE o == Begin("keep", n, disk[d], paths, {}, FilesAt(n))
  <2>2. o.next = FilesAt(n) /\ o.pc = "transfer"
    BY DEF Begin
  <2>3. Supplied(o, objects)
    BY <2>2, <1>c DEF Supplied
  <2>4. op' = [op EXCEPT ![d] = o] /\ UNCHANGED store
    BY <1>24, <2>1 DEF StartKeep, store
  <2> HIDE DEF o
  <2> QED
    BY <1>a, <2>4, <2>3, SupplyMoves DEF store

<1>25. ASSUME NEW p \in Path, Upload(d, p) PROVE SupplyInv'
  <2> DEFINE o == [op[d] EXCEPT !.todo = @ \ uploaded(d, p)]
  <2>1. op' = [op EXCEPT ![d] = o]
    BY <1>25, <1>a DEF Upload, OpsOK
  <2>2. /\ UNCHANGED heads /\ objects \subseteq objects' /\ op[d].snap[p] \in objects'
        /\ op[d].kind = "push" /\ op[d].pc = "transfer"
    BY <1>25 DEF Upload, running, store
  <2>3. ASSUME NEW h \in hashesOf(op[d].next), h \notin objects'
        PROVE  h \in {op[d].snap[q] : q \in op[d].todo \ uploaded(d, p)}
    <3>1. PICK q \in op[d].todo : h = op[d].snap[q]
      BY <1>b, <2>2, <2>3 DEF Supplied, Awaited
    <3>2. q \notin uploaded(d, p)
      BY <2>2, <2>3, <3>1 DEF uploaded
    <3> QED
      BY <3>1, <3>2
  <2>4. o.next = op[d].next /\ o.snap = op[d].snap /\ o.pc = "transfer"
        /\ o.todo = op[d].todo \ uploaded(d, p) /\ o.kind = "push"
    BY <1>b, <2>2 DEF Operation
  <2> HIDE DEF o
  <2>5. Supplied(o, objects')
    BY <2>3, <2>4 DEF Supplied, Awaited
  <2> QED
    BY <1>a, <2>1, <2>2, <2>5, SupplyMoves

<1>26. ASSUME NEW p \in Path, UploadResumed(d, p) PROVE SupplyInv'
  <2> DEFINE o == [op[d] EXCEPT !.todo = @ \ uploaded(d, p)]
  <2>1. op' = [op EXCEPT ![d] = o]
    BY <1>26, <1>a DEF UploadResumed, OpsOK
  <2>2. /\ UNCHANGED heads /\ objects \subseteq objects' /\ op[d].snap[p] \in objects'
        /\ op[d].kind = "push" /\ op[d].pc = "transfer"
    BY <1>26 DEF UploadResumed, running, store
  <2>3. ASSUME NEW h \in hashesOf(op[d].next), h \notin objects'
        PROVE  h \in {op[d].snap[q] : q \in op[d].todo \ uploaded(d, p)}
    <3>1. PICK q \in op[d].todo : h = op[d].snap[q]
      BY <1>b, <2>2, <2>3 DEF Supplied, Awaited
    <3>2. q \notin uploaded(d, p)
      BY <2>2, <2>3, <3>1 DEF uploaded
    <3> QED
      BY <3>1, <3>2
  <2>4. o.next = op[d].next /\ o.snap = op[d].snap /\ o.pc = "transfer"
        /\ o.todo = op[d].todo \ uploaded(d, p) /\ o.kind = "push"
    BY <1>b, <2>2 DEF Operation
  <2> HIDE DEF o
  <2>5. Supplied(o, objects')
    BY <2>3, <2>4 DEF Supplied, Awaited
  <2> QED
    BY <1>a, <2>1, <2>2, <2>5, SupplyMoves

<1>27. ASSUME NEW p \in Path, KeepRead(d, p) PROVE SupplyInv'
  <2> DEFINE c == disk[d][p]
             next == [op[d].next EXCEPT ![p] = c]
             o == [op[d] EXCEPT !.todo = @ \ {p}, !.settled = @ \cup {p}, !.next = next]
  <2>1. op' = [op EXCEPT ![d] = o]
    BY <1>27, <1>a DEF KeepRead, OpsOK
  <2>2. /\ UNCHANGED heads /\ objects \subseteq objects'
        /\ op[d].kind = "keep" /\ op[d].pc = "transfer"
    BY <1>27 DEF KeepRead, running
  <2>3. c # NoFile => c \in objects'
    <3>1. c \in Content /\ hashesOf(FilesAt(op[d].base)) \subseteq objects
      BY <1>a, <1>b, <1>c DEF LocalOK, Files, OpOK
    <3>2. {c} \cap (Hash \ (hashesOf(FilesAt(op[d].base)) \cup (uploads[d] \cap objects)))
            \subseteq objects'
      BY <1>27 DEF KeepRead
    <3> QED
      BY <2>2, <3>1, <3>2 DEF Content
  <2>4. o.next = next /\ o.snap = op[d].snap /\ o.pc = "transfer" /\ o.kind = "keep"
        /\ o.todo = op[d].todo \ {p}
    BY <1>b, <2>2 DEF Operation
  <2>5. op[d].next \in Files /\ op[d].snap \in Files /\ op[d].kind = "keep"
    BY <1>b, <2>2 DEF Operation
  <2>6. hashesOf(op[d].next) \subseteq objects
    BY <1>b, <2>2 DEF Supplied, Awaited
  <2>7. hashesOf(next) \subseteq objects'
    <3> SUFFICES ASSUME NEW q \in Path, next[q] # NoFile
                 PROVE  next[q] \in objects'
      BY DEF hashesOf
    <3>1. CASE q = p
      BY <2>3, <2>5, <3>1 DEF Files
    <3>2. CASE q # p
      BY <2>2, <2>5, <2>6, <3>2 DEF Files, hashesOf
    <3> QED
      BY <3>1, <3>2
  <2> HIDE DEF o
  <2>8. Supplied(o, objects')
    BY <2>4, <2>7 DEF Supplied
  <2> QED
    BY <1>a, <2>1, <2>2, <2>8, SupplyMoves

<1>28. ASSUME Precheck(d) PROVE SupplyInv'
  <2> DEFINE o == [op[d] EXCEPT !.pc = "put"]
  <2>1. op' = [op EXCEPT ![d] = o]
    BY <1>28, <1>a DEF Precheck, OpsOK
  <2>2. /\ UNCHANGED store /\ op[d].todo = {}
        /\ op[d].kind \in {"push", "keep"} /\ op[d].pc = "transfer"
    BY <1>28 DEF Precheck, readyToPublish, running, store
  <2>3. o.next = op[d].next /\ o.snap = op[d].snap /\ o.todo = op[d].todo
    BY <1>b DEF Operation
  <2> HIDE DEF o
  <2>4. Supplied(o, objects)
    BY <1>b, <2>2, <2>3 DEF Supplied, Awaited
  <2> QED
    BY <1>a, <2>1, <2>2, <2>4, SupplyMoves DEF store

<1>29. ASSUME Put(d) PROVE SupplyInv'
  <2> DEFINE m == [parent |-> op[d].base, by |-> d, files |-> op[d].next]
             o == [op[d] EXCEPT !.pc = "verify", !.mine = Len(heads) + 1]
  <2>1. heads' = Append(heads, m) /\ UNCHANGED objects
        /\ op[d].kind \in {"push", "keep"} /\ op[d].pc = "put"
    BY <1>29 DEF Put, running
  <2>2. op' = [op EXCEPT ![d] = o]
    BY <1>29, <1>a DEF Put, OpsOK
  <2>3. hashesOf(op[d].next) \subseteq objects
    BY <1>b, <2>1 DEF Supplied, Awaited
  <2>4. HeadComplete'
    <3>1. m \in Manifest
      BY <1>b DEF Manifest, Operation
    <3>2. ASSUME NEW i \in 1..Len(heads') PROVE hashesOf(heads'[i].files) \subseteq objects
      <4>1. CASE i \in 1..Len(heads)
        BY <4>1, <2>1, <3>1, <1>a DEF StoreOK, SupplyInv, HeadComplete
      <4>2. CASE i = Len(heads) + 1
        BY <4>2, <2>1, <2>3, <3>1, <1>a DEF StoreOK
      <4>3. Len(heads') = Len(heads) + 1 /\ Len(heads) \in Nat
        BY <2>1, <3>1, <1>a DEF StoreOK
      <4> QED
        BY <4>1, <4>2, <4>3
    <3> QED
      BY <2>1, <3>2 DEF HeadComplete
  <2>5. o \in Operation /\ o.pc = "verify"
    <3>1. Len(heads) + 1 \in Nat
      BY <1>a DEF StoreOK
    <3> QED
      BY <1>b, <3>1 DEF Operation, Pc
  <2> HIDE DEF o
  <2>6. ASSUME NEW e \in Device PROVE Supplied(op'[e], objects')
    <3>1. CASE e = d
      BY <3>1, <2>2, <2>5, <1>a, SupplyIdle DEF OpsOK
    <3>2. CASE e # d
      BY <3>2, <2>1, <2>2, <1>a DEF SupplyInv, OpsOK
    <3> QED
      BY <3>1, <3>2
  <2> QED
    BY <2>4, <2>6 DEF SupplyInv

<1>w. \A w \in late[d] : w.path \in Path
  BY <1>a DEF LocalOK, LateWrite
<1> QED
  BY <1>w, <1>1, <1>2, <1>3, <1>5, <1>6, <1>8, <1>9, <1>10, <1>11, <1>12, <1>13, <1>14, <1>15, <1>16, <1>17, <1>18, <1>19, <1>20, <1>21, <1>22, <1>23, <1>24, <1>25, <1>26, <1>27, <1>28, <1>29, <1>30, <1>31
     DEF Step, Push, Keep, Publish, Pull, Accept, Fault

(* Every manifest ever published can be pulled, whatever failed during the  *)
(* push that published it.                                                  *)
THEOREM HeadsComplete == Spec => []HeadComplete
<1>1. Init => SupplyInv
  <2> SUFFICES ASSUME Init PROVE SupplyInv
    OBVIOUS
  <2>1. HeadComplete
    BY DEF Init, HeadComplete
  <2>2. \A d \in Device : op[d] = Idle
    BY DEF Init
  <2> QED
    BY <2>1, <2>2, SupplyIdle DEF SupplyInv
<1>2. TypeInv /\ SupplyInv /\ [Next]_vars => SupplyInv'
  <2>1. ASSUME TypeInv, SupplyInv, Next PROVE SupplyInv'
    BY <2>1, SupplyStep DEF Next
  <2>2. ASSUME SupplyInv, UNCHANGED vars PROVE SupplyInv'
    BY <2>2 DEF vars, store, SupplyInv, HeadComplete
  <2> QED
    BY <2>1, <2>2
<1>3. Init => TypeInv
  BY InitTypeInv
<1>4. TypeInv /\ [Next]_vars => TypeInv'
  BY TypeInvInductive
<1>5. SupplyInv => HeadComplete
  BY DEF SupplyInv
<1> QED
  BY <1>1, <1>2, <1>3, <1>4, <1>5, PTL DEF Spec

-----------------------------------------------------------------------------
(* What a device knows and what was published: the safety properties that    *)
(* relate its history to its present.                                        *)

(* A version is known when one of the same content was held.                *)
Knows(s, c) == \E v \in s : sameContent(v, c)

(* o runs where f are the files its comparison saw and s the versions of p  *)
(* its device has held: it replaces one of these, or keeps its side of p,   *)
(* once a file there, as its user chose.                                    *)
OpHeld(o, s, f, p) ==
    /\ o.kind \in {"push", "keep"} =>
         /\ o.next[p] # f[p] => Knows(s, f[p]) \/ (o.kind = "keep" /\ p \in o.settled)
         /\ p \in o.settled => Knows(s, o.next[p])
    /\ o.kind = "keep" /\ p \in o.todo => s \ {NoFile} # {}
    /\ o.kind \in {"pull", "accept"} /\ p \in o.settled => f[p] \in s

DeviceHeld(d, p) ==
    /\ NoFile \in held[d][p]
    /\ disk[d][p] \in held[d][p]
    /\ Knows(held[d][p], baseline[d].files[p])
    /\ OpHeld(op[d], held[d][p], FilesAt(op[d].base), p)

HeldInv == \A d \in Device, p \in Path : DeviceHeld(d, p)

-----------------------------------------------------------------------------
(* Nothing is lost with a version of p that some manifest holds.            *)
Pub(p, c) == c = NoFile \/ wasPublished(p, c)

(* While nobody touches p, whose disk holds c, a pull finds the version it  *)
(* scanned there, and that version was published.                           *)
OpFresh(o, c, p) ==
    o.kind = "pull" =>
        /\ p \notin o.todo \cap o.fetched
        /\ p \in o.todo \cup o.fetched => Pub(p, o.snap[p])
        /\ p \in o.todo \cup o.fetched /\ p \notin o.touched => c = o.snap[p]

(* What was put is what the operation meant to publish.                     *)
OpPut(o) ==
    o.pc \in {"verify", "persist"} =>
        o.kind \in {"push", "keep"} /\ o.mine # 0 /\ FilesAt(o.mine) = o.next

PubInv ==
    \A d \in Device :
        /\ OpPut(op[d])
        /\ \A w \in late[d] : w.over = "file" => Pub(w.path, disk[d][w.path])
        /\ \A p \in Path : Pub(p, baseline[d].files[p]) /\ OpFresh(op[d], disk[d][p], p)

-----------------------------------------------------------------------------
(* What a step of d may change.                                             *)

(* Most actions only move their operation along.                            *)
Quiet == UNCHANGED <<heads, disk, baseline, late, held, deleted>>

Agrees(d) ==
    \/ Refresh(d) \/ Choose(d) \/ Recompare(d)
    \/ PersistPush(d) \/ FinishPull(d) \/ CancelPull(d)

Writes(d) ==
    \/ \E p \in Path, c \in Content : Edit(d, p, c)
    \/ \E p \in Path : PullWrite(d, p) \/ PullDelete(d, p) \/ AcceptWrite(d, p)
    \/ \E w \in late[d] : WriteLate(d, w)

(* Every step is of one of these kinds.                                     *)
LEMMA StepKinds ==
    ASSUME NEW d \in Device, Step(d)
    PROVE  Quiet \/ Agrees(d) \/ Writes(d) \/ Put(d) \/ Fail(d) \/ Crash(d)
<1> USE DEF Quiet, store, local, input, history
<1>1. StartPush(d) \/ StartPull(d) \/ StartAccept(d) => Quiet
  BY DEF StartPush, StartPull, StartAccept
<1>6. StartKeep(d) \/ KeepNothing(d) => Quiet
  BY DEF StartKeep, KeepNothing, compareRefused
<1>2. \A p \in Path : Upload(d, p) \/ UploadResumed(d, p) \/ UploadMismatch(d, p) => Quiet
  BY DEF Upload, UploadResumed, UploadMismatch
<1>3. \A p \in Path : KeepRead(d, p) \/ PullLeave(d, p) \/ PullFetch(d, p) => Quiet
  BY DEF KeepRead, PullLeave, PullFetch
<1>4. Precheck(d) \/ PrecheckFails(d) => Quiet
  BY DEF Precheck, PrecheckFails, compareRefused
<1>5. Verify(d) \/ VerifyFails(d) => Quiet
  BY DEF Verify, VerifyFails
<1> QED
  BY <1>1, <1>2, <1>3, <1>4, <1>5, <1>6
     DEF Step, Push, Keep, Publish, Pull, Accept, Fault, Agrees, Writes

(* A write puts one version at one path, and its device has held it.        *)
LEMMA WriteShape ==
    ASSUME TypeInv, NEW d \in Device, Writes(d)
    PROVE  \E p \in Path, c \in Content :
             /\ disk' = [disk EXCEPT ![d][p] = c]
             /\ held' = [held EXCEPT ![d][p] = @ \cup {c}]
             /\ late' \in [Device -> SUBSET LateWrite]
             /\ \A e \in Device : late'[e] \subseteq late[e]
             /\ \A e \in Device \ {d} : late'[e] = late[e]
             /\ \A w \in late'[d] : w.path # p \/ w.over # "file"
             /\ UNCHANGED <<heads, baseline>>
<1> USE DEF store, local, input, history
<1>a. late \in [Device -> SUBSET LateWrite] /\ disk \in [Device -> Files] /\ StoreOK
      /\ op[d] \in Operation /\ op[d].base \in 0..Len(heads)
  BY DEF TypeInv, LocalOK, OpsOK, OpOK
<1>b. \A p \in Path : incoming(d, p) \in Content
  BY <1>a, FilesAtType DEF incoming, Files
<1>c. ASSUME NEW p \in Path, NEW c \in Content, written(d, p, c), UNCHANGED <<heads, baseline>>
      PROVE  \E q \in Path, x \in Content :
             /\ disk' = [disk EXCEPT ![d][q] = x]
             /\ held' = [held EXCEPT ![d][q] = @ \cup {x}]
             /\ late' \in [Device -> SUBSET LateWrite]
             /\ \A e \in Device : late'[e] \subseteq late[e]
             /\ \A e \in Device \ {d} : late'[e] = late[e]
             /\ \A w \in late'[d] : w.path # q \/ w.over # "file"
             /\ UNCHANGED <<heads, baseline>>
  BY <1>a, <1>c DEF written
<1>1. ASSUME NEW p \in Path, NEW c \in Content, Edit(d, p, c)
      PROVE  written(d, p, c) /\ UNCHANGED <<heads, baseline>>
  BY <1>1 DEF Edit
<1>2. ASSUME NEW p \in Path, PullWrite(d, p) \/ AcceptWrite(d, p)
      PROVE  written(d, p, incoming(d, p)) /\ UNCHANGED <<heads, baseline>>
  BY <1>2 DEF PullWrite, AcceptWrite
<1>3. ASSUME NEW p \in Path, PullDelete(d, p)
      PROVE  written(d, p, NoFile) /\ UNCHANGED <<heads, baseline>>
  BY <1>3 DEF PullDelete
<1>4. ASSUME NEW w \in late[d], WriteLate(d, w)
      PROVE  /\ w.path \in Path /\ w.content \in Content
             /\ disk' = [disk EXCEPT ![d][w.path] = w.content]
             /\ held' = [held EXCEPT ![d][w.path] = @ \cup {w.content}]
             /\ late' \in [Device -> SUBSET LateWrite]
             /\ \A e \in Device : late'[e] \subseteq late[e]
             /\ \A e \in Device \ {d} : late'[e] = late[e]
             /\ \A v \in late'[d] : v.path # w.path \/ v.over # "file"
             /\ UNCHANGED <<heads, baseline>>
  BY <1>4, <1>a DEF WriteLate, LateWrite
<1> QED
  BY <1>b, <1>c, <1>1, <1>2, <1>3, <1>4 DEF Writes, Content

(* Manifests are only ever added, and only by Put.                          *)
LEMMA HeadsGrow ==
    ASSUME TypeInv, NEW d \in Device, Step(d)
    PROVE  /\ Len(heads) \in Nat /\ Len(heads') \in Nat /\ Len(heads) <= Len(heads')
           /\ \A i \in 1..Len(heads) : heads'[i] = heads[i]
           /\ \A n \in 0..Len(heads) : FilesAt(n)' = FilesAt(n) /\ ParentOf(n)' = ParentOf(n)
           /\ \/ heads' = heads
              \/ Put(d) /\ Len(heads') = Len(heads) + 1
                 /\ heads'[Len(heads) + 1] =
                      [parent |-> op[d].base, by |-> d, files |-> op[d].next]
<1>a. StoreOK /\ op[d] \in Operation /\ op[d].base \in Nat
  BY DEF TypeInv, OpsOK, OpOK, Operation
<1>1. heads' = heads \/ Put(d)
  BY StepKinds, WriteShape DEF Quiet, Agrees, Refresh, Choose, Recompare, PersistPush, FinishPull,
     CancelPull, Fail, Crash, store, settle
<1>2. CASE heads' = heads
  BY <1>a, <1>2 DEF FilesAt, ParentOf, StoreOK
<1>3. CASE Put(d)
  <2> DEFINE m == [parent |-> op[d].base, by |-> d, files |-> op[d].next]
  <2>1. m \in Manifest
    BY <1>a DEF Manifest, Operation
  <2>2. heads' = Append(heads, m)
    BY <1>3 DEF Put
  <2> HIDE DEF m
  <2>3. /\ Len(heads) \in Nat /\ Len(heads') = Len(heads) + 1
        /\ \A i \in 1..Len(heads) : heads'[i] = heads[i]
        /\ heads'[Len(heads) + 1] = m
    BY <2>1, <2>2, <1>a DEF StoreOK
  <2>4. \A n \in 0..Len(heads) : FilesAt(n)' = FilesAt(n) /\ ParentOf(n)' = ParentOf(n)
    BY <2>3 DEF FilesAt, ParentOf
  <2> QED
    BY <1>3, <2>3, <2>4 DEF m
<1> QED
  BY <1>1, <1>2, <1>3

(* What a device has held, and what was deleted, only grows; another        *)
(* device's share of the state stays as it is.                              *)
LEMMA HistoryGrows ==
    ASSUME TypeInv, NEW d \in Device, Step(d)
    PROVE  /\ \A e \in Device, p \in Path : held[e][p] \subseteq held'[e][p]
           /\ \A e \in Device \ {d} : held'[e] = held[e]
           /\ deleted \subseteq deleted'
<1>a. held \in [Device -> [Path -> SUBSET Content]]
  BY DEF TypeInv, HistoryOK
<1> USE DEF history
<1>1. CASE Quiet \/ Agrees(d) \/ Put(d) \/ Fail(d) \/ Crash(d)
  BY <1>1, <1>a DEF Quiet, Agrees, Refresh, Choose, Recompare, PersistPush, FinishPull, CancelPull,
     Put, Fail, Crash
<1>2. CASE Writes(d)
  <2>1. deleted \subseteq deleted'
    BY <1>2 DEF Writes, Edit, PullWrite, PullDelete, AcceptWrite, WriteLate
  <2>2. PICK p \in Path, c \in Content : held' = [held EXCEPT ![d][p] = @ \cup {c}]
    BY <1>2, WriteShape
  <2> QED
    BY <1>a, <2>1, <2>2
<1> QED
  BY <1>1, <1>2, StepKinds

(* Another device's disk, agreement and leftovers stay as they are.         *)
LEMMA OthersKept ==
    ASSUME TypeInv, NEW d \in Device, Step(d), NEW e \in Device \ {d}
    PROVE  disk'[e] = disk[e] /\ baseline'[e] = baseline[e] /\ late'[e] = late[e]
<1>a. LocalOK
  BY DEF TypeInv
<1> USE DEF LocalOK, local
<1>1. CASE Quiet \/ Put(d) \/ Fail(d) \/ Crash(d)
  BY <1>1, <1>a DEF Quiet, Put, Fail, Crash
<1>2. CASE Writes(d)
  BY <1>2, <1>a, WriteShape
<1>3. CASE Agrees(d)
  <2>1. baseline'[e] = baseline[e]
    <3>1. CASE Refresh(d) \/ Choose(d) \/ Recompare(d)
      BY <1>a, <3>1 DEF Refresh, Choose, Recompare, refreshed, refreshedTo, compareRefused
    <3>2. CASE PersistPush(d)
      BY <1>a, <3>2 DEF PersistPush
    <3>3. CASE FinishPull(d) \/ CancelPull(d)
      BY <1>a, <3>3 DEF FinishPull, CancelPull, settle
    <3> QED
      BY <1>3, <3>1, <3>2, <3>3 DEF Agrees
  <2>2. disk' = disk /\ late' = late
    BY <1>3 DEF Agrees, Refresh, Choose, Recompare, PersistPush, FinishPull, CancelPull
  <2> QED
    BY <2>1, <2>2
<1> QED
  BY <1>1, <1>2, <1>3, StepKinds

-----------------------------------------------------------------------------
(* How an operation moves.                                                  *)

(* n goes on with operation o: no new path to transfer, nothing settled,    *)
(* and a path never leaves the touched ones.                                *)
Continues(o, n) ==
    /\ n.kind = o.kind /\ n.base = o.base /\ n.snap = o.snap
    /\ n.next = o.next /\ n.settled = o.settled
    /\ n.todo \subseteq o.todo
    /\ n.todo \cup n.fetched \subseteq o.todo \cup o.fetched
    /\ n.todo \cap n.fetched \subseteq o.todo \cap o.fetched
    /\ o.touched \subseteq n.touched

Starts(d) == StartPush(d) \/ StartKeep(d) \/ StartPull(d) \/ StartAccept(d)

Lands(d, p) == PullWrite(d, p) \/ PullDelete(d, p) \/ AcceptWrite(d, p)

(* Publishing moves from phase to phase; nothing else does, but to end.     *)
Moves(d, n) ==
    /\ op' = [op EXCEPT ![d] = n]
    /\ n \in {Idle, Recomparing} \/ Continues(op[d], n)
    /\ \/ n \in {Idle, Recomparing}
       \/ n.pc = op[d].pc /\ n.mine = op[d].mine
       \/ Precheck(d) \/ Put(d) \/ Verify(d)

(* Recording a write moves the operation no further.                        *)
LEMMA TouchingMoves ==
    ASSUME op \in [Device -> Operation], NEW d \in Device, NEW p \in Path, op' = touching(d, p)
    PROVE  \E n : Moves(d, n)
<1>1. CASE op[d].kind \in {"pull", "accept"}
  <2> DEFINE n == [op[d] EXCEPT !.touched = @ \cup {p}]
  <2>1. op' = [op EXCEPT ![d] = n]
    BY <1>1 DEF touching
  <2>2. Continues(op[d], n) /\ n.pc = op[d].pc /\ n.mine = op[d].mine
    BY DEF Continues, Operation
  <2> QED
    BY <2>1, <2>2 DEF Moves
<1>2. CASE op[d].kind \notin {"pull", "accept"}
  <2>1. op' = [op EXCEPT ![d] = op[d]]
    BY <1>2 DEF touching
  <2> QED
    BY <2>1 DEF Moves, Continues
<1> QED
  BY <1>1, <1>2

(* How the operation of a device moves when the device takes a step.        *)
LEMMA OpMoves ==
    ASSUME TypeInv, NEW d \in Device, Step(d)
    PROVE  \/ Starts(d)
           \/ \E p \in Path : KeepRead(d, p) \/ Lands(d, p)
           \/ \E n : Moves(d, n)
<1>a. op \in [Device -> Operation] /\ op[d] \in Operation
  BY DEF TypeInv, OpsOK
<1>1. ASSUME NEW p \in Path, Upload(d, p) \/ UploadResumed(d, p)
      PROVE  \E n : Moves(d, n)
  <2> DEFINE n == [op[d] EXCEPT !.todo = @ \ uploaded(d, p)]
  <2>1. op' = [op EXCEPT ![d] = n]
    BY <1>1, <1>a DEF Upload, UploadResumed
  <2>2. Continues(op[d], n) /\ n.pc = op[d].pc /\ n.mine = op[d].mine
    BY <1>a DEF Continues, Operation
  <2> QED
    BY <2>1, <2>2 DEF Moves
<1>2. ASSUME NEW p \in Path, PullLeave(d, p) PROVE \E n : Moves(d, n)
  <2> DEFINE n == [op[d] EXCEPT !.todo = @ \ {p}, !.fetched = @ \ {p}]
  <2>1. op' = [op EXCEPT ![d] = n]
    BY <1>2, <1>a DEF PullLeave
  <2>2. Continues(op[d], n) /\ n.pc = op[d].pc /\ n.mine = op[d].mine
    BY <1>a DEF Continues, Operation
  <2> QED
    BY <2>1, <2>2 DEF Moves
<1>3. ASSUME NEW p \in Path, PullFetch(d, p) PROVE \E n : Moves(d, n)
  <2> DEFINE n == [op[d] EXCEPT !.todo = @ \ {p}, !.fetched = @ \cup {p}]
  <2>1. op' = [op EXCEPT ![d] = n] /\ p \in op[d].todo
    BY <1>3, <1>a DEF PullFetch, downloads
  <2>2. Continues(op[d], n) /\ n.pc = op[d].pc /\ n.mine = op[d].mine
    BY <1>a, <2>1 DEF Continues, Operation
  <2> QED
    BY <2>1, <2>2 DEF Moves
<1>4. ASSUME Precheck(d) PROVE \E n : Moves(d, n)
  <2> DEFINE n == [op[d] EXCEPT !.pc = "put"]
  <2>1. op' = [op EXCEPT ![d] = n]
    BY <1>4, <1>a DEF Precheck
  <2>2. Continues(op[d], n)
    BY <1>a DEF Continues, Operation
  <2> QED
    BY <1>4, <2>1, <2>2 DEF Moves
<1>5. ASSUME Put(d) PROVE \E n : Moves(d, n)
  <2> DEFINE n == [op[d] EXCEPT !.pc = "verify", !.mine = Len(heads) + 1]
  <2>1. op' = [op EXCEPT ![d] = n]
    BY <1>5, <1>a DEF Put
  <2>2. Continues(op[d], n)
    BY <1>a DEF Continues, Operation
  <2> QED
    BY <1>5, <2>1, <2>2 DEF Moves
<1>6. ASSUME Verify(d) PROVE \E n : Moves(d, n)
  <2> DEFINE n == [op[d] EXCEPT !.pc = "persist"]
  <2>1. op' = [op EXCEPT ![d] = n]
    BY <1>6, <1>a DEF Verify
  <2>2. Continues(op[d], n)
    BY <1>a DEF Continues, Operation
  <2> QED
    BY <1>6, <2>1, <2>2 DEF Moves
<1>7. ASSUME NEW p \in Path, NEW c \in Content, Edit(d, p, c) PROVE \E n : Moves(d, n)
  BY <1>7, <1>a, TouchingMoves DEF Edit
<1>8. ASSUME NEW w \in late[d], WriteLate(d, w) PROVE \E n : Moves(d, n)
  <2>1. w.path \in Path
    BY DEF TypeInv, LocalOK, LateWrite
  <2> QED
    BY <1>8, <1>a, <2>1, TouchingMoves DEF WriteLate
<1>9. ASSUME op' = [op EXCEPT ![d] = Idle] \/ op' = [op EXCEPT ![d] = Recomparing]
      PROVE  \E n : Moves(d, n)
  BY <1>9 DEF Moves
<1>10. Recompare(d) \/ PrecheckFails(d)
         \/ VerifyFails(d) \/ PersistPush(d) => \E n : Moves(d, n)
  BY <1>9 DEF Recompare, PrecheckFails, VerifyFails,
     PersistPush
<1>11. FinishPull(d) \/ CancelPull(d) \/ Fail(d) \/ Crash(d) => \E n : Moves(d, n)
  BY <1>9 DEF FinishPull, CancelPull, settle, Fail, Crash
<1>12. \A p \in Path : UploadMismatch(d, p) => \E n : Moves(d, n)
  BY <1>9 DEF UploadMismatch
<1>13. Refresh(d) \/ Choose(d) \/ KeepNothing(d) => \E n : Moves(d, n)
  <2>1. op' = op => op' = [op EXCEPT ![d] = op[d]]
    BY <1>a
  <2>2. Continues(op[d], op[d])
    BY DEF Continues
  <2> QED
    BY <2>1, <2>2 DEF Refresh, Choose, KeepNothing, Moves
<1> QED
  BY <1>1, <1>2, <1>3, <1>4, <1>5, <1>6, <1>7, <1>8, <1>10, <1>11, <1>12, <1>13
     DEF Step, Push, Keep, Publish, Pull, Accept, Fault, Starts, Lands

-----------------------------------------------------------------------------
(* What a device publishes over, settles and agrees to, it has held; what   *)
(* its user keeps it may publish over unheld.                               *)

(* Knowing a version is knowing its content; knowledge of one is not empty. *)
LEMMA KnowsFacts ==
    ASSUME NEW s \in SUBSET Content, NEW t \in SUBSET Content, s \subseteq t,
           NEW a \in Content, NEW b \in Content
    PROVE  /\ a \in s => Knows(s, a)
           /\ Knows(s, a) => Knows(t, a)
           /\ Knows(s, a) /\ (sameContent(a, b) \/ sameContent(b, a)) => Knows(s, b)
           /\ Knows(s, a) /\ a # NoFile => s \ {NoFile} # {}
<1>1. a \in s => Knows(s, a)
  BY SameContentEquivalence DEF Knows
<1>2. Knows(s, a) => Knows(t, a)
  BY DEF Knows
<1>3. Knows(s, a) /\ (sameContent(a, b) \/ sameContent(b, a)) => Knows(s, b)
  <2> SUFFICES ASSUME NEW v \in s, sameContent(v, a), sameContent(a, b) \/ sameContent(b, a)
               PROVE  sameContent(v, b)
    BY DEF Knows
  <2> QED
    BY SameContentEquivalence
<1>4. Knows(s, a) /\ a # NoFile => s \ {NoFile} # {}
  <2> SUFFICES ASSUME NEW v \in s, sameContent(v, a), a # NoFile PROVE v # NoFile
    BY DEF Knows
  <2> QED
    BY NoFileAssumption DEF sameContent
<1> QED
  BY <1>1, <1>2, <1>3, <1>4

(* An operation that goes on, or ends, claims no more than before.          *)
LEMMA OpHeldKept ==
    ASSUME NEW o, NEW n, NEW s, NEW t, NEW f, NEW p, OpHeld(o, s, f, p), s \subseteq t,
           n \in {Idle, Recomparing} \/ Continues(o, n)
    PROVE  OpHeld(n, t, f, p)
<1>1. \A c : Knows(s, c) => Knows(t, c)
  BY DEF Knows
<1>2. CASE n \in {Idle, Recomparing}
  BY <1>2 DEF OpHeld, Idle, Recomparing
<1>3. CASE Continues(o, n)
  BY <1>1, <1>3 DEF OpHeld, Continues
<1> QED
  BY <1>2, <1>3

(* What d agrees on after a step, it has held.                              *)
LEMMA BaselineHeld ==
    ASSUME TypeInv, HeldInv, NEW d \in Device, Step(d), NEW p \in Path
    PROVE  Knows(held'[d][p], baseline'[d].files[p])
<1>a. /\ StoreOK /\ LocalOK /\ HistoryOK /\ OpOK(op[d], Len(heads)) /\ DeviceHeld(d, p)
      /\ op[d] \in Operation /\ disk[d][p] \in Content /\ baseline[d].files[p] \in Content
      /\ FilesAt(op[d].base)[p] \in Content
  BY FilesAtType DEF TypeInv, HeldInv, OpsOK, OpOK, LocalOK, Files
<1>b. held[d][p] \subseteq held'[d][p] /\ held[d][p] \in SUBSET Content
      /\ held'[d][p] \in SUBSET Content
  BY HistoryGrows, StepTypeInv, <1>a DEF TypeInv, HistoryOK
<1>c. Knows(held[d][p], baseline[d].files[p]) /\ disk[d][p] \in held[d][p]
      /\ OpHeld(op[d], held[d][p], FilesAt(op[d].base), p)
  BY <1>a DEF DeviceHeld
<1>d. SUFFICES Knows(held[d][p], baseline'[d].files[p])
  BY <1>b DEF Knows
<1>1. CASE Quiet \/ Writes(d) \/ Put(d) \/ Fail(d) \/ Crash(d)
  <2>1. baseline' = baseline
    BY <1>1, WriteShape DEF Quiet, Put, Fail, Crash, local
  <2> QED
    BY <2>1, <1>c
<1>2. CASE Refresh(d) \/ Choose(d) \/ Recompare(d)
  <2>1. PICK n \in 0..Len(heads) :
             baseline' = baseline \/
             baseline' = [baseline EXCEPT ![d] =
               [id |-> n,
                files |-> advanceFiles(baseline[d].files, FilesAt(n), convergedOf(d, n))]]
    BY <1>2, <1>a DEF Refresh, Choose, Recompare, refreshed, refreshedTo, compareRefused, LocalOK
  <2>2. CASE baseline' = baseline \/ p \notin convergedOf(d, n)
    BY <2>1, <2>2, <1>a, <1>c DEF LocalOK, advanceFiles
  <2>3. CASE baseline' # baseline /\ p \in convergedOf(d, n)
    <3> DEFINE files == advanceFiles(baseline[d].files, FilesAt(n), convergedOf(d, n))
    <3>0. files[p] = FilesAt(n)[p] /\ FilesAt(n)[p] \in Content
      BY <2>3, <1>a, FilesAtType DEF advanceFiles, Files
    <3> HIDE DEF files
    <3>1. baseline'[d].files[p] = FilesAt(n)[p] /\ FilesAt(n)[p] \in Content
      <4>1. baseline' = [baseline EXCEPT ![d] = [id |-> n, files |-> files]]
        BY <2>1, <2>3 DEF files
      <4> QED
        BY <3>0, <4>1, <1>a DEF LocalOK
    <3>2. sameContent(disk[d][p], FilesAt(n)[p])
      BY <2>3 DEF convergedOf, converged
    <3> QED
      BY <3>1, <3>2, <1>a, <1>b, <1>c DEF Knows
  <2> QED
    BY <2>2, <2>3
<1>3. CASE PersistPush(d)
  <2>1. /\ op[d].kind \in {"push", "keep"}
        /\ baseline' = [baseline EXCEPT ![d] =
             [id |-> op[d].mine,
              files |-> advanceFiles(baseline[d].files, op[d].next, op[d].settled)]]
    BY <1>3, <1>a DEF PersistPush, running, LocalOK
  <2>2. baseline'[d].files[p] =
          IF p \in op[d].settled THEN op[d].next[p] ELSE baseline[d].files[p]
    BY <2>1, <1>a DEF LocalOK, advanceFiles
  <2> QED
    BY <2>1, <2>2, <1>c DEF OpHeld
<1>4. CASE FinishPull(d) \/ CancelPull(d)
  <2>1. /\ op[d].kind \in {"pull", "accept"}
        /\ baseline' = [baseline EXCEPT ![d] =
             [id |-> op[d].base,
              files |-> advanceFiles(baseline[d].files, FilesAt(op[d].base), op[d].settled)]]
    BY <1>4, <1>a DEF FinishPull, CancelPull, settle, running, LocalOK
  <2>2. baseline'[d].files[p] =
          IF p \in op[d].settled THEN FilesAt(op[d].base)[p] ELSE baseline[d].files[p]
    BY <2>1, <1>a DEF LocalOK, advanceFiles
  <2>3. p \in op[d].settled => FilesAt(op[d].base)[p] \in held[d][p]
    BY <2>1, <1>c DEF OpHeld
  <2> QED
    BY <2>2, <2>3, <1>a, <1>b, <1>c, KnowsFacts
<1> QED
  BY <1>1, <1>2, <1>3, <1>4, StepKinds DEF Agrees

(* What d's operation relies on after a step, d has held.                   *)
LEMMA OpHeldStep ==
    ASSUME TypeInv, HeldInv, NEW d \in Device, Step(d), NEW p \in Path
    PROVE  /\ op'[d].base \in 0..Len(heads)
           /\ OpHeld(op'[d], held'[d][p], FilesAt(op[d].base)', p)
<1>a. /\ StoreOK /\ LocalOK /\ HistoryOK /\ OpOK(op[d], Len(heads)) /\ DeviceHeld(d, p)
      /\ op \in [Device -> Operation] /\ op[d] \in Operation /\ op[d].base \in 0..Len(heads)
      /\ disk[d] \in Files
  BY DEF TypeInv, HeldInv, OpsOK, OpOK, LocalOK
<1>b. /\ held[d][p] \subseteq held'[d][p] /\ held[d][p] \in SUBSET Content
      /\ held'[d][p] \in SUBSET Content
  BY HistoryGrows, StepTypeInv, <1>a DEF TypeInv, HistoryOK
<1>c. /\ Knows(held[d][p], baseline[d].files[p]) /\ disk[d][p] \in held[d][p]
      /\ NoFile \in held[d][p] /\ OpHeld(op[d], held[d][p], FilesAt(op[d].base), p)
  BY <1>a DEF DeviceHeld
<1>d. /\ Len(heads) \in Nat
      /\ \A n \in 0..Len(heads) : (IF n = 0 THEN NoFiles ELSE heads'[n].files) = FilesAt(n)
  BY HeadsGrow, <1>a DEF FilesAt
<1>e. ASSUME NEW o, op' = [op EXCEPT ![d] = o], o.base \in 0..Len(heads),
             OpHeld(o, held'[d][p], FilesAt(o.base), p)
      PROVE  /\ op'[d].base \in 0..Len(heads)
             /\ OpHeld(op'[d], held'[d][p], FilesAt(op[d].base)', p)
  <2>1. op'[d] = o
    BY <1>a, <1>e
  <2>2. FilesAt(op[d].base)' = FilesAt(o.base)
    BY <2>1, <1>d, <1>e DEF FilesAt
  <2> QED
    BY <2>1, <2>2, <1>e
<1>f. \A n \in 0..Len(heads) : FilesAt(n) \in Files
  BY <1>a, FilesAtType
<1>1. ASSUME NEW n, Moves(d, n)
      PROVE  /\ op'[d].base \in 0..Len(heads)
             /\ OpHeld(op'[d], held'[d][p], FilesAt(op[d].base)', p)
  <2>1. n.base \in {0, op[d].base}
    BY <1>1 DEF Moves, Continues, Idle, Recomparing
  <2>2. CASE n \in {Idle, Recomparing}
    <3>1. n.kind = "none" /\ n.base = 0
      BY <2>2 DEF Idle, Recomparing
    <3>2. op' = [op EXCEPT ![d] = n] /\ 0 \in 0..Len(heads)
      BY <1>1, <1>d DEF Moves
    <3>3. OpHeld(n, held'[d][p], FilesAt(n.base), p)
      BY <3>1 DEF OpHeld
    <3> QED
      BY <3>1, <3>2, <3>3, <1>e
  <2>3. CASE Continues(op[d], n)
    <3>1. OpHeld(n, held'[d][p], FilesAt(op[d].base), p)
      BY <2>3, <1>b, <1>c, OpHeldKept
    <3>2. n.base = op[d].base
      BY <2>3 DEF Continues
    <3> QED
      BY <1>1, <1>a, <1>e, <3>1, <3>2 DEF Moves
  <2> QED
    BY <1>1, <2>2, <2>3 DEF Moves
<1>2. ASSUME StartPush(d)
      PROVE  /\ op'[d].base \in 0..Len(heads)
             /\ OpHeld(op'[d], held'[d][p], FilesAt(op[d].base)', p)
  <2>1. PICK n \in 0..Len(heads), paths \in SUBSET Path :
          /\ paths \subseteq localOf(d, n)
          /\ op' = [op EXCEPT ![d] =
                Begin("push", n, disk[d],
                      {q \in paths : disk[d][q] \in Hash \ hashesOf(FilesAt(n))},
                      publishedDelta(FilesAt(n), advanceFiles(FilesAt(n), disk[d], paths)),
                      advanceFiles(FilesAt(n), disk[d], paths))]
    BY <1>2, ClassesArePaths DEF StartPush, localOf
  <2> DEFINE next == advanceFiles(FilesAt(n), disk[d], paths)
             delta == publishedDelta(FilesAt(n), next)
             todo == {q \in paths : disk[d][q] \in Hash \ hashesOf(FilesAt(n))}
             o == Begin("push", n, disk[d], todo, delta, next)
  <2>2. /\ p \in delta => next[p] # FilesAt(n)[p]
        /\ next[p] # FilesAt(n)[p] => p \in paths /\ next[p] = disk[d][p]
    BY DEF publishedDelta, advanceFiles
  <2>3. p \in paths => Knows(held[d][p], FilesAt(n)[p])
    <3> SUFFICES ASSUME p \in paths PROVE Knows(held[d][p], FilesAt(n)[p])
      OBVIOUS
    <3>1. CASE n = 0
      BY <3>1, <1>b, <1>c, KnowsFacts DEF FilesAt, NoFiles, Content
    <3>2. CASE n # 0
      <4>1. sameContent(FilesAt(n)[p], baseline[d].files[p])
        BY <2>1, <3>2 DEF localOf, localChanges, remoteChanged, agreed
      <4>2. FilesAt(n)[p] \in Content /\ baseline[d].files[p] \in Content
        BY <1>a, <1>f DEF LocalOK, Files
      <4> QED
        BY <4>1, <4>2, <1>b, <1>c, KnowsFacts
    <3> QED
      BY <3>1, <3>2
  <2>4. disk[d][p] \in Content /\ FilesAt(n)[p] \in Content
    BY <1>a, <1>f DEF Files
  <2>5. /\ next[p] # FilesAt(n)[p] => Knows(held'[d][p], FilesAt(n)[p])
        /\ p \in delta => Knows(held'[d][p], next[p])
    BY <2>2, <2>3, <2>4, <1>b, <1>c, KnowsFacts
  <2>6. o.kind = "push" /\ o.base = n /\ o.next = next /\ o.settled = delta
    BY DEF Begin
  <2>7. op' = [op EXCEPT ![d] = o]
    BY <2>1
  <2> HIDE DEF o, next, delta
  <2>8. OpHeld(o, held'[d][p], FilesAt(n), p)
    BY <2>5, <2>6 DEF OpHeld
  <2> QED
    BY <2>6, <2>7, <2>8, <1>e
<1>3. ASSUME StartKeep(d)
      PROVE  /\ op'[d].base \in 0..Len(heads)
             /\ OpHeld(op'[d], held'[d][p], FilesAt(op[d].base)', p)
  <2>1. PICK n \in 0..Len(heads), paths \in SUBSET Path :
          /\ paths \subseteq conflictsOf(d, n)
          /\ op' = [op EXCEPT ![d] = Begin("keep", n, disk[d], paths, {}, FilesAt(n))]
    BY <1>3, KeepShape
  <2>5. p \in paths => held'[d][p] \ {NoFile} # {}
    <3> SUFFICES ASSUME p \in paths PROVE held[d][p] \ {NoFile} # {}
      BY <1>b
    <3>1. disk[d][p] \in Content /\ baseline[d].files[p] \in Content
      BY <1>a DEF LocalOK, Files
    <3>2. ~sameContent(disk[d][p], agreed(d, n)[p])
      BY <2>1 DEF conflictsOf, conflicts, bothChanged, localChanged
    <3>3. disk[d][p] # NoFile \/ baseline[d].files[p] # NoFile
      BY <3>2 DEF agreed, NoFiles, sameContent
    <3> QED
      BY <3>1, <3>3, <1>b, <1>c, KnowsFacts
  <2> DEFINE o == Begin("keep", n, disk[d], paths, {}, FilesAt(n))
  <2>2. /\ o.kind = "keep" /\ o.base = n /\ o.next = FilesAt(n) /\ o.settled = {}
        /\ o.todo = paths
    BY DEF Begin
  <2>3. op' = [op EXCEPT ![d] = o]
    BY <2>1
  <2> HIDE DEF o
  <2>4. OpHeld(o, held'[d][p], FilesAt(n), p)
    BY <2>2, <2>5 DEF OpHeld
  <2> QED
    BY <2>2, <2>3, <2>4, <1>e
<1>4. ASSUME StartPull(d) \/ StartAccept(d)
      PROVE  /\ op'[d].base \in 0..Len(heads)
             /\ OpHeld(op'[d], held'[d][p], FilesAt(op[d].base)', p)
  <2>1. PICK n \in 0..Len(heads), paths \in SUBSET Path, kind \in {"pull", "accept"} :
          op' = [op EXCEPT ![d] = Begin(kind, n, disk[d], paths, {}, NoFiles)]
    BY <1>4, <1>d, ClassesArePaths DEF StartPull, StartAccept, remoteOf, conflictsOf
  <2> DEFINE o == Begin(kind, n, disk[d], paths, {}, NoFiles)
  <2>2. o.kind \in {"pull", "accept"} /\ o.base = n /\ o.settled = {}
    BY DEF Begin
  <2>3. op' = [op EXCEPT ![d] = o]
    BY <2>1
  <2> HIDE DEF o
  <2>4. OpHeld(o, held'[d][p], FilesAt(n), p)
    BY <2>2 DEF OpHeld
  <2> QED
    BY <2>2, <2>3, <2>4, <1>e
<1>5. ASSUME NEW q \in Path, KeepRead(d, q)
      PROVE  /\ op'[d].base \in 0..Len(heads)
             /\ OpHeld(op'[d], held'[d][p], FilesAt(op[d].base)', p)
  <2> DEFINE next == [op[d].next EXCEPT ![q] = disk[d][q]]
             o == [op[d] EXCEPT !.todo = @ \ {q}, !.settled = @ \cup {q}, !.next = next]
  <2>1. op' = [op EXCEPT ![d] = o]
    BY <1>5, <1>a DEF KeepRead
  <2>2. op[d].kind = "keep" /\ q \in op[d].todo /\ op[d].next \in Files
    BY <1>5, <1>a DEF KeepRead, running, Operation
  <2>3. /\ o.kind = "keep" /\ o.base = op[d].base /\ o.next = next
        /\ o.settled = op[d].settled \cup {q} /\ o.todo = op[d].todo \ {q}
    BY <2>2, <1>a DEF Operation
  <2>4. next[p] = IF p = q THEN disk[d][p] ELSE op[d].next[p]
    BY <2>2 DEF Files
  <2>5. disk[d][p] \in Content /\ FilesAt(op[d].base)[p] \in Content
    BY <1>a, <1>f DEF Files
  <2> HIDE DEF o, next
  <2>6. OpHeld(o, held[d][p], FilesAt(op[d].base), p)
    BY <2>2, <2>3, <2>4, <2>5, <1>b, <1>c, KnowsFacts DEF OpHeld
  <2>7. OpHeld(o, held'[d][p], FilesAt(op[d].base), p)
    <3>1. Continues(o, o)
      BY DEF Continues
    <3> QED
      BY <3>1, <2>6, <1>b, OpHeldKept
  <2> QED
    BY <2>1, <2>3, <2>7, <1>a, <1>e
<1>6. ASSUME NEW q \in Path, Lands(d, q)
      PROVE  /\ op'[d].base \in 0..Len(heads)
             /\ OpHeld(op'[d], held'[d][p], FilesAt(op[d].base)', p)
  <2>1. PICK o : /\ op' = [op EXCEPT ![d] = o]
                 /\ o.kind = op[d].kind /\ o.base = op[d].base
                 /\ o.settled = op[d].settled \cup {q}
    <3>1. CASE PullWrite(d, q)
      <4> DEFINE o == [op[d] EXCEPT !.fetched = @ \ {q}, !.settled = @ \cup {q}]
      <4>1. op' = [op EXCEPT ![d] = o]
        BY <3>1, <1>a DEF PullWrite
      <4>2. o.kind = op[d].kind /\ o.base = op[d].base /\ o.settled = op[d].settled \cup {q}
        BY <1>a DEF Operation
      <4> QED
        BY <4>1, <4>2
    <3>2. CASE PullDelete(d, q) \/ AcceptWrite(d, q)
      <4> DEFINE o == [op[d] EXCEPT !.todo = @ \ {q}, !.settled = @ \cup {q}]
      <4>1. op' = [op EXCEPT ![d] = o]
        BY <3>2, <1>a DEF PullDelete, AcceptWrite
      <4>2. o.kind = op[d].kind /\ o.base = op[d].base /\ o.settled = op[d].settled \cup {q}
        BY <1>a DEF Operation
      <4> QED
        BY <4>1, <4>2
    <3> QED
      BY <1>6, <3>1, <3>2 DEF Lands
  <2>2. op[d].kind \in {"pull", "accept"} /\ FilesAt(op[d].base)[q] \in held'[d][q]
    <3>1. ASSUME NEW c \in Content, written(d, q, c) PROVE c \in held'[d][q]
      BY <3>1, <1>a DEF written, HistoryOK
    <3>2. incoming(d, q) \in Content /\ NoFile \in Content
      BY <1>a, <1>f DEF incoming, Files, Content
    <3>3. CASE PullWrite(d, q) \/ AcceptWrite(d, q)
      BY <3>1, <3>2, <3>3 DEF PullWrite, AcceptWrite, running, incoming
    <3>4. CASE PullDelete(d, q)
      <4>1. incoming(d, q) = NoFile
        BY <3>4 DEF PullDelete, downloads
      <4> QED
        BY <3>1, <3>2, <3>4, <4>1 DEF PullDelete, running, incoming
    <3> QED
      BY <1>6, <3>3, <3>4 DEF Lands
  <2>3. OpHeld(o, held'[d][p], FilesAt(op[d].base), p)
    BY <2>1, <2>2, <1>b, <1>c DEF OpHeld
  <2> QED
    BY <2>1, <2>3, <1>a, <1>e
<1> QED
  BY <1>1, <1>2, <1>3, <1>4, <1>5, <1>6, OpMoves DEF Starts

(* Another device's operation stays as it is.                               *)
LEMMA OpFrame ==
    ASSUME TypeInv, NEW d \in Device, Step(d), NEW e \in Device \ {d}
    PROVE  op'[e] = op[e]
<1>a. op \in [Device -> Operation]
  BY DEF TypeInv, OpsOK
<1>1. CASE Starts(d)
  BY <1>1, <1>a DEF Starts, StartPush, StartKeep, StartPull, StartAccept
<1>2. CASE \E p \in Path : KeepRead(d, p) \/ Lands(d, p)
  BY <1>2, <1>a DEF KeepRead, Lands, PullWrite, PullDelete, AcceptWrite
<1>3. CASE \E n : Moves(d, n)
  BY <1>3, <1>a DEF Moves
<1> QED
  BY <1>1, <1>2, <1>3, OpMoves

(* A step keeps every device's knowledge sound.                             *)
LEMMA HeldStep ==
    ASSUME TypeInv, HeldInv, NEW d \in Device, Step(d)
    PROVE  HeldInv'
<1>a. /\ StoreOK /\ LocalOK /\ HistoryOK /\ OpOK(op[d], Len(heads))
      /\ op \in [Device -> Operation] /\ op[d].base \in 0..Len(heads) /\ Len(heads) \in Nat
  BY DEF TypeInv, OpsOK, OpOK, StoreOK
<1>b. \A e \in Device, p \in Path : held[e][p] \subseteq held'[e][p]
  BY HistoryGrows
<1>c. TypeInv'
  BY StepTypeInv
<1>d. /\ \A i \in 1..Len(heads) : heads'[i] = heads[i]
      /\ \A n \in 0..Len(heads) : (IF n = 0 THEN NoFiles ELSE heads'[n].files) = FilesAt(n)
      /\ \A n \in 0..Len(heads) : (IF n = 0 THEN 0 ELSE heads'[n].parent) = ParentOf(n)
  BY HeadsGrow DEF FilesAt, ParentOf
<1>2. ASSUME NEW e \in Device, NEW p \in Path PROVE DeviceHeld(e, p)'
  <2>a. DeviceHeld(e, p)
    BY DEF HeldInv
  <2>1. CASE e = d
    <3>1. NoFile \in held'[d][p]
      BY <2>1, <2>a, <1>b DEF DeviceHeld
    <3>2. disk'[d][p] \in held'[d][p]
      <4>1. CASE disk' = disk
        BY <4>1, <2>1, <2>a, <1>b DEF DeviceHeld
      <4>2. CASE Writes(d)
        <5>1. PICK q \in Path, c \in Content :
                /\ disk' = [disk EXCEPT ![d][q] = c]
                /\ held' = [held EXCEPT ![d][q] = @ \cup {c}]
          BY <4>2, WriteShape
        <5>2. disk'[d][p] = IF p = q THEN c ELSE disk[d][p]
          BY <5>1, <1>a DEF LocalOK, Files
        <5>3. c \in held'[d][q]
          BY <5>1, <1>a DEF HistoryOK
        <5> QED
          BY <5>2, <5>3, <2>1, <2>a, <1>b DEF DeviceHeld
      <4> QED
        BY <4>1, <4>2, StepKinds DEF Quiet, Agrees, Refresh, Choose, Recompare, PersistPush, FinishPull,
           CancelPull, Put, Fail, Crash, local
    <3>3. OpHeld(op[d], held[d][p], FilesAt(op[d].base), p)'
      BY OpHeldStep
    <3> QED
      BY <2>1, <3>1, <3>2, <3>3, BaselineHeld DEF DeviceHeld
  <2>2. CASE e # d
    <3>1. /\ disk'[e] = disk[e] /\ baseline'[e] = baseline[e] /\ held'[e] = held[e]
      BY <2>2, OthersKept, HistoryGrows
    <3>2. op'[e] = op[e]
      BY <2>2, <1>a, OpFrame
    <3>3. FilesAt(op[e].base)' = FilesAt(op[e].base)
      <4>1. op[e].base \in 0..Len(heads)
        BY DEF TypeInv, OpsOK, OpOK
      <4> QED
        BY <3>2, <4>1, <1>d DEF FilesAt
    <3> QED
      BY <2>a, <3>1, <3>2, <3>3 DEF DeviceHeld
  <2> QED
    BY <2>1, <2>2
<1> QED
  BY <1>2 DEF HeldInv

(* At first every device knows its own disk.                                *)
LEMMA HeldInit == Init => HeldInv
<1> SUFFICES ASSUME Init PROVE HeldInv
  OBVIOUS
<1>a. TypeInv
  BY InitTypeInv
<1>2. ASSUME NEW d \in Device, NEW p \in Path PROVE DeviceHeld(d, p)
  <2>1. held[d][p] = {disk[d][p], NoFile} /\ op[d] = Idle
    BY DEF Init
  <2>2. baseline[d].files[p] \in {disk[d][p], NoFile}
    BY DEF Init, NoFiles
  <2>3. disk[d][p] \in Content /\ NoFile \in Content
    BY <1>a DEF TypeInv, LocalOK, Files, Content
  <2>4. Knows(held[d][p], baseline[d].files[p])
    BY <2>1, <2>2, <2>3, SameContentEquivalence DEF Knows
  <2> QED
    BY <2>1, <2>4 DEF DeviceHeld, OpHeld, Idle
<1> QED
  BY <1>2 DEF HeldInv

(* A step of nobody changes nobody's knowledge.                             *)
LEMMA HeldStutter == HeldInv /\ UNCHANGED vars => HeldInv'
BY DEF vars, store, local, history, HeldInv, DeviceHeld, FilesAt

(* What a put replaces its device has held, or its user chose to keep.      *)
LEMMA HeldReplaces ==
    ASSUME TypeInv, HeldInv, NEW d \in Device, Step(d)
    PROVE  ReplacesHeldOrKept
<1>a. Len(heads) \in Nat /\ op[d].base \in 0..Len(heads)
  BY DEF TypeInv, StoreOK, OpsOK, OpOK
<1> DEFINE m == [parent |-> op[d].base, by |-> d, files |-> op[d].next]
<1> SUFFICES ASSUME heads' # heads
             PROVE  \A p \in Path : op[d].next[p] # FilesAt(op[d].base)[p]
                      => \/ FilesAt(op[d].base)[p] = NoFile
                         \/ \E c \in held[d][p] : sameContent(c, FilesAt(op[d].base)[p])
                         \/ op[d].kind = "keep" /\ p \in op[d].settled
  <2>1. CASE heads' = heads
    BY <2>1 DEF ReplacesHeldOrKept
  <2>2. CASE heads' # heads
    <3>1. heads'[Len(heads')] = m
      BY <2>2, HeadsGrow
    <3>2. m.parent = op[d].base /\ m.by = d /\ m.files = op[d].next
      OBVIOUS
    <3> HIDE DEF m
    <3> QED
      BY <2>2, <3>1, <3>2 DEF ReplacesHeldOrKept
  <2> QED
    BY <2>1, <2>2
<1>1. op[d].kind \in {"push", "keep"}
  BY HeadsGrow DEF Put, running
<1> QED
  BY <1>1 DEF HeldInv, DeviceHeld, OpHeld, Knows

(* A put replaces a file of the manifest it builds on only if its device    *)
(* has held that version, or its user chose to keep this side of the path:  *)
(* the baseline never claims an agreement on a version that did not land.   *)
THEOREM ReplacesAreAccounted == Spec => ReplacesOnlyHeldOrKept
<1>1. Init => HeldInv
  BY HeldInit
<1>2. TypeInv /\ HeldInv /\ [Next]_vars => HeldInv'
  <2>1. ASSUME TypeInv, HeldInv, Next PROVE HeldInv'
    BY <2>1, HeldStep DEF Next
  <2>2. ASSUME HeldInv, UNCHANGED vars PROVE HeldInv'
    BY <2>2, HeldStutter
  <2> QED
    BY <2>1, <2>2
<1>3. Init => TypeInv
  BY InitTypeInv
<1>4. TypeInv /\ [Next]_vars => TypeInv'
  BY TypeInvInductive
<1>5. TypeInv /\ HeldInv /\ [Next]_vars => [ReplacesHeldOrKept]_vars
  BY HeldReplaces DEF Next
<1> QED
  BY <1>1, <1>2, <1>3, <1>4, <1>5, PTL DEF Spec, ReplacesOnlyHeldOrKept

-----------------------------------------------------------------------------
(* What a pull may replace was published.                                   *)

(* Published once, published for good.                                      *)
LEMMA PubKept ==
    ASSUME TypeInv, NEW d \in Device, Step(d), NEW p \in Path, NEW c, Pub(p, c)
    PROVE  c = NoFile \/ \E i \in 1..Len(heads') : sameContent(heads'[i].files[p], c)
<1>1. CASE wasPublished(p, c)
  <2>1. PICK i \in 1..Len(heads) : sameContent(heads[i].files[p], c)
    BY <1>1 DEF wasPublished
  <2>2. /\ Len(heads) \in Nat /\ Len(heads') \in Nat /\ Len(heads) <= Len(heads')
        /\ heads'[i] = heads[i]
    BY <2>1, HeadsGrow
  <2>3. i \in 1..Len(heads')
    BY <2>1, <2>2
  <2> QED
    BY <2>1, <2>2, <2>3
<1> QED
  BY <1>1 DEF Pub

(* What a manifest holds is published, up to a drawing's view state.        *)
LEMMA PubFacts ==
    ASSUME StoreOK, NEW p \in Path
    PROVE  /\ \A n \in 0..Len(heads) : Pub(p, FilesAt(n)[p])
           /\ \A a, b \in Content : sameContent(a, b) /\ Pub(p, b) => Pub(p, a)
<1>0. \A n \in 0..Len(heads) : FilesAt(n)[p] \in Content
  BY FilesAtType DEF Files
<1>1. ASSUME NEW n \in 0..Len(heads) PROVE Pub(p, FilesAt(n)[p])
  <2>1. CASE n = 0
    BY <2>1 DEF Pub, FilesAt, NoFiles
  <2>2. CASE n # 0
    <3>1. n \in 1..Len(heads) /\ FilesAt(n)[p] = heads[n].files[p]
      BY <2>2 DEF FilesAt
    <3>2. sameContent(heads[n].files[p], FilesAt(n)[p])
      BY <3>1 DEF sameContent
    <3> QED
      BY <3>1, <3>2 DEF Pub, wasPublished
  <2> QED
    BY <2>1, <2>2
<1>2. ASSUME NEW a \in Content, NEW b \in Content, sameContent(a, b), Pub(p, b)
      PROVE  Pub(p, a)
  <2>1. CASE b = NoFile
    BY <1>2, <2>1, SameContentEquivalence DEF Pub
  <2>2. CASE wasPublished(p, b)
    <3>1. PICK i \in 1..Len(heads) : sameContent(heads[i].files[p], b)
      BY <2>2 DEF wasPublished
    <3>2. heads[i].files[p] \in Content
      <4>1. heads[i].files = FilesAt(i)
        BY <3>1 DEF FilesAt, StoreOK
      <4> QED
        BY <1>0, <4>1
    <3>3. sameContent(heads[i].files[p], a)
      BY <1>2, <3>1, <3>2, SameContentEquivalence
    <3> QED
      BY <3>3 DEF Pub, wasPublished
  <2> QED
    BY <1>2, <2>1, <2>2 DEF Pub
<1> QED
  BY <1>1, <1>2

(* d's agreement names published versions only.                             *)
LEMMA BaselinePub ==
    ASSUME TypeInv, PubInv, NEW d \in Device, Step(d), NEW p \in Path
    PROVE  Pub(p, baseline'[d].files[p])
<1>a. /\ StoreOK /\ LocalOK /\ OpOK(op[d], Len(heads)) /\ op[d] \in Operation
      /\ Pub(p, baseline[d].files[p]) /\ OpPut(op[d])
      /\ \A n \in 0..Len(heads) : Pub(p, FilesAt(n)[p])
  BY PubFacts DEF TypeInv, PubInv, OpsOK, OpOK
<1>1. CASE Quiet \/ Writes(d) \/ Put(d) \/ Fail(d) \/ Crash(d)
  <2>1. baseline' = baseline
    BY <1>1, WriteShape DEF Quiet, Put, Fail, Crash, local
  <2> QED
    BY <2>1, <1>a
<1>2. ASSUME NEW n \in 0..Len(heads), NEW id, NEW paths,
             baseline' = [baseline EXCEPT ![d] =
               [id |-> id, files |-> advanceFiles(baseline[d].files, FilesAt(n), paths)]]
      PROVE  Pub(p, baseline'[d].files[p])
  <2> DEFINE files == advanceFiles(baseline[d].files, FilesAt(n), paths)
  <2>1. files[p] = IF p \in paths THEN FilesAt(n)[p] ELSE baseline[d].files[p]
    BY DEF advanceFiles
  <2>2. baseline' = [baseline EXCEPT ![d] = [id |-> id, files |-> files]]
    BY <1>2
  <2> HIDE DEF files
  <2>3. baseline'[d].files = files
    BY <2>2, <1>a DEF LocalOK
  <2> QED
    BY <2>1, <2>3, <1>a
<1>3. CASE Refresh(d) \/ Choose(d) \/ Recompare(d)
  <2>1. PICK n \in 0..Len(heads) :
             baseline' = baseline \/
             baseline' = [baseline EXCEPT ![d] =
               [id |-> n,
                files |-> advanceFiles(baseline[d].files, FilesAt(n), convergedOf(d, n))]]
    BY <1>3, <1>a DEF Refresh, Choose, Recompare, refreshed, refreshedTo, compareRefused, LocalOK
  <2> QED
    BY <2>1, <1>2, <1>a
<1>4. CASE PersistPush(d)
  <2>1. /\ op[d].pc = "persist"
        /\ baseline' = [baseline EXCEPT ![d] =
             [id |-> op[d].mine,
              files |-> advanceFiles(baseline[d].files, op[d].next, op[d].settled)]]
    BY <1>4, <1>a DEF PersistPush, running, LocalOK
  <2>2. op[d].next = FilesAt(op[d].mine) /\ op[d].mine \in 0..Len(heads)
    BY <2>1, <1>a DEF OpPut, OpOK
  <2> QED
    BY <2>1, <2>2, <1>2
<1>5. CASE FinishPull(d) \/ CancelPull(d)
  <2>1. baseline' = [baseline EXCEPT ![d] =
             [id |-> op[d].base,
              files |-> advanceFiles(baseline[d].files, FilesAt(op[d].base), op[d].settled)]]
    BY <1>5, <1>a DEF FinishPull, CancelPull, settle, LocalOK
  <2> QED
    BY <2>1, <1>2, <1>a DEF OpOK
<1> QED
  BY <1>1, <1>3, <1>4, <1>5, StepKinds DEF Agrees

(* What a put published is what the operation meant to.                     *)
LEMMA OpPutStep ==
    ASSUME TypeInv, PubInv, NEW d \in Device, Step(d)
    PROVE  OpPut(op[d])'
<1>a. /\ op \in [Device -> Operation] /\ op[d] \in Operation /\ OpOK(op[d], Len(heads))
      /\ OpPut(op[d]) /\ Len(heads) \in Nat
  BY DEF TypeInv, PubInv, OpsOK, StoreOK
<1>b. \A n \in 0..Len(heads) : (IF n = 0 THEN NoFiles ELSE heads'[n].files) = FilesAt(n)
  BY HeadsGrow DEF FilesAt
<1>c. ASSUME NEW o, op' = [op EXCEPT ![d] = o], o.pc \notin {"verify", "persist"}
      PROVE  OpPut(op[d])'
  BY <1>a, <1>c DEF OpPut
<1>d. ASSUME NEW o, op' = [op EXCEPT ![d] = o], op[d].pc \in {"verify", "persist"},
             o.kind = op[d].kind, o.next = op[d].next, o.mine = op[d].mine
      PROVE  OpPut(op[d])'
  <2>1. op'[d] = o
    BY <1>a, <1>d
  <2>2. FilesAt(op[d].mine)' = FilesAt(op[d].mine)
    BY <2>1, <1>a, <1>b, <1>d DEF FilesAt, OpOK
  <2> QED
    BY <2>1, <2>2, <1>a, <1>d DEF OpPut
<1>1. CASE Starts(d)
  <2>1. CASE StartPush(d)
    <3>1. PICK n, todo, settled, next :
            /\ n \in 0..Len(heads)
            /\ op' = [op EXCEPT ![d] = Begin("push", n, disk[d], todo, settled, next)]
      BY <2>1 DEF StartPush
    <3>2. Begin("push", n, disk[d], todo, settled, next).pc = "transfer"
      BY DEF Begin
    <3> QED
      BY <3>1, <3>2, <1>c
  <2>2. CASE StartKeep(d)
    <3>1. PICK n, paths :
            /\ n \in 0..Len(heads)
            /\ op' = [op EXCEPT ![d] = Begin("keep", n, disk[d], paths, {}, FilesAt(n))]
      BY <2>2, KeepShape
    <3>2. Begin("keep", n, disk[d], paths, {}, FilesAt(n)).pc = "transfer"
      BY DEF Begin
    <3> QED
      BY <3>1, <3>2, <1>c
  <2>3. CASE StartPull(d) \/ StartAccept(d)
    <3>1. PICK n, paths, kind :
            /\ n \in 1..Len(heads)
            /\ op' = [op EXCEPT ![d] = Begin(kind, n, disk[d], paths, {}, NoFiles)]
      BY <2>3 DEF StartPull, StartAccept
    <3>2. Begin(kind, n, disk[d], paths, {}, NoFiles).pc = "transfer"
      BY DEF Begin
    <3> QED
      BY <3>1, <3>2, <1>c
  <2> QED
    BY <1>1, <2>1, <2>2, <2>3 DEF Starts
<1>2. ASSUME NEW p \in Path, KeepRead(d, p) \/ Lands(d, p) PROVE OpPut(op[d])'
  <2>1. op'[d].pc = "transfer"
    <3>1. CASE KeepRead(d, p)
      <4> DEFINE next == [op[d].next EXCEPT ![p] = disk[d][p]]
                 o == [op[d] EXCEPT !.todo = @ \ {p}, !.settled = @ \cup {p}, !.next = next]
      <4>1. op' = [op EXCEPT ![d] = o] /\ op[d].pc = "transfer"
        BY <3>1, <1>a DEF KeepRead, running
      <4>2. o.pc = op[d].pc
        BY <1>a DEF Operation
      <4> QED
        BY <4>1, <4>2, <1>a
    <3>2. CASE PullWrite(d, p)
      <4> DEFINE o == [op[d] EXCEPT !.fetched = @ \ {p}, !.settled = @ \cup {p}]
      <4>1. op' = [op EXCEPT ![d] = o] /\ op[d].pc = "transfer"
        BY <3>2, <1>a DEF PullWrite, running
      <4>2. o.pc = op[d].pc
        BY <1>a DEF Operation
      <4> QED
        BY <4>1, <4>2, <1>a
    <3>3. CASE PullDelete(d, p) \/ AcceptWrite(d, p)
      <4> DEFINE o == [op[d] EXCEPT !.todo = @ \ {p}, !.settled = @ \cup {p}]
      <4>1. op' = [op EXCEPT ![d] = o] /\ op[d].pc = "transfer"
        BY <3>3, <1>a DEF PullDelete, AcceptWrite, running
      <4>2. o.pc = op[d].pc
        BY <1>a DEF Operation
      <4> QED
        BY <4>1, <4>2, <1>a
    <3> QED
      BY <1>2, <3>1, <3>2, <3>3 DEF Lands
  <2> QED
    BY <2>1 DEF OpPut
<1>3. ASSUME NEW n, Moves(d, n) PROVE OpPut(op[d])'
  <2>0. op' = [op EXCEPT ![d] = n]
    BY <1>3 DEF Moves
  <2>1. CASE n \in {Idle, Recomparing}
    BY <2>0, <2>1, <1>c DEF Idle, Recomparing
  <2>2. CASE Continues(op[d], n) /\ n.pc = op[d].pc /\ n.mine = op[d].mine
    BY <2>0, <2>2, <1>c, <1>d DEF Continues
  <2>3. CASE Precheck(d)
    <3> DEFINE o == [op[d] EXCEPT !.pc = "put"]
    <3>1. op' = [op EXCEPT ![d] = o]
      BY <2>3, <1>a DEF Precheck
    <3>2. o.pc = "put"
      BY <1>a DEF Operation
    <3> HIDE DEF o
    <3> QED
      BY <3>1, <3>2, <1>c
  <2>4. CASE Put(d)
    <3> DEFINE o == [op[d] EXCEPT !.pc = "verify", !.mine = Len(heads) + 1]
               m == [parent |-> op[d].base, by |-> d, files |-> op[d].next]
    <3>1. op' = [op EXCEPT ![d] = o] /\ heads' = Append(heads, m) /\ op[d].kind \in {"push", "keep"}
      BY <2>4, <1>a DEF Put, running
    <3>2. o.mine = Len(heads) + 1 /\ o.next = op[d].next /\ o.kind = op[d].kind
      BY <1>a DEF Operation
    <3>3. op'[d] = o
      BY <3>1, <1>a
    <3>4. heads'[Len(heads) + 1] = m
      BY <3>1, <1>a DEF TypeInv, StoreOK
    <3>5. m.files = op[d].next
      OBVIOUS
    <3> HIDE DEF o, m
    <3>6. FilesAt(op[d].mine)' = op[d].next
      BY <1>a, <3>2, <3>3, <3>4, <3>5 DEF FilesAt
    <3> QED
      BY <1>a, <3>1, <3>2, <3>3, <3>6 DEF OpPut
  <2>5. CASE Verify(d)
    <3> DEFINE o == [op[d] EXCEPT !.pc = "persist"]
    <3>1. op' = [op EXCEPT ![d] = o] /\ op[d].pc = "verify"
      BY <2>5, <1>a DEF Verify, running
    <3>2. o.kind = op[d].kind /\ o.next = op[d].next /\ o.mine = op[d].mine
      BY <1>a DEF Operation
    <3> HIDE DEF o
    <3> QED
      BY <3>1, <3>2, <1>d
  <2> QED
    BY <1>3, <2>1, <2>2, <2>3, <2>4, <2>5 DEF Moves
<1> QED
  BY <1>1, <1>2, <1>3, OpMoves

(* A pull learns of every other write to its device's files.                *)
LEMMA TouchesWrites ==
    ASSUME TypeInv, NEW d \in Device, Step(d), NEW p \in Path, disk'[d][p] # disk[d][p],
           op[d].kind = "pull"
    PROVE  \/ Lands(d, p)
           \/ op' = [op EXCEPT ![d] = [op[d] EXCEPT !.touched = @ \cup {p}]]
<1>a. /\ disk \in [Device -> Files] /\ disk[d] \in Files /\ late \in [Device -> SUBSET LateWrite]
      /\ op \in [Device -> Operation]
  BY DEF TypeInv, LocalOK, OpsOK
<1>1. Writes(d)
  BY StepKinds DEF Quiet, Agrees, Refresh, Choose, Recompare, PersistPush, FinishPull, CancelPull,
     Put, Fail, Crash, local
<1>2. ASSUME NEW q \in Path, NEW c, disk' = [disk EXCEPT ![d][q] = c] PROVE p = q
  BY <1>2, <1>a DEF Files
<1>3. ASSUME NEW q \in Path, Lands(d, q) PROVE p = q
  BY <1>2, <1>3 DEF Lands, PullWrite, PullDelete, AcceptWrite, written
<1>4. ASSUME NEW q \in Path, NEW c \in Content, Edit(d, q, c)
      PROVE  p = q /\ op' = touching(d, q)
  BY <1>2, <1>4 DEF Edit, written
<1>5. ASSUME NEW w \in late[d], WriteLate(d, w) PROVE p = w.path /\ op' = touching(d, w.path)
  <2>1. w.path \in Path
    BY <1>a DEF LateWrite
  <2> QED
    BY <1>2, <1>5, <2>1 DEF WriteLate
<1>6. op' = touching(d, p) => op' = [op EXCEPT ![d] = [op[d] EXCEPT !.touched = @ \cup {p}]]
  BY <1>a DEF touching
<1> QED
  BY <1>1, <1>3, <1>4, <1>5, <1>6 DEF Writes, Lands

(* A running pull replaces published versions only, while it is let alone.  *)
LEMMA OpFreshStep ==
    ASSUME TypeInv, PubInv, NEW d \in Device, Step(d), NEW p \in Path
    PROVE  OpFresh(op'[d], disk'[d][p], p)
<1>a. /\ StoreOK /\ LocalOK /\ disk \in [Device -> Files] /\ disk[d] \in Files
      /\ disk[d][p] \in Content /\ baseline[d].files[p] \in Content
      /\ op \in [Device -> Operation] /\ op[d] \in Operation
      /\ OpFresh(op[d], disk[d][p], p) /\ Pub(p, baseline[d].files[p])
  BY DEF TypeInv, PubInv, OpsOK, LocalOK, Files
<1>1. CASE Starts(d)
  <2>1. CASE StartPush(d)
    <3>1. PICK n, todo, settled, next :
            /\ n \in 0..Len(heads)
            /\ op' = [op EXCEPT ![d] = Begin("push", n, disk[d], todo, settled, next)]
      BY <2>1 DEF StartPush
    <3>2. Begin("push", n, disk[d], todo, settled, next).kind = "push"
      BY DEF Begin
    <3> QED
      BY <3>1, <3>2, <1>a DEF OpFresh
  <2>2. CASE StartKeep(d)
    <3>1. PICK n, paths :
            /\ n \in 0..Len(heads)
            /\ op' = [op EXCEPT ![d] = Begin("keep", n, disk[d], paths, {}, FilesAt(n))]
      BY <2>2, KeepShape
    <3>2. Begin("keep", n, disk[d], paths, {}, FilesAt(n)).kind = "keep"
      BY DEF Begin
    <3> QED
      BY <3>1, <3>2, <1>a DEF OpFresh
  <2>3. CASE StartAccept(d)
    <3>1. PICK n, paths :
            /\ n \in 1..Len(heads)
            /\ op' = [op EXCEPT ![d] = Begin("accept", n, disk[d], paths, {}, NoFiles)]
      BY <2>3 DEF StartAccept
    <3>2. Begin("accept", n, disk[d], paths, {}, NoFiles).kind = "accept"
      BY DEF Begin
    <3> QED
      BY <3>1, <3>2, <1>a DEF OpFresh
  <2>4. CASE StartPull(d)
    <3>1. PICK n, paths :
            /\ n \in 1..Len(heads)
            /\ paths \subseteq remoteOf(d, n)
            /\ op' = [op EXCEPT ![d] = Begin("pull", n, disk[d], paths, {}, NoFiles)]
      BY <2>4 DEF StartPull
    <3> DEFINE o == Begin("pull", n, disk[d], paths, {}, NoFiles)
    <3>2. o.snap = disk[d] /\ o.todo = paths /\ o.fetched = {}
      BY DEF Begin
    <3>3. op'[d] = o
      BY <3>1, <1>a
    <3> HIDE DEF o
    <3>4. disk' = disk
      BY <2>4 DEF StartPull
    <3>5. p \in paths => sameContent(disk[d][p], baseline[d].files[p])
      BY <3>1 DEF remoteOf, remoteChanges, localChanged, agreed
    <3>6. p \in paths => Pub(p, disk[d][p])
      BY <3>5, <1>a, PubFacts
    <3> QED
      BY <3>2, <3>3, <3>4, <3>6 DEF OpFresh
  <2> QED
    BY <1>1, <2>1, <2>2, <2>3, <2>4 DEF Starts
<1>2. ASSUME NEW q \in Path, KeepRead(d, q) PROVE OpFresh(op'[d], disk'[d][p], p)
  <2> DEFINE next == [op[d].next EXCEPT ![q] = disk[d][q]]
             o == [op[d] EXCEPT !.todo = @ \ {q}, !.settled = @ \cup {q}, !.next = next]
  <2>1. op'[d] = o /\ o.kind = op[d].kind /\ op[d].kind = "keep"
    BY <1>2, <1>a DEF KeepRead, running, Operation
  <2> QED
    BY <2>1 DEF OpFresh
<1>3. ASSUME NEW q \in Path, Lands(d, q) PROVE OpFresh(op'[d], disk'[d][p], p)
  <2>1. CASE AcceptWrite(d, q)
    <3> DEFINE o == [op[d] EXCEPT !.todo = @ \ {q}, !.settled = @ \cup {q}]
    <3>1. op'[d] = o /\ o.kind = op[d].kind /\ op[d].kind = "accept"
      BY <2>1, <1>a DEF AcceptWrite, running, Operation
    <3> QED
      BY <3>1 DEF OpFresh
  <2>2. CASE PullWrite(d, q)
    <3> DEFINE o == [op[d] EXCEPT !.fetched = @ \ {q}, !.settled = @ \cup {q}]
    <3>1. op'[d] = o /\ q \in op[d].fetched /\ op[d].kind = "pull"
      BY <2>2, <1>a DEF PullWrite, running
    <3>2. o.fetched = op[d].fetched \ {q} /\ o.todo = op[d].todo /\ o.snap = op[d].snap
          /\ o.touched = op[d].touched
      BY <1>a DEF Operation
    <3>3. p # q => disk'[d][p] = disk[d][p]
      BY <2>2, <1>a DEF PullWrite, written, Files
    <3> HIDE DEF o
    <3> QED
      BY <3>1, <3>2, <3>3, <1>a DEF OpFresh
  <2>3. CASE PullDelete(d, q)
    <3> DEFINE o == [op[d] EXCEPT !.todo = @ \ {q}, !.settled = @ \cup {q}]
    <3>1. op'[d] = o /\ op[d].fetched = {} /\ op[d].kind = "pull"
      BY <2>3, <1>a DEF PullDelete, running
    <3>2. o.todo = op[d].todo \ {q} /\ o.fetched = op[d].fetched /\ o.snap = op[d].snap
          /\ o.touched = op[d].touched
      BY <1>a DEF Operation
    <3>3. p # q => disk'[d][p] = disk[d][p]
      BY <2>3, <1>a DEF PullDelete, written, Files
    <3> HIDE DEF o
    <3> QED
      BY <3>1, <3>2, <3>3, <1>a DEF OpFresh
  <2> QED
    BY <1>3, <2>1, <2>2, <2>3 DEF Lands
<1>4. ASSUME NEW n, Moves(d, n) PROVE OpFresh(op'[d], disk'[d][p], p)
  <2>1. op'[d] = n
    BY <1>4, <1>a DEF Moves
  <2>2. CASE n \in {Idle, Recomparing}
    BY <2>1, <2>2 DEF OpFresh, Idle, Recomparing
  <2>3. CASE Continues(op[d], n) /\ disk'[d][p] = disk[d][p]
    BY <2>1, <2>3, <1>a DEF OpFresh, Continues
  <2>4. CASE Continues(op[d], n) /\ disk'[d][p] # disk[d][p] /\ n.kind = "pull"
    <3>0. op[d].kind = "pull"
      BY <2>4 DEF Continues
    <3>1. CASE Lands(d, p)
      BY <1>3, <3>1
    <3>2. CASE op' = [op EXCEPT ![d] = [op[d] EXCEPT !.touched = @ \cup {p}]]
      <4> DEFINE o == [op[d] EXCEPT !.touched = @ \cup {p}]
      <4>1. op'[d] = o /\ p \in o.touched
        BY <3>2, <1>a DEF Operation
      <4>2. p \in n.touched
        BY <4>1, <2>1
      <4> QED
        BY <4>2, <2>1, <2>4, <1>a DEF OpFresh, Continues
    <3> QED
      BY <3>0, <3>1, <3>2, <2>4, TouchesWrites
  <2> QED
    BY <1>4, <2>1, <2>2, <2>3, <2>4 DEF Moves, OpFresh
<1> QED
  BY <1>1, <1>2, <1>3, <1>4, OpMoves

(* A late write may replace a file only while it is the one scanned.        *)
LEMMA LatePub ==
    ASSUME TypeInv, PubInv, NEW d \in Device, Step(d), NEW w \in late'[d], w.over = "file"
    PROVE  Pub(w.path, disk'[d][w.path])
<1>a. /\ disk \in [Device -> Files] /\ late \in [Device -> SUBSET LateWrite]
      /\ op \in [Device -> Operation]
      /\ \A v \in late[d] : v.over = "file" => Pub(v.path, disk[d][v.path])
      /\ \A p \in Path : OpFresh(op[d], disk[d][p], p)
  BY DEF TypeInv, LocalOK, PubInv, OpsOK
<1>1. CASE Writes(d)
  <2>1. PICK p \in Path, c \in Content :
          /\ disk' = [disk EXCEPT ![d][p] = c]
          /\ late'[d] \subseteq late[d]
          /\ \A v \in late'[d] : v.path # p \/ v.over # "file"
    BY <1>1, WriteShape
  <2>2. w \in late[d] /\ w.path \in Path /\ w.path # p
    BY <2>1, <1>a DEF LateWrite
  <2>3. disk'[d][w.path] = disk[d][w.path]
    BY <2>1, <2>2, <1>a DEF Files
  <2> QED
    BY <2>2, <2>3, <1>a
<1>2. CASE Fail(d)
  <2>1. PICK paths \in SUBSET inFlight(d) :
          late' = [late EXCEPT ![d] = late[d] \cup {lateWrite(d, p) : p \in paths}]
    BY <1>2, <1>a DEF Fail
  <2>2. disk' = disk
    BY <1>2 DEF Fail
  <2>3. CASE w \in late[d]
    BY <2>2, <2>3, <1>a
  <2>4. CASE w \notin late[d]
    <3>1. PICK p \in paths : w = lateWrite(d, p)
      BY <2>1, <2>4, <1>a
    <3>2. w.path = p /\ op[d].kind # "accept" /\ op[d].snap[p] # NoFile
      BY <3>1 DEF lateWrite
    <3>3. /\ op[d].kind = "pull" /\ p \in op[d].todo \cup op[d].fetched
          /\ unchangedSince(d, p)
      <4>1. p \in inFlight(d)
        BY <2>1, <3>1
      <4>2. running(d, {"pull", "accept"}, "transfer")
        BY <4>1 DEF inFlight
      <4>3. op[d].kind = "pull"
        BY <4>2, <3>2 DEF running
      <4>4. downloads(d) \subseteq op[d].todo
        BY DEF downloads
      <4>5. inFlight(d) = {q \in op[d].fetched \cup
                 (IF downloads(d) \cup op[d].fetched = {} THEN op[d].todo ELSE downloads(d)) :
                   unchangedSince(d, q)}
        BY <4>2, <3>2 DEF inFlight
      <4> QED
        BY <4>1, <4>3, <4>4, <4>5
    <3>4. p \in Path
      BY <3>3, <1>a DEF Operation
    <3>5. p \notin op[d].touched
      BY <3>2, <3>3 DEF unchangedSince
    <3>6. Pub(p, disk[d][p])
      BY <3>3, <3>4, <3>5, <1>a DEF OpFresh
    <3> QED
      BY <3>2, <3>6, <2>2
  <2> QED
    BY <2>3, <2>4
<1>3. CASE Crash(d)
  BY <1>3, <1>a DEF Crash
<1>4. CASE Quiet \/ Agrees(d) \/ Put(d)
  <2>1. disk' = disk /\ late' = late
    BY <1>4 DEF Quiet, Agrees, Refresh, Choose, Recompare, PersistPush, FinishPull, CancelPull,
       Put, local
  <2> QED
    BY <2>1, <1>a
<1> QED
  BY <1>1, <1>2, <1>3, <1>4, StepKinds

(* A step keeps what pulls may replace published.                           *)
LEMMA PubStep ==
    ASSUME TypeInv, PubInv, NEW d \in Device, Step(d)
    PROVE  PubInv'
<1>a. /\ \A e \in Device : late'[e] \subseteq LateWrite
      /\ op \in [Device -> Operation] /\ OpsOK
  BY StepTypeInv DEF TypeInv, LocalOK, OpsOK
<1>b. \A n \in 0..Len(heads) : (IF n = 0 THEN NoFiles ELSE heads'[n].files) = FilesAt(n)
  BY HeadsGrow DEF FilesAt
<1>c. ASSUME NEW p \in Path, NEW c, Pub(p, c)
      PROVE  c = NoFile \/ \E i \in 1..Len(heads') : sameContent(heads'[i].files[p], c)
  BY <1>c, PubKept
<1>1. ASSUME NEW e \in Device
      PROVE  /\ OpPut(op[e])'
             /\ \A w \in late'[e] : w.over = "file" => Pub(w.path, disk'[e][w.path])
             /\ \A p \in Path : Pub(p, baseline'[e].files[p]) /\ OpFresh(op'[e], disk'[e][p], p)
  <2>1. CASE e = d
    BY <2>1, OpPutStep, LatePub, BaselinePub, OpFreshStep
  <2>2. CASE e # d
    <3>1. /\ disk'[e] = disk[e] /\ baseline'[e] = baseline[e] /\ late'[e] = late[e]
          /\ op'[e] = op[e]
      BY <2>2, OthersKept, OpFrame
    <3>2. op[e].mine \in 0..Len(heads)
      BY <1>a DEF OpsOK, OpOK
    <3>3. FilesAt(op[e].mine)' = FilesAt(op[e].mine)
      BY <3>1, <3>2, <1>b DEF FilesAt
    <3> QED
      BY <3>1, <3>3 DEF PubInv, OpPut
  <2> QED
    BY <2>1, <2>2
<1>2. ASSUME NEW e \in Device, NEW w \in late'[e], w.over = "file"
      PROVE  Pub(w.path, disk[e][w.path])'
  <2>1. w.path \in Path /\ Pub(w.path, disk'[e][w.path])
    BY <1>1, <1>2, <1>a DEF LateWrite
  <2> QED
    BY <2>1, <1>c DEF Pub, wasPublished
<1>3. ASSUME NEW e \in Device, NEW p \in Path
      PROVE  Pub(p, baseline[e].files[p])' /\ OpFresh(op[e], disk[e][p], p)'
  <2>1. Pub(p, baseline'[e].files[p]) /\ OpFresh(op'[e], disk'[e][p], p)
    BY <1>1
  <2>2. Pub(p, baseline[e].files[p])'
    BY <2>1, <1>c DEF Pub, wasPublished
  <2>3. OpFresh(op[e], disk[e][p], p)'
    <3>1. Pub(p, op'[e].snap[p]) =>
            \/ op'[e].snap[p] = NoFile
            \/ \E i \in 1..Len(heads') : sameContent(heads'[i].files[p], op'[e].snap[p])
      BY <1>c
    <3> QED
      BY <2>1, <3>1 DEF OpFresh, Pub, wasPublished
  <2> QED
    BY <2>2, <2>3
<1> QED
  BY <1>1, <1>2, <1>3 DEF PubInv

(* What a step that is neither an edit nor part of an accept writes over    *)
(* was published.                                                           *)
LEMMA PubSpares ==
    ASSUME TypeInv, PubInv, NEW d \in Device, Step(d)
    PROVE  SparesUnpublished
<1> SUFFICES ASSUME NEW e \in Device, NEW p \in Path, disk'[e][p] # disk[e][p],
                    edits' = edits, op[e].kind # "accept",
                    \A w \in late[e] : w.path = p => w.over # "any"
             PROVE  disk[e][p] = NoFile \/ wasPublished(p, disk[e][p])
  BY DEF SparesUnpublished
<1>a. /\ disk \in [Device -> Files] /\ late \in [Device -> SUBSET LateWrite]
      /\ edits \in Nat /\ op[e] \in Operation
  BY DEF TypeInv, LocalOK, CountsOK, OpsOK
<1>b. \A w \in late[e] : w.over = "file" => Pub(w.path, disk[e][w.path])
  BY DEF PubInv
<1>c. OpFresh(op[e], disk[e][p], p)
  BY DEF PubInv
<1>1. e = d
  BY OthersKept
<1>2. Writes(d)
  BY StepKinds DEF Quiet, Agrees, Refresh, Choose, Recompare, PersistPush, FinishPull, CancelPull,
     Put, Fail, Crash, local
<1>3. ASSUME NEW q \in Path, NEW c, disk' = [disk EXCEPT ![d][q] = c] PROVE p = q
  BY <1>1, <1>3, <1>a DEF Files
<1>4. \A q \in Path, c \in Content : ~Edit(d, q, c)
  BY <1>a DEF Edit
<1>5. ASSUME NEW q \in Path, PullWrite(d, q) \/ PullDelete(d, q)
      PROVE  disk[e][p] = NoFile \/ wasPublished(p, disk[e][p])
  <2>1. p = q
    BY <1>3, <1>5 DEF PullWrite, PullDelete, written
  <2>2. op[d].kind = "pull" /\ q \in op[d].todo \cup op[d].fetched /\ unchangedSince(d, q)
    BY <1>5 DEF PullWrite, PullDelete, running
  <2> QED
    BY <1>1, <1>c, <2>1, <2>2 DEF unchangedSince, OpFresh, Pub
<1>6. ASSUME NEW w \in late[d], WriteLate(d, w)
      PROVE  disk[e][p] = NoFile \/ wasPublished(p, disk[e][p])
  <2>1. w.path \in Path /\ w.over \in {"file", "nothing", "any"}
    BY <1>a DEF LateWrite
  <2>2. p = w.path
    BY <1>3, <1>6, <2>1 DEF WriteLate
  <2>3. w.over \in {"file", "nothing"}
    BY <1>1, <2>1, <2>2
  <2> QED
    BY <1>1, <1>6, <1>b, <2>2, <2>3 DEF WriteLate, Pub
<1>7. \A q \in Path : ~AcceptWrite(d, q)
  BY <1>1 DEF AcceptWrite, running
<1> QED
  BY <1>2, <1>4, <1>5, <1>6, <1>7 DEF Writes

(* At first every agreement is on the first manifest, or on nothing.        *)
LEMMA PubInvInit == Init => PubInv
<1> SUFFICES ASSUME Init PROVE PubInv
  OBVIOUS
<1>a. StoreOK
  BY InitTypeInv DEF TypeInv
<1>1. ASSUME NEW d \in Device, NEW p \in Path PROVE Pub(p, baseline[d].files[p])
  <2>1. CASE ~StartSynced
    BY <2>1 DEF Init, Pub, NoFiles
  <2>2. CASE StartSynced
    <3>1. PICK e \in Device, files \in Files :
            /\ heads = <<[parent |-> 0, by |-> e, files |-> files]>>
            /\ baseline = [x \in Device |-> [id |-> 1, files |-> files]]
      BY <2>2 DEF Init
    <3>2. 1 \in 1..Len(heads) /\ heads[1].files = files /\ baseline[d].files = files
      BY <3>1
    <3> QED
      BY <3>2 DEF Pub, wasPublished, sameContent
  <2> QED
    BY <2>1, <2>2 DEF Init
<1> QED
  BY <1>1 DEF Init, PubInv, OpPut, OpFresh, Idle

(* A step of nobody publishes nothing.                                      *)
LEMMA PubStutter == PubInv /\ UNCHANGED vars => PubInv'
BY DEF vars, store, local, PubInv, OpPut, OpFresh, Pub, wasPublished, FilesAt

(* Sync never destroys the only copy of an edit: a step that is neither the *)
(* user's nor an accept changes a file only if that version was published.  *)
THEOREM PullsSpare == Spec => PullSparesUnpublished
<1>1. Init => TypeInv /\ PubInv
  BY InitTypeInv, PubInvInit
<1>2. TypeInv /\ [Next]_vars => TypeInv'
  BY TypeInvInductive
<1>3. TypeInv /\ PubInv /\ [Next]_vars => PubInv'
  <2>1. ASSUME TypeInv, PubInv, Next PROVE PubInv'
    BY <2>1, PubStep DEF Next
  <2>2. ASSUME PubInv, UNCHANGED vars PROVE PubInv'
    BY <2>2, PubStutter
  <2> QED
    BY <2>1, <2>2
<1>4. TypeInv /\ PubInv /\ [Next]_vars => [SparesUnpublished]_vars
  BY PubSpares DEF Next
<1> QED
  BY <1>1, <1>2, <1>3, <1>4, PTL DEF Spec, PullSparesUnpublished

-----------------------------------------------------------------------------
(* What holds when publishers do not overlap and no read is stale: a linear  *)
(* history, removals that were deletions, and the shared vault.              *)

(* A publisher about to put still builds on the head, and is the only one.  *)
SerialInv ==
    /\ LinearHistory
    /\ \A d \in Device : op[d].pc = "put" =>
         /\ op[d].base = Len(heads)
         /\ \A e \in Device \ {d} : op[e].pc # "put"

(* o, which saw files f, removes p from the head or from its disk only when *)
(* a user deleted p.                                                        *)
OpGone(o, f, p) ==
    /\ o.kind \in {"push", "keep"} /\ o.next[p] = NoFile /\ f[p] # NoFile => p \in deleted
    /\ o.kind \in {"pull", "accept"} /\ p \in o.todo \cup o.fetched /\ f[p] = NoFile
         => p \in deleted

(* A path that lost its file, in the history of manifests, on a disk or by  *)
(* what is under way, was deleted.                                          *)
GoneInv ==
    /\ \A k \in 1..Len(heads) : \A i \in 1..k, p \in Path :
         heads[i].files[p] # NoFile /\ heads[k].files[p] = NoFile => p \in deleted
    /\ \A d \in Device :
         /\ \A w \in late[d] : w.content = NoFile => w.path \in deleted
         /\ \A p \in Path :
              /\ disk[d][p] = NoFile /\ held[d][p] \ {NoFile} # {} => p \in deleted
              /\ OpGone(op[d], FilesAt(op[d].base), p)

-----------------------------------------------------------------------------
(* Publishers that do not overlap, and reads that are never stale.          *)

Serial == MaxLag = 0 /\ "put" \in Exclusive

(* Without stale reads, a comparison is with the head.                      *)
LEMMA CompareIsHead ==
    ASSUME StoreOK, LocalOK, MaxLag = 0, NEW d \in Device, NEW n, Compare(d, n)
    PROVE  n = Len(heads)
<1>1. PICK read \in Reads : n = reconciled(d, read)
  BY DEF Compare
<1>2. read = Len(heads) /\ Len(heads) \in Nat
  BY DEF Reads, StoreOK
<1>3. ~lagsOwnHead(d, read)
  <2> SUFFICES ASSUME lagsOwnHead(d, read) PROVE FALSE
    OBVIOUS
  <2>1. read # 0 /\ ParentOf(published[d]) = read /\ published[d] \in 0..Len(heads)
    BY DEF lagsOwnHead, LocalOK
  <2>2. published[d] # 0
    BY <2>1 DEF ParentOf
  <2>3. ParentOf(published[d]) < published[d]
    BY <2>1, <2>2, FilesAtType
  <2> QED
    BY <1>2, <2>1, <2>3
<1> QED
  BY <1>1, <1>2, <1>3 DEF reconciled

(* An operation reaches its put by its precheck.                            *)
LEMMA PutByPrecheck ==
    ASSUME TypeInv, NEW d \in Device, Step(d), op'[d].pc = "put"
    PROVE  /\ op'[d].base = op[d].base
           /\ Precheck(d) \/ (op[d].pc = "put" /\ ~Put(d))
<1>a. op \in [Device -> Operation] /\ op[d] \in Operation
  BY DEF TypeInv, OpsOK
<1>1. ~Starts(d)
  <2>1. ASSUME NEW kind, NEW n, NEW snap, NEW todo, NEW settled, NEW next,
               op' = [op EXCEPT ![d] = Begin(kind, n, snap, todo, settled, next)]
        PROVE  FALSE
    <3>1. Begin(kind, n, snap, todo, settled, next).pc = "transfer"
      BY DEF Begin
    <3> QED
      BY <2>1, <3>1, <1>a
  <2>2. ~StartPush(d)
    <3> SUFFICES ASSUME StartPush(d) PROVE FALSE
      OBVIOUS
    <3>1. PICK n, todo, settled, next :
            /\ n \in 0..Len(heads)
            /\ op' = [op EXCEPT ![d] = Begin("push", n, disk[d], todo, settled, next)]
      BY DEF StartPush
    <3> QED
      BY <2>1, <3>1
  <2>3. ~StartKeep(d)
    <3> SUFFICES ASSUME StartKeep(d) PROVE FALSE
      OBVIOUS
    <3>1. PICK n, paths :
            /\ n \in 0..Len(heads)
            /\ op' = [op EXCEPT ![d] = Begin("keep", n, disk[d], paths, {}, FilesAt(n))]
      BY KeepShape
    <3> QED
      BY <2>1, <3>1
  <2>4. ~StartPull(d) /\ ~StartAccept(d)
    <3> SUFFICES ASSUME StartPull(d) \/ StartAccept(d) PROVE FALSE
      OBVIOUS
    <3>1. PICK n, paths, kind :
            /\ n \in 1..Len(heads)
            /\ op' = [op EXCEPT ![d] = Begin(kind, n, disk[d], paths, {}, NoFiles)]
      BY DEF StartPull, StartAccept
    <3> QED
      BY <2>1, <3>1
  <2> QED
    BY <2>2, <2>3, <2>4 DEF Starts
<1>2. \A q \in Path : ~KeepRead(d, q) /\ ~Lands(d, q)
  <2> SUFFICES ASSUME NEW q \in Path, KeepRead(d, q) \/ Lands(d, q) PROVE FALSE
    OBVIOUS
  <2>1. CASE KeepRead(d, q)
    <3> DEFINE next == [op[d].next EXCEPT ![q] = disk[d][q]]
               o == [op[d] EXCEPT !.todo = @ \ {q}, !.settled = @ \cup {q}, !.next = next]
    <3>1. op'[d] = o /\ op[d].pc = "transfer"
      BY <2>1, <1>a DEF KeepRead, running
    <3>2. o.pc = op[d].pc
      BY <1>a DEF Operation
    <3> QED
      BY <3>1, <3>2
  <2>2. CASE PullWrite(d, q)
    <3> DEFINE o == [op[d] EXCEPT !.fetched = @ \ {q}, !.settled = @ \cup {q}]
    <3>1. op'[d] = o /\ op[d].pc = "transfer"
      BY <2>2, <1>a DEF PullWrite, running
    <3>2. o.pc = op[d].pc
      BY <1>a DEF Operation
    <3> QED
      BY <3>1, <3>2
  <2>3. CASE PullDelete(d, q) \/ AcceptWrite(d, q)
    <3> DEFINE o == [op[d] EXCEPT !.todo = @ \ {q}, !.settled = @ \cup {q}]
    <3>1. op'[d] = o /\ op[d].pc = "transfer"
      BY <2>3, <1>a DEF PullDelete, AcceptWrite, running
    <3>2. o.pc = op[d].pc
      BY <1>a DEF Operation
    <3> QED
      BY <3>1, <3>2
  <2> QED
    BY <2>1, <2>2, <2>3 DEF Lands
<1>3. ASSUME NEW n, Moves(d, n)
      PROVE  /\ op'[d].base = op[d].base
             /\ Precheck(d) \/ (op[d].pc = "put" /\ ~Put(d))
  <2>1. op'[d] = n
    BY <1>3, <1>a DEF Moves
  <2>2. n \notin {Idle, Recomparing}
    BY <2>1 DEF Idle, Recomparing
  <2>3. Continues(op[d], n)
    BY <1>3, <2>2 DEF Moves
  <2>4. ~Put(d)
    <3> SUFFICES ASSUME Put(d) PROVE FALSE
      OBVIOUS
    <3> DEFINE o == [op[d] EXCEPT !.pc = "verify", !.mine = Len(heads) + 1]
    <3>1. op'[d] = o
      BY <1>a DEF Put
    <3>2. o.pc = "verify"
      BY <1>a DEF Operation
    <3> QED
      BY <3>1, <3>2
  <2>5. ~Verify(d)
    <3> SUFFICES ASSUME Verify(d) PROVE FALSE
      OBVIOUS
    <3> DEFINE o == [op[d] EXCEPT !.pc = "persist"]
    <3>1. op'[d] = o
      BY <1>a DEF Verify
    <3>2. o.pc = "persist"
      BY <1>a DEF Operation
    <3> QED
      BY <3>1, <3>2
  <2> QED
    BY <1>3, <2>1, <2>2, <2>3, <2>4, <2>5 DEF Moves, Continues
<1> QED
  BY <1>1, <1>2, <1>3, OpMoves

(* A step keeps the history linear.                                         *)
LEMMA SerialStep ==
    ASSUME Serial, TypeInv, SerialInv, NEW d \in Device, Step(d)
    PROVE  SerialInv'
<1>a. /\ StoreOK /\ LocalOK /\ Len(heads) \in Nat
      /\ op \in [Device -> Operation]
  BY DEF TypeInv, OpsOK, StoreOK
<1>b. \A e \in Device \ {d} : op'[e] = op[e]
  BY OpFrame
<1>c. heads' = heads \/ Put(d)
  BY HeadsGrow
<1>d. MaxLag = 0 /\ "put" \in Exclusive
  BY DEF Serial
<1>1. CASE Put(d)
  <2>1. op[d].pc = "put" /\ op[d].base = Len(heads) /\ \A e \in Device \ {d} : op[e].pc # "put"
    BY <1>1 DEF Put, running, SerialInv
  <2>2. op'[d].pc # "put"
    BY <1>1, PutByPrecheck DEF Precheck, readyToPublish, running, Put
  <2>3. LinearHistory'
    <3> SUFFICES ASSUME NEW i \in 1..Len(heads') PROVE ParentOf(i)' = i - 1
      BY DEF LinearHistory
    <3>1. /\ Len(heads') = Len(heads) + 1
          /\ heads'[Len(heads) + 1] = [parent |-> op[d].base, by |-> d, files |-> op[d].next]
          /\ \A n \in 1..Len(heads) : heads'[n] = heads[n]
      <4> DEFINE m == [parent |-> op[d].base, by |-> d, files |-> op[d].next]
      <4>1. heads' = Append(heads, m)
        BY <1>1 DEF Put
      <4> HIDE DEF m
      <4>2. /\ Len(heads') = Len(heads) + 1 /\ heads'[Len(heads) + 1] = m
            /\ \A n \in 1..Len(heads) : heads'[n] = heads[n]
        BY <4>1, <1>a DEF StoreOK
      <4> QED
        BY <4>2 DEF m
    <3>2. CASE i = Len(heads) + 1
      BY <3>1, <3>2, <2>1, <1>a DEF ParentOf
    <3>3. CASE i \in 1..Len(heads)
      <4>1. ParentOf(i) = i - 1
        BY <3>3 DEF SerialInv, LinearHistory
      <4> QED
        BY <3>1, <3>3, <4>1 DEF ParentOf
    <3> QED
      BY <3>1, <3>2, <3>3, <1>a
  <2> QED
    BY <1>b, <2>1, <2>2, <2>3 DEF SerialInv
<1>2. CASE heads' = heads /\ op'[d].pc # "put"
  <2>1. LinearHistory'
    BY <1>2 DEF SerialInv, LinearHistory, ParentOf
  <2> QED
    BY <1>2, <1>b, <2>1 DEF SerialInv
<1>3. CASE heads' = heads /\ op'[d].pc = "put"
  <2>1. LinearHistory'
    BY <1>3 DEF SerialInv, LinearHistory, ParentOf
  <2>2. op'[d].base = Len(heads) /\ \A e \in Device \ {d} : op[e].pc # "put"
    <3>1. CASE Precheck(d)
      BY <1>3, <1>a, <1>d, <3>1, PutByPrecheck, CompareIsHead DEF Precheck, mayPrecheck
    <3>2. CASE op[d].pc = "put"
      BY <1>3, <3>2, PutByPrecheck DEF SerialInv
    <3> QED
      BY <1>3, <3>1, <3>2, PutByPrecheck
  <2> QED
    BY <1>3, <1>b, <2>1, <2>2 DEF SerialInv
<1> QED
  BY <1>1, <1>2, <1>3, <1>c

(* At first nobody puts, and a first manifest has no parent.                *)
LEMMA SerialInit == Init => SerialInv
<1> SUFFICES ASSUME Init PROVE SerialInv
  OBVIOUS
<1>1. op = [d \in Device |-> Idle] /\ Idle.pc = "idle"
  BY DEF Init, Idle
<1>2. LinearHistory
  BY DEF Init, LinearHistory, ParentOf
<1> QED
  BY <1>1, <1>2 DEF SerialInv

(* A linear history stays one.                                              *)
LEMMA SerialInductive == Serial /\ TypeInv /\ SerialInv /\ [Next]_vars => SerialInv'
<1>1. ASSUME Serial, TypeInv, SerialInv, Next PROVE SerialInv'
  BY <1>1, SerialStep DEF Next
<1>2. ASSUME SerialInv, UNCHANGED vars PROVE SerialInv'
  BY <1>2 DEF vars, store, SerialInv, LinearHistory, ParentOf
<1> QED
  BY <1>1, <1>2

(* Each manifest builds on the one it replaces, when no read is stale and   *)
(* no other device prechecks between a precheck and its put.                *)
THEOREM SerialHistory == ASSUME Serial PROVE Spec => []LinearHistory
<1>1. Init => TypeInv /\ SerialInv
  BY InitTypeInv, SerialInit
<1>2. TypeInv /\ [Next]_vars => TypeInv'
  BY TypeInvInductive
<1>3. TypeInv /\ SerialInv /\ [Next]_vars => SerialInv'
  BY SerialInductive
<1>4. SerialInv => LinearHistory
  BY DEF SerialInv
<1> QED
  BY <1>1, <1>2, <1>3, <1>4, PTL DEF Spec

-----------------------------------------------------------------------------
(* A path that lost its file was deleted by a user.                         *)

KeptInv == TypeInv /\ HeldInv /\ PubInv /\ SerialInv /\ GoneInv

(* An agreement on a file says a file was held, and published.              *)
LEMMA AgreementGone ==
    ASSUME KeptInv, NEW d \in Device, NEW p \in Path, baseline[d].files[p] # NoFile
    PROVE  /\ disk[d][p] = NoFile => p \in deleted
           /\ FilesAt(Len(heads))[p] = NoFile => p \in deleted
<1>a. /\ held[d][p] \in SUBSET Content /\ baseline[d].files[p] \in Content /\ StoreOK
      /\ Knows(held[d][p], baseline[d].files[p]) /\ Len(heads) \in Nat
  BY DEF KeptInv, TypeInv, LocalOK, HistoryOK, Files, HeldInv, DeviceHeld, StoreOK
<1>1. disk[d][p] = NoFile => p \in deleted
  <2>1. held[d][p] \ {NoFile} # {}
    BY <1>a, KnowsFacts
  <2> QED
    BY <2>1 DEF KeptInv, GoneInv
<1>2. FilesAt(Len(heads))[p] = NoFile => p \in deleted
  <2>1. wasPublished(p, baseline[d].files[p])
    BY DEF KeptInv, PubInv, Pub
  <2>2. PICK i \in 1..Len(heads) : sameContent(heads[i].files[p], baseline[d].files[p])
    BY <2>1 DEF wasPublished
  <2>3. heads[i].files[p] # NoFile
    BY <2>2, NoFileAssumption DEF sameContent
  <2>4. FilesAt(Len(heads)) = heads[Len(heads)].files /\ Len(heads) \in 1..Len(heads)
    BY <2>2, <1>a DEF FilesAt
  <2>5. heads[Len(heads)].files[p] = NoFile => p \in deleted
    BY <2>2, <2>3, <2>4 DEF KeptInv, GoneInv
  <2> QED
    BY <2>4, <2>5
<1> QED
  BY <1>1, <1>2

(* What an operation removes, from the head or from its disk, was deleted.  *)
LEMMA OpGoneStep ==
    ASSUME Serial, KeptInv, NEW d \in Device, Step(d), NEW p \in Path
    PROVE  OpGone(op'[d], FilesAt(op'[d].base), p)
<1>a. /\ StoreOK /\ LocalOK /\ disk[d] \in Files /\ Len(heads) \in Nat
      /\ disk[d][p] \in Content /\ baseline[d].files[p] \in Content
      /\ op \in [Device -> Operation] /\ op[d] \in Operation
      /\ OpGone(op[d], FilesAt(op[d].base), p)
      /\ OpHeld(op[d], held[d][p], FilesAt(op[d].base), p)
      /\ disk[d][p] = NoFile /\ held[d][p] \ {NoFile} # {} => p \in deleted
      /\ MaxLag = 0
  BY DEF KeptInv, TypeInv, GoneInv, OpsOK, LocalOK, Files, HeldInv, DeviceHeld, StoreOK, Serial
<1>b. baseline[d].files[p] # NoFile =>
        /\ disk[d][p] = NoFile => p \in deleted
        /\ FilesAt(Len(heads))[p] = NoFile => p \in deleted
  BY AgreementGone
<1>c. \A n \in 0..Len(heads) : FilesAt(n)[p] \in Content
  BY <1>a, FilesAtType DEF Files
<1>1. CASE StartPush(d)
  <2>1. PICK n, paths :
          /\ n \in 0..Len(heads)
          /\ paths \subseteq localOf(d, n)
          /\ op' = [op EXCEPT ![d] =
                Begin("push", n, disk[d],
                      {q \in paths : disk[d][q] \in Hash \ hashesOf(FilesAt(n))},
                      publishedDelta(FilesAt(n), advanceFiles(FilesAt(n), disk[d], paths)),
                      advanceFiles(FilesAt(n), disk[d], paths))]
    BY <1>1 DEF StartPush
  <2> DEFINE next == advanceFiles(FilesAt(n), disk[d], paths)
             o == Begin("push", n, disk[d],
                        {q \in paths : disk[d][q] \in Hash \ hashesOf(FilesAt(n))},
                        publishedDelta(FilesAt(n), next), next)
  <2>2. o.kind = "push" /\ o.base = n /\ o.next = next
    BY DEF Begin
  <2>3. op'[d] = o
    BY <2>1, <1>a
  <2>4. next[p] # FilesAt(n)[p] => p \in paths /\ next[p] = disk[d][p]
    BY DEF advanceFiles
  <2> HIDE DEF o, next
  <2>5. ASSUME next[p] = NoFile, FilesAt(n)[p] # NoFile PROVE p \in deleted
    <3>1. p \in localOf(d, n) /\ disk[d][p] = NoFile /\ n # 0
      BY <2>1, <2>4, <2>5 DEF FilesAt, NoFiles
    <3>2. sameContent(FilesAt(n)[p], baseline[d].files[p])
      BY <3>1 DEF localOf, localChanges, remoteChanged, agreed
    <3>3. baseline[d].files[p] # NoFile
      BY <2>1, <2>5, <3>2, <1>a, <1>c, SameContentEquivalence
    <3> QED
      BY <3>1, <3>3, <1>b
  <2> QED
    BY <2>2, <2>3, <2>5 DEF OpGone
<1>2. CASE StartKeep(d)
  <2>1. PICK n, paths :
          /\ n \in 0..Len(heads)
          /\ op' = [op EXCEPT ![d] = Begin("keep", n, disk[d], paths, {}, FilesAt(n))]
    BY <1>2, KeepShape
  <2> DEFINE o == Begin("keep", n, disk[d], paths, {}, FilesAt(n))
  <2>2. o.kind = "keep" /\ o.base = n /\ o.next = FilesAt(n)
    BY DEF Begin
  <2>3. op'[d] = o
    BY <2>1, <1>a
  <2> HIDE DEF o
  <2> QED
    BY <2>2, <2>3 DEF OpGone
<1>3. CASE StartPull(d) \/ StartAccept(d)
  <2>1. PICK n \in 1..Len(heads), paths \in SUBSET Path, kind \in {"pull", "accept"} :
          /\ Compare(d, n)
          /\ paths \subseteq remoteOf(d, n) \cup conflictsOf(d, n)
          /\ op' = [op EXCEPT ![d] = Begin(kind, n, disk[d], paths, {}, NoFiles)]
    <3>1. CASE StartPull(d)
      <4>1. PICK n \in 1..Len(heads), paths \in SUBSET Path :
              /\ Compare(d, n)
              /\ paths \subseteq remoteOf(d, n)
              /\ op' = [op EXCEPT ![d] = Begin("pull", n, disk[d], paths, {}, NoFiles)]
        BY <3>1, ClassesArePaths DEF StartPull, remoteOf
      <4> WITNESS n \in 1..Len(heads), paths \in SUBSET Path, "pull" \in {"pull", "accept"}
      <4> QED
        BY <4>1
    <3>2. CASE StartAccept(d)
      <4>1. PICK n \in 1..Len(heads), paths \in SUBSET Path :
              /\ Compare(d, n)
              /\ paths \subseteq conflictsOf(d, n)
              /\ op' = [op EXCEPT ![d] = Begin("accept", n, disk[d], paths, {}, NoFiles)]
        BY <3>2, ClassesArePaths DEF StartAccept, conflictsOf
      <4> WITNESS n \in 1..Len(heads), paths \in SUBSET Path, "accept" \in {"pull", "accept"}
      <4> QED
        BY <4>1
    <3> QED
      BY <1>3, <3>1, <3>2
  <2> DEFINE o == Begin(kind, n, disk[d], paths, {}, NoFiles)
  <2>2. o.kind \in {"pull", "accept"} /\ o.base = n /\ o.todo = paths /\ o.fetched = {}
    BY DEF Begin
  <2>3. op'[d] = o
    BY <2>1, <1>a
  <2> HIDE DEF o
  <2>4. n = Len(heads)
    BY <2>1, <1>a, CompareIsHead
  <2>5. ASSUME p \in paths, FilesAt(n)[p] = NoFile PROVE p \in deleted
    <3>1. ~sameContent(FilesAt(n)[p], baseline[d].files[p])
      BY <2>1, <2>5 DEF remoteOf, conflictsOf, remoteChanges, conflicts, bothChanged,
         remoteChanged, agreed
    <3>2. baseline[d].files[p] # NoFile
      BY <2>5, <3>1 DEF sameContent
    <3> QED
      BY <2>4, <2>5, <3>2, <1>b
  <2> QED
    BY <2>2, <2>3, <2>5 DEF OpGone
<1>4. ASSUME NEW q \in Path, KeepRead(d, q) PROVE OpGone(op'[d], FilesAt(op'[d].base), p)
  <2> DEFINE next == [op[d].next EXCEPT ![q] = disk[d][q]]
             o == [op[d] EXCEPT !.todo = @ \ {q}, !.settled = @ \cup {q}, !.next = next]
  <2>1. op'[d] = o /\ op[d].kind = "keep" /\ q \in op[d].todo /\ op[d].next \in Files
    BY <1>4, <1>a DEF KeepRead, running, Operation
  <2>2. o.kind = "keep" /\ o.base = op[d].base /\ o.next = next
    BY <2>1, <1>a DEF Operation
  <2>3. next[p] = IF p = q THEN disk[d][p] ELSE op[d].next[p]
    BY <2>1 DEF Files
  <2> HIDE DEF o, next
  <2>4. ASSUME p = q, disk[d][p] = NoFile, FilesAt(op[d].base)[p] # NoFile
        PROVE  p \in deleted
    BY <2>1, <2>4, <1>a DEF OpHeld
  <2> QED
    BY <2>1, <2>2, <2>3, <2>4, <1>a DEF OpGone
<1>5. ASSUME NEW q \in Path, Lands(d, q) PROVE OpGone(op'[d], FilesAt(op'[d].base), p)
  <2>1. PICK o : /\ op'[d] = o
                 /\ o.kind = op[d].kind /\ o.base = op[d].base
                 /\ o.todo \cup o.fetched \subseteq op[d].todo \cup op[d].fetched
                 /\ op[d].kind \in {"pull", "accept"}
    <3>1. CASE PullWrite(d, q)
      <4> DEFINE o == [op[d] EXCEPT !.fetched = @ \ {q}, !.settled = @ \cup {q}]
      <4>1. op'[d] = o /\ op[d].kind = "pull"
        BY <3>1, <1>a DEF PullWrite, running
      <4>2. o.kind = op[d].kind /\ o.base = op[d].base /\ o.todo = op[d].todo
            /\ o.fetched = op[d].fetched \ {q}
        BY <1>a DEF Operation
      <4> HIDE DEF o
      <4> QED
        BY <4>1, <4>2
    <3>2. CASE PullDelete(d, q) \/ AcceptWrite(d, q)
      <4> DEFINE o == [op[d] EXCEPT !.todo = @ \ {q}, !.settled = @ \cup {q}]
      <4>1. op'[d] = o /\ op[d].kind \in {"pull", "accept"}
        BY <3>2, <1>a DEF PullDelete, AcceptWrite, running
      <4>2. o.kind = op[d].kind /\ o.base = op[d].base /\ o.todo = op[d].todo \ {q}
            /\ o.fetched = op[d].fetched
        BY <1>a DEF Operation
      <4> HIDE DEF o
      <4> QED
        BY <4>1, <4>2
    <3> QED
      BY <1>5, <3>1, <3>2 DEF Lands
  <2> QED
    BY <2>1, <1>a DEF OpGone
<1>6. ASSUME NEW n, Moves(d, n) PROVE OpGone(op'[d], FilesAt(op'[d].base), p)
  <2>1. op'[d] = n
    BY <1>6, <1>a DEF Moves
  <2>2. CASE n \in {Idle, Recomparing}
    BY <2>1, <2>2 DEF OpGone, Idle, Recomparing
  <2>3. CASE Continues(op[d], n)
    BY <2>1, <2>3, <1>a DEF OpGone, Continues
  <2> QED
    BY <1>6, <2>2, <2>3 DEF Moves
<1> QED
  BY <1>1, <1>2, <1>3, <1>4, <1>5, <1>6, OpMoves DEF Starts, KeptInv

(* A path d holds no file at, though it once did, was deleted.              *)
LEMMA DiskGoneStep ==
    ASSUME Serial, KeptInv, NEW d \in Device, Step(d), NEW p \in Path,
           disk'[d][p] = NoFile, held'[d][p] \ {NoFile} # {}
    PROVE  /\ p \in deleted'
           /\ p \in deleted \/ \E c \in Content : Edit(d, p, c)
<1>a. /\ StoreOK /\ disk \in [Device -> Files] /\ disk[d] \in Files
      /\ late \in [Device -> SUBSET LateWrite] /\ held \in [Device -> [Path -> SUBSET Content]]
      /\ disk[d][p] = NoFile /\ held[d][p] \ {NoFile} # {} => p \in deleted
      /\ OpGone(op[d], FilesAt(op[d].base), p) /\ deleted \subseteq Path
      /\ \A w \in late[d] : w.content = NoFile => w.path \in deleted
  BY DEF KeptInv, TypeInv, LocalOK, HistoryOK, GoneInv
<1>b. deleted \subseteq deleted' /\ TypeInv
  BY HistoryGrows DEF KeptInv
<1>c. SUFFICES \/ p \in deleted
               \/ \E c \in Content : Edit(d, p, c) /\ p \in deleted'
  BY <1>b
<1>1. CASE Writes(d)
  <2>0. ASSUME NEW q \in Path, NEW c, disk' = [disk EXCEPT ![d][q] = c],
               held' = [held EXCEPT ![d][q] = @ \cup {c}]
        PROVE  p \in deleted \/ (p = q /\ c = NoFile)
    <3>1. CASE p = q
      BY <2>0, <3>1, <1>a DEF Files
    <3>2. CASE p # q
      <4>1. disk'[d][p] = disk[d][p] /\ held'[d][p] = held[d][p]
        BY <2>0, <3>2, <1>a DEF Files
      <4> QED
        BY <4>1, <1>a
    <3> QED
      BY <3>1, <3>2
  <2>1. ASSUME NEW q \in Path, NEW c \in Content, Edit(d, q, c)
        PROVE  p \in deleted \/ (Edit(d, p, c) /\ p \in deleted')
    <3>1. p \in deleted \/ (p = q /\ c = NoFile)
      BY <2>0, <2>1 DEF Edit, written
    <3> QED
      BY <2>1, <3>1 DEF Edit
  <2>2. ASSUME NEW q \in Path, PullWrite(d, q) \/ AcceptWrite(d, q) PROVE p \in deleted
    <3>1. p \in deleted \/ (p = q /\ incoming(d, q) = NoFile)
      BY <2>0, <2>2 DEF PullWrite, AcceptWrite, written
    <3>2. op[d].kind \in {"pull", "accept"} /\ q \in op[d].todo \cup op[d].fetched
      BY <2>2 DEF PullWrite, AcceptWrite, running
    <3> QED
      BY <3>1, <3>2, <1>a DEF OpGone, incoming
  <2>3. ASSUME NEW q \in Path, PullDelete(d, q) PROVE p \in deleted
    <3>1. p \in deleted \/ p = q
      BY <2>0, <2>3 DEF PullDelete, written
    <3>2. op[d].kind = "pull" /\ q \in op[d].todo /\ incoming(d, q) = NoFile
      BY <2>3 DEF PullDelete, running, downloads
    <3> QED
      BY <3>1, <3>2, <1>a DEF OpGone, incoming
  <2>4. ASSUME NEW w \in late[d], WriteLate(d, w) PROVE p \in deleted
    <3>1. w.path \in Path
      BY <1>a DEF LateWrite
    <3>2. p \in deleted \/ (p = w.path /\ w.content = NoFile)
      BY <2>0, <2>4, <3>1 DEF WriteLate
    <3> QED
      BY <3>2, <1>a
  <2> QED
    BY <1>1, <2>1, <2>2, <2>3, <2>4 DEF Writes
<1>3. CASE Quiet \/ Agrees(d) \/ Put(d) \/ Fail(d) \/ Crash(d)
  <2>1. disk' = disk /\ held' = held
    BY <1>3 DEF Quiet, Agrees, Refresh, Choose, Recompare, PersistPush, FinishPull, CancelPull,
       Put, Fail, Crash, local, history
  <2> QED
    BY <2>1, <1>a
<1> QED
  BY <1>1, <1>3, <1>b, StepKinds

(* A step removes a path only when a user deleted it.                       *)
LEMMA GoneStep ==
    ASSUME Serial, KeptInv, NEW d \in Device, Step(d)
    PROVE  GoneInv'
<1>a. /\ TypeInv /\ HeldInv /\ PubInv /\ SerialInv /\ GoneInv /\ StoreOK /\ Len(heads) \in Nat
      /\ late \in [Device -> SUBSET LateWrite] /\ op[d] \in Operation
  BY DEF KeptInv, TypeInv, StoreOK, LocalOK, OpsOK
<1>b. /\ deleted \subseteq deleted'
      /\ \A e \in Device \ {d} : held'[e] = held[e]
  BY <1>a, HistoryGrows
<1>c. \A n \in 0..Len(heads) : (IF n = 0 THEN NoFiles ELSE heads'[n].files) = FilesAt(n)
  BY <1>a, HeadsGrow DEF FilesAt
<1>1. ASSUME NEW k \in 1..Len(heads'), NEW i \in 1..k, NEW p \in Path,
             heads'[i].files[p] # NoFile, heads'[k].files[p] = NoFile
      PROVE  p \in deleted'
  <2>1. CASE k \in 1..Len(heads)
    <3>1. i \in 1..Len(heads) /\ heads'[i] = heads[i] /\ heads'[k] = heads[k]
      <4>1. i \in 1..Len(heads)
        BY <2>1, <1>a
      <4> QED
        BY <4>1, <2>1, <1>a, HeadsGrow
    <3> QED
      BY <2>1, <3>1, <1>1, <1>a, <1>b DEF GoneInv
  <2>2. CASE k \notin 1..Len(heads)
    <3>1. /\ Put(d) /\ Len(heads') = Len(heads) + 1
          /\ heads'[Len(heads) + 1] = [parent |-> op[d].base, by |-> d, files |-> op[d].next]
      BY <2>2, <1>a, HeadsGrow
    <3>2. k = Len(heads) + 1
      BY <2>2, <3>1, <1>a
    <3>3. heads'[k].files = op[d].next
      BY <3>1, <3>2
    <3>4. op[d].base = Len(heads) /\ op[d].kind \in {"push", "keep"}
      BY <3>1, <1>a DEF Put, running, SerialInv
    <3>5. i \in 1..Len(heads)
      BY <1>1, <3>2, <1>a
    <3>6. heads'[i] = heads[i]
      BY <3>5, <1>a, HeadsGrow
    <3>7. FilesAt(Len(heads)) = heads[Len(heads)].files /\ Len(heads) \in 1..Len(heads)
          /\ i \in 1..Len(heads)
      BY <3>5, <1>a DEF FilesAt
    <3>8. CASE FilesAt(Len(heads))[p] # NoFile
      BY <3>3, <3>4, <3>8, <1>1, <1>a, <1>b DEF GoneInv, OpGone
    <3>9. CASE FilesAt(Len(heads))[p] = NoFile
      BY <3>6, <3>7, <3>9, <1>1, <1>a, <1>b DEF GoneInv
    <3> QED
      BY <3>8, <3>9
  <2> QED
    BY <2>1, <2>2
<1>2. ASSUME NEW e \in Device, NEW w \in late'[e], w.content = NoFile
      PROVE  w.path \in deleted'
  <2>1. CASE w \in late[e]
    BY <1>2, <2>1, <1>a, <1>b DEF GoneInv
  <2>2. CASE w \notin late[e]
    <3>1. e = d
      BY <2>2, <1>a, OthersKept
    <3>2. Fail(d)
      <4>1. \/ Writes(d) \/ Crash(d) \/ Fail(d) \/ late' = late
        BY <1>a, StepKinds DEF Quiet, Agrees, Refresh, Choose, Recompare, PersistPush, FinishPull,
           CancelPull, Put, local
      <4>2. ~Writes(d)
        BY <2>2, <1>a, <1>2, WriteShape
      <4>3. ~Crash(d)
        BY <3>1, <1>2, <1>a DEF Crash
      <4> QED
        BY <4>1, <4>2, <4>3, <2>2, <1>2
    <3>3. PICK paths \in SUBSET inFlight(d) :
            late' = [late EXCEPT ![d] = late[d] \cup {lateWrite(d, p) : p \in paths}]
      BY <3>2, <1>a DEF Fail
    <3>4. PICK p \in paths : w = lateWrite(d, p)
      BY <3>1, <3>3, <2>2, <1>2, <1>a
    <3>5. w.path = p /\ incoming(d, p) = NoFile
      BY <3>4, <1>2 DEF lateWrite
    <3>6. p \in inFlight(d)
      BY <3>3, <3>4
    <3>7. op[d].kind \in {"pull", "accept"} /\ p \in op[d].todo \cup op[d].fetched
      BY <3>6 DEF inFlight, running, downloads
    <3>8. p \in Path
      BY <3>7, <1>a DEF Operation
    <3> QED
      BY <3>5, <3>7, <3>8, <1>a, <1>b DEF GoneInv, OpGone, incoming
  <2> QED
    BY <2>1, <2>2
<1>3. ASSUME NEW e \in Device, NEW p \in Path
      PROVE  /\ disk'[e][p] = NoFile /\ held'[e][p] \ {NoFile} # {} => p \in deleted'
             /\ OpGone(op[e], FilesAt(op[e].base), p)'
  <2>1. CASE e = d
    <3>1. disk'[e][p] = NoFile /\ held'[e][p] \ {NoFile} # {} => p \in deleted'
      BY <2>1, DiskGoneStep
    <3>2. OpGone(op'[d], FilesAt(op'[d].base), p)
      BY OpGoneStep
    <3>3. op'[d].base \in 0..Len(heads)
      BY <1>a, OpHeldStep
    <3>4. FilesAt(op[d].base)' = FilesAt(op'[d].base)
      BY <3>3, <1>c DEF FilesAt
    <3>5. OpGone(op[d], FilesAt(op[d].base), p)'
      BY <3>2, <3>4, <1>b DEF OpGone
    <3> QED
      BY <2>1, <3>1, <3>5
  <2>2. CASE e # d
    <3>1. disk'[e] = disk[e] /\ held'[e] = held[e] /\ op'[e] = op[e]
      BY <2>2, <1>a, <1>b, OthersKept, OpFrame
    <3>2. op[e].base \in 0..Len(heads)
      BY <1>a DEF TypeInv, OpsOK, OpOK
    <3>3. FilesAt(op[e].base)' = FilesAt(op[e].base)
      BY <3>1, <3>2, <1>c DEF FilesAt
    <3>4. OpGone(op[e], FilesAt(op[e].base), p)
          /\ (disk[e][p] = NoFile /\ held[e][p] \ {NoFile} # {} => p \in deleted)
      BY <1>a DEF GoneInv
    <3>5. OpGone(op[e], FilesAt(op[e].base), p)'
      BY <3>1, <3>3, <3>4, <1>b DEF OpGone
    <3> QED
      BY <3>1, <3>4, <3>5, <1>b
  <2> QED
    BY <2>1, <2>2
<1> QED
  BY <1>1, <1>2, <1>3 DEF GoneInv

(* At first no path has lost its file.                                      *)
LEMMA GoneInit == Init => GoneInv
<1> SUFFICES ASSUME Init PROVE GoneInv
  OBVIOUS
<1>1. ASSUME NEW k \in 1..Len(heads), NEW i \in 1..k PROVE i = k
  <2>1. Len(heads) \in {0, 1}
    BY DEF Init
  <2> QED
    BY <1>1, <2>1
<1>2. ASSUME NEW d \in Device, NEW p \in Path
      PROVE  ~(disk[d][p] = NoFile /\ held[d][p] \ {NoFile} # {}) /\ op[d] = Idle
  BY DEF Init
<1>3. ASSUME NEW d \in Device, NEW p \in Path PROVE OpGone(op[d], FilesAt(op[d].base), p)
  BY <1>2 DEF OpGone, Idle
<1>4. \A k \in 1..Len(heads) : \A i \in 1..k, p \in Path :
        heads[i].files[p] # NoFile /\ heads[k].files[p] = NoFile => p \in deleted
  BY <1>1
<1>5. \A d \in Device : late[d] = {}
  BY DEF Init
<1> QED
  BY <1>2, <1>3, <1>4, <1>5 DEF GoneInv

(* The invariants together are inductive.                                   *)
LEMMA KeptInductive ==
    ASSUME Serial
    PROVE  /\ Init => KeptInv
           /\ KeptInv /\ [Next]_vars => KeptInv'
<1>1. Init => KeptInv
  BY InitTypeInv, HeldInit, PubInvInit, SerialInit, GoneInit DEF KeptInv
<1>2. ASSUME KeptInv, NEW d \in Device, Step(d) PROVE KeptInv'
  BY <1>2, StepTypeInv, HeldStep, PubStep, SerialStep, GoneStep DEF KeptInv
<1>3. ASSUME KeptInv, UNCHANGED vars PROVE KeptInv'
  <2>1. TypeInv' /\ HeldInv' /\ PubInv' /\ SerialInv'
    BY <1>3, TypeInvInductive, HeldStutter, PubStutter, SerialInductive DEF KeptInv
  <2>2. GoneInv'
    BY <1>3 DEF KeptInv, vars, store, local, history, GoneInv, OpGone, FilesAt
  <2> QED
    BY <2>1, <2>2 DEF KeptInv
<1>4. KeptInv /\ [Next]_vars => KeptInv'
  BY <1>2, <1>3 DEF Next
<1> QED
  BY <1>1, <1>4

(* No operation removes a file from a vault unless some user deleted that   *)
(* file somewhere, when no read is stale and no other device prechecks      *)
(* between a precheck and its put.                                          *)
THEOREM RemovesAreDeletions == ASSUME Serial PROVE Spec => RemovesOnlyDeleted
<1>1. Init => KeptInv
  BY KeptInductive
<1>2. KeptInv /\ [Next]_vars => KeptInv'
  BY KeptInductive
<1>3. KeptInv /\ [Next]_vars => [RemovesDeleted]_vars
  <2>1. ASSUME KeptInv, NEW d \in Device, Step(d) PROVE RemovesDeleted
    <3> SUFFICES ASSUME NEW e \in Device, NEW p \in Path, edits' = edits,
                        disk[e][p] # NoFile, disk'[e][p] = NoFile
                 PROVE  p \in deleted
      BY DEF RemovesDeleted
    <3>a. TypeInv /\ edits \in Nat /\ disk[e][p] \in held[e][p]
      BY <2>1 DEF KeptInv, TypeInv, CountsOK, HeldInv, DeviceHeld
    <3>1. e = d
      BY <2>1, <3>a, OthersKept
    <3>2. held'[e][p] \ {NoFile} # {}
      BY <2>1, <3>a, HistoryGrows
    <3>3. p \in deleted \/ \E c \in Content : Edit(d, p, c)
      BY <2>1, <3>1, <3>2, DiskGoneStep
    <3> QED
      BY <3>3, <3>a DEF Edit
  <2> QED
    BY <2>1 DEF Next
<1> QED
  BY <1>1, <1>2, <1>3, PTL DEF Spec, RemovesOnlyDeleted

-----------------------------------------------------------------------------
(* The shared vault.                                                        *)

(* A put is a commit to the shared vault, any other step a device learning. *)
LEMMA StepIsShared ==
    ASSUME KeptInv, NEW d \in Device, Step(d)
    PROVE  [Vault!Next]_Vault!vars
<1>d. TypeInv /\ TypeInv'
  BY StepTypeInv DEF KeptInv
<1>a. /\ StoreOK /\ Len(heads) \in Nat /\ TypeInv /\ TypeInv'
      /\ op[d] \in Operation /\ held' \in [Device -> [Path -> SUBSET Content]]
  BY <1>d DEF TypeInv, StoreOK, HistoryOK, OpsOK
<1>b. op' \in [Device -> Operation] /\ \A e \in Device \ {d} : op'[e] = op[e]
  BY <1>a, OpFrame DEF TypeInv, OpsOK
<1>c. op \in [Device -> Operation]
  BY <1>a DEF TypeInv, OpsOK
<1>1. CASE heads' = heads
  <2>1. PICK paths \in SUBSET Path :
               paths = IF op'[d].kind = "keep" THEN op'[d].settled ELSE {}
    BY <1>b DEF Operation
  <2>2. [e \in Device |-> IF op'[e].kind = "keep" THEN op'[e].settled ELSE {}]
          = [[e \in Device |-> IF op[e].kind = "keep" THEN op[e].settled ELSE {}]
               EXCEPT ![d] = paths]
    BY <1>b, <2>1
  <2>3. Vault!Learn(d)
    BY <1>1, <1>a, <2>2, HistoryGrows DEF Vault!Learn, FilesAt, Content, Vault!Content
  <2> QED
    BY <2>3 DEF Vault!Next
<1>2. CASE Put(d)
  <2>1. held' = held /\ op[d].pc = "put" /\ op[d].kind \in {"push", "keep"}
    BY <1>2 DEF Put, running, history
  <2>2. /\ Len(heads') = Len(heads) + 1
        /\ heads'[Len(heads')] = [parent |-> op[d].base, by |-> d, files |-> op[d].next]
    <3> DEFINE m == [parent |-> op[d].base, by |-> d, files |-> op[d].next]
    <3>1. heads' = Append(heads, m)
      BY <1>2 DEF Put
    <3> HIDE DEF m
    <3>2. Len(heads') = Len(heads) + 1 /\ heads'[Len(heads) + 1] = m
      BY <3>1, <1>a DEF StoreOK
    <3> QED
      BY <3>2 DEF m
  <2>3. FilesAt(Len(heads))' = op[d].next /\ op[d].next \in Files
    BY <2>2, <1>a DEF FilesAt, Operation
  <2>4. heads' # << >> /\ heads'[Len(heads')].by = d
    BY <2>2, <1>a
  <2>5. ASSUME NEW p \in Path, op[d].next[p] # FilesAt(Len(heads))[p]
        PROVE  \/ \E c \in held[d][p] : sameContent(c, FilesAt(Len(heads))[p])
               \/ op[d].kind = "keep" /\ p \in op[d].settled
    <3>1. op[d].base = Len(heads)
      BY <2>1 DEF KeptInv, SerialInv
    <3>2. OpHeld(op[d], held[d][p], FilesAt(op[d].base), p)
      BY DEF KeptInv, HeldInv, DeviceHeld
    <3> QED
      BY <2>1, <2>5, <3>1, <3>2 DEF OpHeld, Knows
  <2>6. \A e \in Device : op'[e].kind = op[e].kind /\ op'[e].settled = op[e].settled
    <3>1. op'[d].kind = op[d].kind /\ op'[d].settled = op[d].settled
      BY <1>2, <1>c DEF Put, Operation
    <3> QED
      BY <1>b, <3>1
  <2>7. Vault!Commit(d)
    BY <2>1, <2>3, <2>4, <2>5, <2>6 DEF Vault!Commit, Vault!replaceable, Vault!sameContent,
       sameContent, Vault!Files, Vault!Content, Files, Content
  <2> QED
    BY <2>7 DEF Vault!Next
<1> QED
  BY <1>1, <1>2, <1>a, HeadsGrow

(* Without overlapping publishers and stale reads, the file sync implements *)
(* the shared vault: one tree, changed commit by commit, each commit        *)
(* replacing only versions its device has held or paths its user keeps.     *)
THEOREM ImplementsVault == ASSUME Serial PROVE Spec => ImplementsSharedVault
<1>1. Init => Vault!Init
  <2> SUFFICES ASSUME Init PROVE Vault!Init
    OBVIOUS
  <2>1. TypeInv /\ StoreOK /\ Len(heads) \in Nat
    BY InitTypeInv DEF TypeInv, StoreOK
  <2>2. FilesAt(Len(heads)) \in Files
    BY <2>1, FilesAtType
  <2>3. heads # << >> => heads[Len(heads)].by \in Device
    <3> SUFFICES ASSUME heads # << >> PROVE heads[Len(heads)].by \in Device
      OBVIOUS
    <3>1. heads[Len(heads)] \in Manifest
      BY <2>1 DEF StoreOK
    <3> QED
      BY <3>1 DEF Manifest
  <2>4. [d \in Device |-> IF op[d].kind = "keep" THEN op[d].settled ELSE {}]
          = [d \in Device |-> {}]
    <3>1. op = [d \in Device |-> Idle] /\ Idle.kind = "none"
      BY DEF Init, Idle
    <3> QED
      BY <3>1
  <2> QED
    BY <2>1, <2>2, <2>3, <2>4 DEF Vault!Init, Vault!Files, Vault!Content, Files, Content,
       TypeInv, HistoryOK
<1>2. Init => KeptInv
  BY KeptInductive
<1>3. KeptInv /\ [Next]_vars => KeptInv'
  BY KeptInductive
<1>4. KeptInv /\ [Next]_vars => [Vault!Next]_Vault!vars
  <2>1. ASSUME UNCHANGED vars PROVE UNCHANGED Vault!vars
    BY <2>1 DEF vars, store, history, Vault!vars, FilesAt
  <2> QED
    BY <2>1, StepIsShared DEF Next
<1> QED
  BY <1>1, <1>2, <1>3, <1>4, PTL DEF Spec, ImplementsSharedVault, Vault!Spec
=============================================================================
