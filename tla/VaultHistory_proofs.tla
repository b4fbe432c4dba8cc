------------------------- MODULE VaultHistory_proofs -------------------------
(* The history tells the truth whatever order its log is left in, and what   *)
(* it offers can be downloaded: for any devices, notes, trees and bounds.    *)
EXTENDS VaultHistory, TLAPS, SequenceTheorems, NaturalsInduction, WellFoundedInduction

Files == [Note -> Version \cup {NoVersion}]

(* What a device has by its n-th push is trees of the notes.                 *)
HistoryAssumption ==
    /\ MaxPushes \in Nat /\ Retained \in Nat
    /\ Written \in [1..MaxPushes -> SUBSET Files]

Log   == Seq(Entry)

ids(l) == {e.id : e \in ToSet(l)}

-----------------------------------------------------------------------------
(* Sequences.                                                                *)

(* A set of numbers has a least one.                                         *)
LEMMA Least == ASSUME NEW T \in SUBSET Nat, T # {} PROVE \E n \in T : \A k \in T : n <= k
<1> DEFINE R == {p \in Nat \X Nat : p[1] < p[2]}
<1>1. IsWellFoundedOn(R, Nat)
  BY NatLessThanWellFounded, Zenon DEF OpToRel
<1>2. \A k \in Nat, n \in Nat : k < n => <<k, n>> \in R
  OBVIOUS
<1> HIDE DEF R
<1>3. PICK n \in T : \A k \in T : ~(<<k, n>> \in R)
  BY <1>1, WFMin
<1>4. ASSUME NEW k \in T PROVE n <= k
  <2>1. ~(k < n) /\ k \in Nat /\ n \in Nat
    BY <1>2, <1>3
  <2> QED
    BY <2>1
<1> QED
  BY <1>4

(* What was kept of the first i entries.                                     *)
keeps(l, entries, kept, i) ==
    IF i = 0 THEN <<>>
    ELSE IF l[i] \in entries THEN Append(kept[i - 1], l[i]) ELSE kept[i - 1]

keptTo(l, entries, n) == \E kept : kept = [i \in 0..n |-> keeps(l, entries, kept, i)]

(* There is such a function.                                                 *)
LEMMA KeptExists == ASSUME NEW l, NEW entries, NEW n \in Nat PROVE keptTo(l, entries, n)
<1> DEFINE T == {m \in Nat : ~keptTo(l, entries, m)}
<1> SUFFICES ASSUME T # {} PROVE FALSE
  OBVIOUS
<1>1. PICK m \in T : \A k \in T : m <= k
  <2> HIDE DEF T
  <2>1. T \in SUBSET Nat
    BY DEF T
  <2> QED
    BY <2>1, Least
<1>2. CASE m = 0
  <2> DEFINE kept == [i \in 0..0 |-> <<>>]
  <2>1. kept = [i \in 0..0 |-> keeps(l, entries, kept, i)]
    BY DEF keeps
  <2> QED
    BY <1>2, <2>1 DEF keptTo
<1>3. CASE m # 0
  <2>1. m \in Nat /\ m - 1 \in Nat /\ m - 1 \notin T
    BY <1>1, <1>3
  <2>2. PICK f : f = [i \in 0..(m - 1) |-> keeps(l, entries, f, i)]
    BY <2>1 DEF keptTo
  <2> DEFINE kept == [i \in 0..m |-> IF i = m THEN keeps(l, entries, f, m) ELSE f[i]]
  <2>3. \A i \in 0..m : i = m \/ i \in 0..(m - 1)
    BY <2>1
  <2>4. ASSUME NEW i \in 0..m PROVE kept[i] = keeps(l, entries, kept, i)
    <3>1. \A j \in 0..(m - 1) : kept[j] = f[j]
      BY <2>1
    <3>2. i = 0 \/ i - 1 \in 0..(m - 1)
      BY <2>1
    <3>3. keeps(l, entries, kept, i) = keeps(l, entries, f, i)
      <4> HIDE DEF kept
      <4> QED
        BY <3>1, <3>2 DEF keeps
    <3>4. CASE i = m
      BY <3>3, <3>4
    <3>5. CASE i \in 0..(m - 1)
      <4>1. f[i] = keeps(l, entries, f, i)
        BY <2>2, <3>5
      <4> QED
        BY <3>1, <3>3, <3>5, <4>1
    <3> QED
      BY <2>3, <3>4, <3>5
  <2>5. kept = [i \in 0..m |-> keeps(l, entries, kept, i)]
    BY <2>4
  <2> HIDE DEF kept
  <2> QED
    BY <1>1, <2>5 DEF keptTo
<1> QED
  BY <1>2, <1>3

(* A filtered log is a log, of the entries it was filtered for.              *)
LEMMA OnlyThose ==
    ASSUME NEW l \in Log, NEW entries
    PROVE  only(l, entries) \in Log /\ ToSet(only(l, entries)) = ToSet(l) \cap entries
<1> DEFINE kept == CHOOSE f : f = [i \in 0..Len(l) |-> keeps(l, entries, f, i)]
           first(i) == {l[j] : j \in 1..i}
           good(i)  == kept[i] \in Log /\ ToSet(kept[i]) = first(i) \cap entries
           T == {i \in 0..Len(l) : ~good(i)}
<1>1. only(l, entries) = kept[Len(l)]
  BY DEF only, keeps
<1>2. kept = [i \in 0..Len(l) |-> keeps(l, entries, kept, i)]
  BY KeptExists DEF keptTo, Log
<1>3. \A i \in 0..Len(l) : kept[i] = keeps(l, entries, kept, i)
  <2> HIDE DEF kept
  <2> QED
    BY <1>2
<1> HIDE DEF kept
<1>4. T = {}
  <2> SUFFICES ASSUME T # {} PROVE FALSE
    OBVIOUS
  <2>1. PICK m \in T : \A k \in T : m <= k
    <3>1. T \in SUBSET Nat
      BY DEF Log
    <3> HIDE DEF T
    <3> QED
      BY <3>1, Least
  <2>2. CASE m = 0
    <3>1. kept[m] = <<>>
      BY <1>3, <2>2 DEF keeps
    <3>2. first(0) = {} /\ <<>> \in Log /\ ToSet(<<>>) = {}
      BY DEF Log, ToSet
    <3> QED
      BY <2>2, <3>1, <3>2
  <2>3. CASE m # 0
    <3>1. m - 1 \in 0..Len(l) /\ m \in 1..Len(l)
      BY <2>1, <2>3 DEF Log
    <3>2. good(m - 1)
      <4>1. m - 1 \notin T
        <5> HIDE DEF T
        <5> QED
          BY <2>1, <3>1
      <4> QED
        BY <3>1, <4>1
    <3>3. l[m] \in Entry
      BY <3>1 DEF Log
    <3>4. first(m) = first(m - 1) \cup {l[m]}
      <4>1. \A j : j \in 1..m <=> j \in 1..(m - 1) \/ j = m
        BY <3>1
      <4> QED
        BY <4>1
    <3>5. CASE l[m] \in entries
      <4> DEFINE s == kept[m - 1]
      <4>1. kept[m] = Append(s, l[m])
        BY <1>3, <2>3, <3>1, <3>5 DEF keeps
      <4>2. s \in Log /\ ToSet(s) = first(m - 1) \cap entries
        BY <3>2
      <4> HIDE DEF s, first
      <4>3. Append(s, l[m]) \in Log /\ ToSet(Append(s, l[m])) = ToSet(s) \cup {l[m]}
        <5>1. /\ Append(s, l[m]) \in Seq(Entry) /\ Len(Append(s, l[m])) = Len(s) + 1
              /\ \A j \in 1..Len(s) : Append(s, l[m])[j] = s[j]
              /\ Append(s, l[m])[Len(s) + 1] = l[m]
          BY <3>3, <4>2, AppendProperties DEF Log
        <5>2. Len(s) \in Nat /\ \A j : j \in 1..(Len(s) + 1) <=> j \in 1..Len(s) \/ j = Len(s) + 1
          BY <4>2 DEF Log
        <5> QED
          BY <4>2, <5>1, <5>2, SMTT(30) DEF Log, ToSet
      <4> QED
        BY <3>4, <3>5, <4>1, <4>2, <4>3
    <3>6. CASE l[m] \notin entries
      <4>1. kept[m] = kept[m - 1]
        BY <1>3, <2>3, <3>1, <3>6 DEF keeps
      <4> QED
        BY <3>2, <3>4, <3>6, <4>1
    <3> QED
      BY <3>5, <3>6
  <2> QED
    BY <2>2, <2>3
<1>5. good(Len(l))
  <2>1. Len(l) \in 0..Len(l)
    BY DEF Log
  <2> QED
    BY <1>4, <2>1
<1>6. first(Len(l)) = ToSet(l)
  BY DEF ToSet, Log
<1> QED
  BY <1>1, <1>5, <1>6

(* A log with one entry more, anywhere, is a log.                            *)
LEMMA OneMore ==
    ASSUME NEW l \in Log, NEW i \in 1..(Len(l) + 1), NEW e \in Entry
    PROVE  InsertAt(l, i, e) \in Log /\ ToSet(InsertAt(l, i, e)) = ToSet(l) \cup {e}
<1> DEFINE a == SubSeq(l, 1, i - 1)
           b == SubSeq(l, i, Len(l))
           s == (a \o <<e>>) \o b
<1>1. InsertAt(l, i, e) = s
  BY DEF InsertAt
<1>2. Len(l) \in Nat /\ i \in Nat
  BY DEF Log
<1>3. a \in Log /\ Len(a) = i - 1 /\ \A j \in 1..(i - 1) : a[j] = l[j]
  BY <1>2 DEF Log
<1>4. b \in Log /\ Len(b) = Len(l) - i + 1 /\ \A j \in 1..(Len(l) - i + 1) : b[j] = l[i + j - 1]
  BY <1>2 DEF Log
<1> HIDE DEF a, b
<1>5. s \in Log /\ Len(s) = Len(l) + 1
  BY <1>2, <1>3, <1>4 DEF Log
<1>6. \A j \in 1..(Len(l) + 1) :
          s[j] = IF j < i THEN l[j] ELSE IF j = i THEN e ELSE l[j - 1]
  <2> SUFFICES ASSUME NEW j \in 1..(Len(l) + 1)
               PROVE  s[j] = IF j < i THEN l[j] ELSE IF j = i THEN e ELSE l[j - 1]
    OBVIOUS
  <2>1. Len(a \o <<e>>) = i /\ a \o <<e>> \in Log
    BY <1>2, <1>3 DEF Log
  <2>2. CASE j < i
    <3>1. j \in 1..(i - 1) /\ j \in 1..i
      BY <1>2, <2>2
    <3>2. s[j] = (a \o <<e>>)[j] /\ (a \o <<e>>)[j] = a[j]
      BY <1>2, <1>3, <1>4, <2>1, <3>1 DEF Log
    <3> QED
      BY <1>3, <2>2, <3>1, <3>2
  <2>3. CASE j = i
    <3>1. s[j] = (a \o <<e>>)[j] /\ (a \o <<e>>)[j] = e
      BY <1>2, <1>3, <1>4, <2>1, <2>3 DEF Log
    <3>2. s[j] = e
      BY <3>1
    <3> HIDE DEF s
    <3>3. ~(j < i)
      BY <1>2, <2>3
    <3> QED
      BY <2>3, <3>2, <3>3
  <2>4. CASE j > i
    <3>1. s[j] = b[j - i] /\ j - i \in 1..(Len(l) - i + 1)
      BY <1>2, <1>3, <1>4, <2>1, <2>4 DEF Log
    <3>2. b[j - i] = l[j - 1]
      BY <1>2, <1>4, <3>1
    <3> HIDE DEF s
    <3> QED
      BY <1>2, <2>4, <3>1, <3>2
  <2> HIDE DEF s
  <2> QED
    BY <1>2, <2>2, <2>3, <2>4
<1> HIDE DEF s
<1>7. ToSet(s) \subseteq ToSet(l) \cup {e}
  <2> SUFFICES ASSUME NEW j \in 1..(Len(l) + 1) PROVE s[j] \in ToSet(l) \cup {e}
    BY <1>5 DEF ToSet, Log
  <2>1. j \in 1..Len(l) \/ j = Len(l) + 1
    BY <1>2
  <2>2. j > i => j - 1 \in 1..Len(l)
    BY <1>2
  <2>3. j < i => j \in 1..Len(l)
    BY <1>2
  <2> QED
    BY <1>2, <1>6, <2>2, <2>3 DEF ToSet, Log
<1>8. ToSet(l) \cup {e} \subseteq ToSet(s)
  <2>1. e \in ToSet(s)
    <3>1. i \in 1..Len(s) /\ s[i] = e
      BY <1>2, <1>5, <1>6
    <3> QED
      BY <1>5, <3>1 DEF ToSet, Log
  <2>2. ASSUME NEW j \in 1..Len(l) PROVE l[j] \in ToSet(s)
    <3>1. j < i => j \in 1..Len(s) /\ s[j] = l[j]
      BY <1>2, <1>5, <1>6
    <3>2. ~(j < i) => j + 1 \in 1..Len(s) /\ s[j + 1] = l[j]
      BY <1>2, <1>5, <1>6
    <3> QED
      BY <1>5, <3>1, <3>2 DEF ToSet, Log
  <2> QED
    BY <2>1, <2>2 DEF ToSet, Log
<1> QED
  BY <1>1, <1>5, <1>7, <1>8

-----------------------------------------------------------------------------
(* What an operation makes of the log.                                       *)

(* The snapshots of logs are those of their entries.                         *)
LEMMA IdsOf == ASSUME NEW l \in Log PROVE ids(l) \subseteq Snapshot
<1>1. \A e \in ToSet(l) : e \in Entry
  BY DEF Log, ToSet
<1> QED
  BY <1>1 DEF ids, Entry

(* A snapshot is put in, wherever its neighbours are.                        *)
LEMMA Prepended ==
    ASSUME NEW l \in Log, NEW id \in Snapshot
    PROVE  prependSnapshot(l, id) \in Log /\ ids(prependSnapshot(l, id)) \subseteq ids(l) \cup {id}
<1> DEFINE others == only(l, {e \in ToSet(l) : e.id # id})
           at(n)  == {i \in DOMAIN others : others[i].id = n}
           slot   == IF at(id - 1) # {} THEN CHOOSE i \in at(id - 1) : TRUE
                     ELSE IF at(id + 1) # {} THEN (CHOOSE i \in at(id + 1) : TRUE) + 1
                     ELSE 1
           entry  == [id |-> id, pinned |-> FALSE]
<1>1. prependSnapshot(l, id) = InsertAt(others, slot, entry)
  BY DEF prependSnapshot
<1>2. others \in Log /\ ToSet(others) \subseteq ToSet(l)
  BY OnlyThose
<1>3. entry \in Entry
  BY DEF Entry
<1> HIDE DEF others, entry
<1>4. slot \in 1..(Len(others) + 1)
  <2>1. Len(others) \in Nat /\ DOMAIN others = 1..Len(others)
    BY <1>2 DEF Log
  <2>2. at(id - 1) # {} => (CHOOSE i \in at(id - 1) : TRUE) \in 1..Len(others)
    BY <2>1
  <2>3. at(id + 1) # {} => (CHOOSE i \in at(id + 1) : TRUE) \in 1..Len(others)
    BY <2>1
  <2> HIDE DEF at
  <2> QED
    BY <2>1, <2>2, <2>3
<1> HIDE DEF slot
<1>5. InsertAt(others, slot, entry) \in Log
      /\ ToSet(InsertAt(others, slot, entry)) = ToSet(others) \cup {entry}
  BY <1>2, <1>3, <1>4, OneMore
<1>6. entry.id = id
  BY DEF entry
<1>7. \A e \in ToSet(InsertAt(others, slot, entry)) : e \in ToSet(l) \/ e.id = id
  BY <1>2, <1>5, <1>6
<1> QED
  BY <1>1, <1>5, <1>7, Zenon DEF ids

(* A prune leaves the pinned among the evicted.                              *)
LEMMA Pruned ==
    ASSUME NEW l \in Log, NEW evicted
    PROVE  /\ pruneLog(l, evicted) \in Log
           /\ \A e \in ToSet(pruneLog(l, evicted)) :
                 e \in ToSet(l) /\ (e.id \in evicted => e.pinned)
BY OnlyThose DEF pruneLog

(* A flag moves nothing.                                                     *)
LEMMA Repinned ==
    ASSUME NEW l \in Log, NEW id, NEW flag \in BOOLEAN
    PROVE  repin(l, id, flag) \in Log /\ ids(repin(l, id, flag)) = ids(l)
<1> DEFINE r == repin(l, id, flag)
<1>1. Len(l) \in Nat /\ DOMAIN l = 1..Len(l) /\ \A i \in 1..Len(l) : l[i] \in Entry
  BY DEF Log
<1>2. r = [i \in 1..Len(l) |-> IF l[i].id = id THEN [l[i] EXCEPT !.pinned = flag] ELSE l[i]]
  BY <1>1 DEF repin
<1>3. \A i \in 1..Len(l) : r[i] \in Entry /\ r[i].id = l[i].id
  <2> SUFFICES ASSUME NEW i \in 1..Len(l) PROVE r[i] \in Entry /\ r[i].id = l[i].id
    OBVIOUS
  <2>1. l[i] \in Entry
    BY <1>1
  <2>2. [l[i] EXCEPT !.pinned = flag] \in Entry /\ [l[i] EXCEPT !.pinned = flag].id = l[i].id
    BY <2>1 DEF Entry
  <2> QED
    BY <1>2, <2>1, <2>2
<1>4. r \in [1..Len(l) -> Entry]
  <2> HIDE DEF r
  <2> QED
    BY <1>2, <1>3
<1> HIDE DEF r
<1>5. r \in Log /\ Len(r) = Len(l)
  BY <1>1, <1>4 DEF Log
<1> QED
  BY <1>1, <1>3, <1>5 DEF ids, ToSet, r

Changes == {"record", "prune", "pin", "unpin"}

(* Only a record adds a snapshot.                                            *)
LEMMA Mutated ==
    ASSUME NEW l \in Log, NEW o, o.change \in Changes, o.change = "record" => o.id \in Snapshot
    PROVE  /\ mutate(o, l) \in Log
           /\ ids(mutate(o, l)) \subseteq ids(l) \cup (IF o.change = "record" THEN {o.id} ELSE {})
<1>1. CASE o.change = "record"
  BY <1>1, Prepended DEF mutate
<1>2. CASE o.change = "prune"
  <2>1. mutate(o, l) = pruneLog(l, o.evicted)
    BY <1>2 DEF mutate
  <2> QED
    BY <1>2, <2>1, Pruned DEF ids
<1>3. CASE o.change = "pin"
  BY <1>3, Repinned DEF mutate
<1>4. CASE o.change = "unpin"
  BY <1>4, Repinned DEF mutate
<1> QED
  BY <1>1, <1>2, <1>3, <1>4 DEF Changes

-----------------------------------------------------------------------------
(* The walk over the log.                                                    *)

(* The run from the newest snapshot has no gap.                              *)
LEMMA Contiguous ==
    ASSUME NEW l \in Log, l # <<>>
    PROVE  /\ contiguousLength(l) \in 1..Len(l)
           /\ \A i \in 1..(contiguousLength(l) - 1) : l[i].id - 1 = l[i + 1].id
<1> DEFINE gap(n) == n = Len(l) \/ l[n].id - 1 # l[n + 1].id
           T == {n \in 1..Len(l) : gap(n)}
           fits(n) == /\ \A i \in 1..(n - 1) : l[i].id - 1 = l[i + 1].id
                      /\ n = Len(l) \/ (n > 0 /\ l[n].id - 1 # l[n + 1].id)
<1>1. Len(l) \in Nat \ {0}
  BY DEF Log
<1>2. PICK n \in T : \A k \in T : n <= k
  <2>1. T \in SUBSET Nat /\ T # {}
    BY <1>1
  <2> HIDE DEF T
  <2> QED
    BY <2>1, Least
<1>3. \A i \in 1..(n - 1) : ~gap(i)
  <2> SUFFICES ASSUME NEW i \in 1..(n - 1), gap(i) PROVE FALSE
    OBVIOUS
  <2>1. i \in 1..Len(l) /\ n \in Nat /\ i \in Nat /\ ~(n <= i)
    BY <1>1, <1>2
  <2>2. i \in T
    BY <2>1
  <2> HIDE DEF T
  <2> QED
    BY <1>2, <2>1, <2>2
<1>4. n \in 0..Len(l) /\ fits(n)
  BY <1>1, <1>2, <1>3
<1>5. contiguousLength(l) = CHOOSE m \in 0..Len(l) : fits(m)
  BY DEF contiguousLength
<1> HIDE DEF fits
<1>6. contiguousLength(l) \in 0..Len(l) /\ fits(contiguousLength(l))
  BY <1>4, <1>5
<1> QED
  BY <1>1, <1>6 DEF fits

(* A walk starts at the head and goes back one snapshot at a time.           *)
LEMMA Walk ==
    ASSUME NEW l \in Log, head \in Nat
    PROVE  /\ walkableChain(l) \in Log /\ Len(walkableChain(l)) <= Len(l)
           /\ \A i \in 1..Len(walkableChain(l)) :
                 walkableChain(l)[i] = l[i] /\ walkableChain(l)[i].id = head + 1 - i
<1>1. CASE l = <<>> \/ Head(l).id # head
  <2>1. walkableChain(l) = <<>>
    BY <1>1 DEF walkableChain
  <2> QED
    BY <2>1 DEF Log
<1>2. CASE l # <<>> /\ Head(l).id = head
  <2> DEFINE n == contiguousLength(l)
             chain == SubSeq(l, 1, n)
             T == {i \in 1..n : l[i].id # head + 1 - i}
  <2>1. walkableChain(l) = chain
    BY <1>2 DEF walkableChain
  <2>2. Len(l) \in Nat /\ n \in 1..Len(l) /\ \A i \in 1..(n - 1) : l[i].id - 1 = l[i + 1].id
    BY <1>2, Contiguous DEF Log
  <2> HIDE DEF n
  <2>3. chain \in Log /\ Len(chain) = n /\ \A i \in 1..n : chain[i] = l[i]
    BY <2>2 DEF Log
  <2>4. T = {}
    <3> SUFFICES ASSUME T # {} PROVE FALSE
      OBVIOUS
    <3>1. PICK m \in T : \A k \in T : m <= k
      <4>1. T \in SUBSET Nat
        BY <2>2
      <4> HIDE DEF T
      <4> QED
        BY <4>1, Least
    <3>2. m \in 1..n /\ m \in Nat /\ l[m].id # head + 1 - m
      BY <2>2, <3>1
    <3>3. CASE m = 1
      <4>1. Head(l) = l[1]
        BY <1>2 DEF Log
      <4> QED
        BY <1>2, <3>2, <3>3, <4>1
    <3>4. CASE m # 1
      <4>1. m - 1 \in 1..(n - 1) /\ m - 1 \in 1..n /\ (m - 1) + 1 = m
        BY <2>2, <3>2, <3>4
      <4>2. m - 1 \notin T
        <5> HIDE DEF T
        <5> QED
          BY <3>1, <3>2
      <4>3. l[m - 1].id = head + 1 - (m - 1) /\ l[m - 1].id - 1 = l[m].id
        BY <2>2, <4>1, <4>2
      <4> QED
        BY <3>2, <4>3
    <3> QED
      BY <3>3, <3>4
  <2>5. \A i \in 1..n : l[i].id = head + 1 - i
    BY <2>4
  <2> QED
    BY <2>1, <2>2, <2>3, <2>5
<1> QED
  BY <1>1, <1>2

(* Undoing what a snapshot changed gives the tree before it.                 *)
LEMMA UndoneOnce ==
    ASSUME published \in Seq(Files), NEW id \in 1..head
    PROVE  undoChanges(filesOf(id), changes(id)) = filesOf(id - 1)
<1> DEFINE record == changes(id)
           before == filesOf(id - 1)
           after  == filesOf(id)
<1>1. before \in Files /\ after \in Files
  <2>1. id - 1 = 0 \/ id - 1 \in 1..Len(published)
    BY DEF head
  <2>2. NoFiles \in Files
    BY DEF NoFiles, Files
  <2> QED
    BY <2>1, <2>2 DEF filesOf, head
<1>2. record = {[path |-> p, from |-> before[p], to |-> after[p]] :
                   p \in {q \in Note : before[q] # after[q]}}
  BY DEF changes, diffManifests
<1> HIDE DEF record, before, after
<1>3. ASSUME NEW p \in Note
      PROVE  (IF \E c \in record : c.path = p
              THEN (CHOOSE c \in record : c.path = p).from ELSE after[p]) = before[p]
  <2>1. CASE before[p] = after[p]
    <3>1. ~\E c \in record : c.path = p
      BY <1>2, <2>1
    <3> QED
      BY <2>1, <3>1
  <2>2. CASE before[p] # after[p]
    <3>1. \E c \in record : c.path = p
      <4> DEFINE c == [path |-> p, from |-> before[p], to |-> after[p]]
      <4>1. c \in record
        BY <1>2, <2>2
      <4>2. c.path = p
        OBVIOUS
      <4> QED
        BY <4>1, <4>2, Zenon
    <3>2. \A c \in record : c.path = p => c.from = before[p]
      BY <1>2
    <3>3. (CHOOSE c \in record : c.path = p) \in record
          /\ (CHOOSE c \in record : c.path = p).path = p
      BY <3>1
    <3> QED
      BY <3>1, <3>2, <3>3
  <2> QED
    BY <2>1, <2>2
<1>4. undoChanges(after, record) = [p \in Note |-> before[p]]
  BY <1>3 DEF undoChanges
<1> QED
  BY <1>1, <1>4 DEF record, before, after, Files

(* So a walk of n snapshots from the head gives the tree n snapshots ago.    *)
LEMMA UndoneIsTree ==
    ASSUME HistoryAssumption, published \in Seq(Files), NEW chain \in Log,
           \A i \in 1..Len(chain) : chain[i].id = head + 1 - i, NEW n \in 0..Len(chain)
    PROVE  undone(chain, n) = filesOf(head - n) /\ head - n \in 0..head
<1> DEFINE step(f, i) == IF i = 0 THEN filesOf(head) ELSE undoChanges(f[i - 1], changes(chain[i].id))
           files == CHOOSE f : f = [i \in 0..n |-> step(f, i)]
           trees == [i \in 0..n |-> filesOf(head - i)]
           T == {i \in 0..n : files[i] # filesOf(head - i)}
<1>1. undone(chain, n) = files[n]
  BY DEF undone
<1>2. Len(chain) \in Nat /\ head \in Nat /\ n \in Nat
  BY DEF Log, head
<1>3. \A i \in 1..n : chain[i].id = head + 1 - i /\ head + 1 - i \in 1..head
  <2> SUFFICES ASSUME NEW i \in 1..n PROVE chain[i].id = head + 1 - i /\ head + 1 - i \in 1..head
    OBVIOUS
  <2>1. i \in 1..Len(chain) /\ chain[i] \in Entry
    BY <1>2 DEF Log
  <2>2. chain[i].id \in Nat \ {0}
    BY <2>1 DEF HistoryAssumption, Entry, Snapshot
  <2> QED
    BY <1>2, <2>1, <2>2
<1>4. \A i \in 1..n : undoChanges(filesOf(head - (i - 1)), changes(chain[i].id)) = filesOf(head - i)
  <2> SUFFICES ASSUME NEW i \in 1..n
               PROVE  undoChanges(filesOf(head - (i - 1)), changes(chain[i].id)) = filesOf(head - i)
    OBVIOUS
  <2> DEFINE id == head + 1 - i
  <2>1. id \in 1..head /\ chain[i].id = id /\ head - (i - 1) = id /\ head - i = id - 1
    BY <1>2, <1>3
  <2> HIDE DEF id
  <2> QED
    BY <2>1, UndoneOnce
<1>5. trees = [i \in 0..n |-> step(trees, i)]
  <2>1. ASSUME NEW i \in 0..n PROVE trees[i] = step(trees, i)
    <3>1. CASE i = 0
      BY <1>2, <3>1
    <3>2. CASE i # 0
      <4>1. i \in 1..n /\ i - 1 \in 0..n
        BY <1>2, <3>2
      <4>2. trees[i - 1] = filesOf(head - (i - 1)) /\ trees[i] = filesOf(head - i)
        BY <4>1
      <4> HIDE DEF trees
      <4> QED
        BY <1>4, <3>2, <4>1, <4>2
    <3> QED
      BY <3>1, <3>2
  <2> QED
    BY <2>1
<1>6. files = [i \in 0..n |-> step(files, i)]
  <2> HIDE DEF trees, step
  <2> QED
    BY <1>5
<1>7. \A i \in 0..n : files[i] = step(files, i)
  <2> HIDE DEF files, step
  <2> QED
    BY <1>6
<1> HIDE DEF files
<1>8. T = {}
  <2> SUFFICES ASSUME T # {} PROVE FALSE
    OBVIOUS
  <2>1. PICK m \in T : \A k \in T : m <= k
    <3>1. T \in SUBSET Nat
      BY <1>2
    <3> HIDE DEF T
    <3> QED
      BY <3>1, Least
  <2>2. m \in 0..n /\ files[m] # filesOf(head - m)
    BY <2>1
  <2>3. CASE m = 0
    BY <1>2, <1>7, <2>2, <2>3
  <2>4. CASE m # 0
    <3>1. m \in 1..n /\ m - 1 \in 0..n
      BY <1>2, <2>2, <2>4
    <3>2. m - 1 \notin T
      <4> HIDE DEF T
      <4> QED
        BY <2>1, <3>1
    <3>3. files[m - 1] = filesOf(head - (m - 1))
      BY <3>1, <3>2
    <3>4. files[m] = undoChanges(files[m - 1], changes(chain[m].id))
      BY <1>7, <2>2, <2>4
    <3> QED
      BY <1>4, <2>2, <3>1, <3>3, <3>4
  <2> QED
    BY <2>3, <2>4
<1>9. files[n] = filesOf(head - n)
  BY <1>2, <1>8, SMTT(30)
<1>10. head - n \in 0..head
  <2>1. n = 0 \/ (n \in 1..n /\ head + 1 - n \in 1..head)
    BY <1>2, <1>3
  <2> QED
    BY <1>2, <2>1
<1> QED
  BY <1>1, <1>9, <1>10

-----------------------------------------------------------------------------
(* Types: what an operation changes decides where it can be.                 *)

Update == {"read", "write", "verify", "rewrite", "reread"}
Phase  == Update \cup {"idle", "publish", "list", "confirm", "clean", "retain", "late", "check",
                       "sweep", "rebuild", "put", "drop"}

phases(change) ==
    CASE change = "record" -> Update \cup {"retain"}
      [] change = "prune"  -> Update \cup {"late", "check", "sweep"}
      [] change = "pin"    -> Update \cup {"rebuild", "put"}
      [] change = "unpin"  -> Update \cup {"drop"}
      [] change = "none"   -> {"idle", "publish", "list", "confirm", "clean"}

Operation ==
    [phase : Phase, change : Changes \cup {"none"}, id : Nat, files : Files, copy : Log,
     base : Nat, evicted : SUBSET Nat, live : SUBSET Version, sweep : SUBSET Version,
     drop : SUBSET Nat, wrote : BOOLEAN]

(* With n snapshots published.                                               *)
OpOK(o, n) ==
    /\ o.phase \in phases(o.change)
    /\ ids(o.copy) \subseteq 1..n
    /\ o.base <= n
    /\ o.change \in {"record", "prune"} => o.id \in 1..n

OpsOK == op \in [Collector -> Operation] /\ \A d \in Collector : OpOK(op[d], head)

HTypes ==
    /\ published \in Seq(Files) /\ head <= MaxPushes
    /\ blobs \subseteq Version /\ pins \subseteq Nat
    /\ log \in Log /\ ids(log) \subseteq 1..head
    /\ OpsOK

-----------------------------------------------------------------------------
(* HistoryIsTrue.                                                            *)

(* What a walk reaches is rebuilt as it was.                                 *)
LEMMA Replayed ==
    ASSUME HistoryAssumption, published \in Seq(Files), NEW l \in Log, NEW id, reaches(l, id)
    PROVE  replayTo(l, id) = filesOf(id) /\ id \in 0..head
<1> DEFINE chain == walkableChain(l)
           i == CHOOSE j \in DOMAIN chain : l[j].id = id
<1>1. head \in Nat
  BY DEF head
<1>2. /\ chain \in Log /\ DOMAIN chain = 1..Len(chain) /\ Len(chain) \in Nat
      /\ \A j \in 1..Len(chain) : chain[j] = l[j] /\ chain[j].id = head + 1 - j
  <2>1. chain \in Log /\ \A j \in 1..Len(chain) : chain[j] = l[j] /\ chain[j].id = head + 1 - j
    BY <1>1, Walk
  <2> QED
    BY <2>1 DEF Log
<1>3. i \in 1..Len(chain) /\ l[i].id = id
  BY <1>2 DEF reaches
<1>4. replayTo(l, id) = undone(chain, i - 1)
  BY DEF replayTo
<1> HIDE DEF chain, i
<1>5. i - 1 \in 0..Len(chain) /\ id = head - (i - 1)
  BY <1>1, <1>2, <1>3
<1>6. undone(chain, i - 1) = filesOf(head - (i - 1)) /\ head - (i - 1) \in 0..head
  BY <1>2, <1>5, UndoneIsTree
<1> QED
  BY <1>4, <1>5, <1>6

(* A version that a walk or a pin offers is what its snapshot held.          *)
LEMMA VersionTrue ==
    ASSUME HistoryAssumption, published \in Seq(Files), NEW l \in Log, NEW p \in Note, NEW v \in getFileHistory(l, p)
    PROVE  v.hash = filesOf(v.id)[p]
<1> DEFINE walk  == walkableChain(l)
           chain == IF walk = <<>> THEN <<[id |-> head, pinned |-> FALSE]>> ELSE walk
           at(i) == undone(chain, i - 1)[p]
           seen  == {chain[i].id : i \in DOMAIN chain}
           walked == {[id |-> chain[i].id, hash |-> at(i)] :
                        i \in {j \in DOMAIN chain : j = 1 \/ at(j) # at(j - 1)}}
           kept  == {[id |-> e.id, hash |-> filesOf(e.id)[p]] :
                        e \in {x \in ToSet(l) : x.pinned /\ x.id \in pins \ seen}}
<1>1. v \in walked \cup kept
  BY DEF getFileHistory
<1>2. CASE v \in kept
  BY <1>2
<1>3. CASE v \in walked
  <2>1. head \in Nat
    BY DEF head
  <2>2. \A i \in DOMAIN chain : undone(chain, i - 1) = filesOf(chain[i].id)
    <3>1. CASE walk = <<>>
      <4> DEFINE first == [id |-> head, pinned |-> FALSE]
      <4>1. chain = <<first>> /\ DOMAIN chain = {1} /\ chain[1] = first /\ first.id = head
        BY <3>1
      <4>2. undone(chain, 0) = filesOf(head)
        <5> DEFINE step(f, i) == IF i = 0 THEN filesOf(head)
                                 ELSE undoChanges(f[i - 1], changes(chain[i].id))
                   files == CHOOSE f : f = [i \in 0..0 |-> step(f, i)]
                   only0 == [i \in 0..0 |-> filesOf(head)]
        <5>1. undone(chain, 0) = files[0]
          BY DEF undone
        <5>2. only0 = [i \in 0..0 |-> step(only0, i)]
          OBVIOUS
        <5>3. files = [i \in 0..0 |-> step(files, i)]
          <6> HIDE DEF only0, step
          <6> QED
            BY <5>2
        <5>4. files[0] = step(files, 0)
          <6> HIDE DEF files, step
          <6> QED
            BY <5>3
        <5> QED
          BY <5>1, <5>4
      <4> HIDE DEF chain, first
      <4> QED
        BY <4>1, <4>2
    <3>2. CASE walk # <<>>
      <4>1. chain = walk
        BY <3>2
      <4>2. /\ walk \in Log /\ DOMAIN walk = 1..Len(walk) /\ Len(walk) \in Nat
            /\ \A j \in 1..Len(walk) : walk[j].id = head + 1 - j
        BY <2>1, Walk DEF Log
      <4> HIDE DEF walk, chain
      <4> SUFFICES ASSUME NEW i \in 1..Len(walk) PROVE undone(walk, i - 1) = filesOf(walk[i].id)
        BY <4>1, <4>2
      <4>3. i - 1 \in 0..Len(walk) /\ head - (i - 1) = walk[i].id
        BY <2>1, <4>2
      <4> QED
        BY <4>2, <4>3, UndoneIsTree
    <3> QED
      BY <3>1, <3>2
  <2> HIDE DEF chain
  <2>3. PICK i \in DOMAIN chain : v = [id |-> chain[i].id, hash |-> at(i)]
    BY <1>3
  <2> QED
    BY <2>2, <2>3
<1> QED
  BY <1>1, <1>2, <1>3

(* The walks are true of whatever log they read.                             *)
LEMMA TypesTrue == ASSUME HistoryAssumption, HTypes PROVE HistoryIsTrue
BY Replayed, VersionTrue DEF HTypes, HistoryIsTrue

-----------------------------------------------------------------------------
(* The types are kept.                                                       *)

(* No operation.                                                             *)
LEMMA IdleType == Idle \in Operation /\ \A n \in Nat : OpOK(Idle, n)
<1>1. NoFiles \in Files /\ <<>> \in Log /\ ids(<<>>) = {}
  BY DEF NoFiles, Files, Log, ids, ToSet
<1> QED
  BY <1>1 DEF Idle, Operation, OpOK, Phase, Changes, phases, Update

(* One device's operation goes on while no snapshot goes.                    *)
LEMMA OpsStep ==
    ASSUME OpsOK, head \in Nat, head' \in Nat, head <= head', NEW d \in Collector,
           NEW o \in Operation, OpOK(o, head'), op' = [op EXCEPT ![d] = o]
    PROVE  OpsOK' /\ op'[d] = o /\ \A x \in Collector \ {d} : op'[x] = op[x]
<1>1. op' \in [Collector -> Operation] /\ op'[d] = o /\ \A x \in Collector \ {d} : op'[x] = op[x]
  BY DEF OpsOK
<1>2. ASSUME NEW x \in Collector PROVE OpOK(op'[x], head')
  <2>1. CASE x = d
    BY <1>1, <2>1
  <2>2. CASE x # d
    <3> DEFINE a == op[x]
    <3>1. a \in Operation /\ OpOK(a, head) /\ op'[x] = a
      BY <1>1, <2>2 DEF OpsOK
    <3> HIDE DEF a
    <3>2. a.id \in Nat /\ a.base \in Nat
      BY <3>1 DEF Operation
    <3>3. OpOK(a, head')
      BY <3>1, <3>2 DEF OpOK
    <3> QED
      BY <3>1, <3>3
  <2> QED
    BY <2>1, <2>2
<1> QED
  BY <1>1, <1>2 DEF OpsOK

(* What types say of the snapshots.                                          *)
LEMMA Heads ==
    ASSUME HTypes
    PROVE  /\ head \in Nat /\ head = Len(published) /\ published \in Seq(Files)
           /\ \A i \in 0..head : filesOf(i) \in Files /\ hashes(filesOf(i)) \subseteq Version
           /\ \A i \in 1..head : changeHashes(i) \subseteq Version
           /\ \A i \in ids(log) : i \in 1..head
<1>1. head \in Nat /\ head = Len(published) /\ published \in Seq(Files)
  BY DEF HTypes, head
<1>2. \A i \in 0..head : filesOf(i) \in Files
  <2>1. NoFiles \in Files
    BY DEF NoFiles, Files
  <2> QED
    BY <1>1, <2>1 DEF filesOf
<1>3. \A f \in Files : hashes(f) \subseteq Version
  BY DEF hashes, Files
<1>4. ASSUME NEW i \in 1..head PROVE changeHashes(i) \subseteq Version
  <2> DEFINE a == filesOf(i - 1)
             b == filesOf(i)
  <2>1. a \in Files /\ b \in Files
    <3>1. i \in 0..head /\ i - 1 \in 0..head
      BY <1>1
    <3> QED
      BY <1>2, <3>1
  <2>2. changes(i) = {[path |-> p, from |-> a[p], to |-> b[p]] : p \in {q \in Note : a[q] # b[q]}}
    BY DEF changes, diffManifests
  <2> HIDE DEF a, b
  <2>3. \A c \in changes(i) : {c.from, c.to} \subseteq Version \cup {NoVersion}
    BY <2>1, <2>2 DEF Files
  <2> SUFFICES ASSUME NEW h \in changeHashes(i) PROVE h \in Version
    OBVIOUS
  <2> DEFINE both == {{c.from, c.to} : c \in changes(i)}
  <2>4. h # NoVersion /\ h \in UNION both
    BY DEF changeHashes
  <2>5. PICK c \in changes(i) : h \in {c.from, c.to}
    <3>1. PICK F \in both : h \in F
      <4> HIDE DEF both
      <4> QED
        BY <2>4
    <3>2. PICK c \in changes(i) : F = {c.from, c.to}
      OBVIOUS
    <3> QED
      BY <3>1, <3>2
  <2> QED
    BY <2>3, <2>4, <2>5
<1> QED
  BY <1>1, <1>2, <1>3, <1>4 DEF HTypes

(* The start.                                                                *)
LEMMA HTypesInit == ASSUME HistoryAssumption, HInit PROVE HTypes
<1>1. published = <<>> /\ head = 0 /\ published \in Seq(Files)
  BY DEF HInit, head
<1>2. log = <<>> /\ log \in Log /\ ids(log) = {}
  BY DEF HInit, Log, ids, ToSet
<1>3. OpsOK
  BY <1>1, IdleType DEF HInit, OpsOK
<1> QED
  BY <1>1, <1>2, <1>3 DEF HistoryAssumption, HInit, HTypes

(* An operation changes, and what it leaves has its types still.            *)
became(d, o) == op' = [op EXCEPT ![d] = o] /\ OpOK(o, head')

LEMMA StepTypes ==
    ASSUME HTypes, NEW d \in Collector, NEW o \in Operation, became(d, o), UNCHANGED published,
           blobs' \subseteq Version, pins' \subseteq Nat, log' \in Log, ids(log') \subseteq 1..head
    PROVE  HTypes'
<1>1. head' = head /\ head \in Nat
  BY Heads DEF head
<1>2. OpsOK'
  <2>1. /\ OpsOK /\ head' \in Nat /\ head <= head' /\ OpOK(o, head')
        /\ op' = [op EXCEPT ![d] = o]
    BY <1>1 DEF HTypes, became
  <2> QED
    BY <1>1, <2>1, OpsStep
<1> QED
  BY <1>1, <1>2 DEF HTypes

(* What an operation keeps of itself from one await to the next.             *)
keepsRest(o, p) ==
    /\ o.change = p.change /\ o.id = p.id /\ o.files = p.files /\ o.base = p.base
    /\ o.evicted = p.evicted /\ o.live = p.live

LEMMA OpMoved ==
    ASSUME NEW p \in Operation, NEW x \in Phase
    PROVE  /\ [p EXCEPT !.phase = x] \in Operation
           /\ [p EXCEPT !.phase = x].phase = x /\ [p EXCEPT !.phase = x].copy = p.copy
           /\ [p EXCEPT !.phase = x].sweep = p.sweep
           /\ keepsRest([p EXCEPT !.phase = x], p)
BY DEF Operation, keepsRest

LEMMA OpRead ==
    ASSUME NEW p \in Operation, NEW x \in Phase, NEW l \in Log, NEW o,
           o = [p EXCEPT !.phase = x, !.copy = l]
    PROVE  /\ o \in Operation /\ o.phase = x /\ o.copy = l /\ o.sweep = p.sweep
           /\ keepsRest(o, p)
BY DEF Operation, keepsRest

LEMMA OpSweeps ==
    ASSUME NEW p \in Operation, NEW x \in Phase, NEW h \in SUBSET Version, NEW o,
           o = [p EXCEPT !.phase = x, !.sweep = h]
    PROVE  /\ o \in Operation /\ o.phase = x /\ o.copy = p.copy /\ o.sweep = h
           /\ keepsRest(o, p)
BY DEF Operation, keepsRest

(* A phase of the same change, with a copy of this log or an earlier one.    *)
LEMMA OpGoesOn ==
    ASSUME NEW n \in Nat, NEW p \in Operation, OpOK(p, n), NEW o, keepsRest(o, p),
           o.phase \in phases(p.change), ids(o.copy) \subseteq 1..n
    PROVE  OpOK(o, n)
BY DEF OpOK, keepsRest

LEMMA PhasesOf ==
    /\ phases("record") = Update \cup {"retain"}
    /\ phases("prune") = Update \cup {"late", "check", "sweep"}
    /\ phases("pin") = Update \cup {"rebuild", "put"}
    /\ phases("unpin") = Update \cup {"drop"}
    /\ phases("none") = {"idle", "publish", "list", "confirm", "clean"}
BY DEF phases

(* What is known of a running operation.                                     *)
LEMMA Running ==
    ASSUME HTypes, NEW d \in Collector
    PROVE  /\ op[d] \in Operation /\ OpOK(op[d], head)
           /\ op[d].phase \in Update => op[d].change \in Changes
           /\ op[d].phase = "retain" => op[d].change = "record"
           /\ op[d].phase \in {"late", "check", "sweep"} => op[d].change = "prune"
           /\ op[d].phase \in {"rebuild", "put"} => op[d].change = "pin"
           /\ op[d].phase = "drop" => op[d].change = "unpin"
           /\ op[d].phase \in {"idle", "publish", "list", "confirm", "clean"} => op[d].change = "none"
<1>1. op[d] \in Operation /\ OpOK(op[d], head)
  BY DEF HTypes, OpsOK
<1>2. op[d].change \in Changes \cup {"none"} /\ op[d].phase \in phases(op[d].change)
  BY <1>1 DEF Operation, OpOK
<1> QED
  BY <1>1, <1>2, PhasesOf DEF Changes, Update

(* Uploading.                                                                *)
LEMMA UploadIs ==
    ASSUME HistoryAssumption, HTypes, NEW d \in Collector, Upload(d)
    PROVE  /\ HTypes' /\ UNCHANGED <<published, log, pins>> /\ head' = head
           /\ \E o \in Operation :
                 /\ became(d, o) /\ o.phase = "publish" /\ o.change = "none" /\ o.base = head
                 /\ blobs' = blobs \cup (hashes(o.files) \ hashes(filesOf(head)))
<1>1. PICK files \in Written[head + 1] \ {filesOf(head)} :
        /\ go(d, [Idle EXCEPT !.phase = "publish", !.files = files, !.base = head])
        /\ blobs' = blobs \cup (hashes(files) \ hashes(filesOf(head)))
  BY DEF Upload
<1>2. head \in Nat /\ head < MaxPushes
  BY Heads DEF Upload
<1>3. files \in Files /\ hashes(files) \subseteq Version
  <2>1. head + 1 \in 1..MaxPushes
    BY <1>2 DEF HistoryAssumption
  <2>2. files \in Files
    BY <1>1, <2>1 DEF HistoryAssumption
  <2> QED
    BY <2>2 DEF hashes, Files
<1>4. PICK n : n = head
  OBVIOUS
<1>5. PICK o : o = [Idle EXCEPT !.phase = "publish", !.files = files, !.base = n]
  OBVIOUS
<1>6. /\ o \in Operation /\ OpOK(o, n) /\ o.phase = "publish" /\ o.change = "none"
      /\ o.base = n /\ o.files = files
  <2>1. n \in Nat /\ Idle \in Operation /\ OpOK(Idle, n)
    BY <1>2, <1>4, IdleType
  <2>2. o \in Operation /\ o.phase = "publish" /\ o.base = n /\ o.change = Idle.change
        /\ o.copy = Idle.copy /\ o.files = files
    BY <1>3, <1>5, <2>1 DEF Operation, Phase
  <2>3. Idle.change = "none"
    BY DEF Idle
  <2> QED
    BY <2>1, <2>2, <2>3 DEF OpOK, phases
<1>7. head' = head /\ UNCHANGED <<published, log, pins>>
  BY DEF Upload, head
<1>8. became(d, o)
  BY <1>1, <1>4, <1>5, <1>6, <1>7 DEF go, became
<1>9. HTypes'
  BY <1>1, <1>3, <1>6, <1>7, <1>8, StepTypes DEF HTypes
<1> QED
  BY <1>1, <1>4, <1>6, <1>7, <1>8, <1>9

(* A published manifest is the head, and is to be recorded.                  *)
wins(d) == op[d].base = head /\ head < MaxPushes

LEMMA PublishIs ==
    ASSUME HistoryAssumption, HTypes, NEW d \in Collector, Publish(d)
    PROVE  /\ HTypes' /\ UNCHANGED <<blobs, log, pins>>
           /\ IF wins(d) THEN /\ published' = Append(published, op[d].files) /\ head' = head + 1
                              /\ \A i \in 0..head : filesOf(i)' = filesOf(i)
                              /\ \A n : n = head + 1 => filesOf(n)' = op[d].files
              ELSE UNCHANGED published /\ head' = head
           /\ \E o \in Operation :
                 /\ became(d, o)
                 /\ IF wins(d) THEN o.phase = "read" /\ o.change = "record" /\ o.id = head + 1
                    ELSE o = Idle
<1>1. /\ head \in Nat /\ head = Len(published) /\ published \in Seq(Files)
      /\ UNCHANGED <<blobs, log, pins>>
  BY Heads DEF Publish
<1>2. CASE ~wins(d)
  <2>1. UNCHANGED published /\ go(d, Idle)
    BY <1>2 DEF Publish, wins
  <2>2. head' = head
    BY <2>1 DEF head
  <2>3. became(d, Idle) /\ Idle \in Operation
    BY <1>1, <2>1, <2>2, IdleType DEF became, go
  <2>4. HTypes'
    BY <1>1, <2>1, <2>3, StepTypes DEF HTypes
  <2>5. Idle.phase = "idle" /\ Idle.change = "none"
    BY DEF Idle
  <2> QED
    BY <1>1, <1>2, <2>1, <2>2, <2>3, <2>4, <2>5 DEF Update
<1>3. CASE wins(d)
  <2>1. PICK n : n = head + 1
    OBVIOUS
  <2>2. PICK o : o = [Idle EXCEPT !.phase = "read", !.change = "record", !.id = n]
    OBVIOUS
  <2>3. published' = Append(published, op[d].files) /\ op' = [op EXCEPT ![d] = o]
    BY <1>3, <2>1, <2>2 DEF Publish, wins, go
  <2>4. op[d].files \in Files
    BY Running DEF Operation
  <2>5. /\ head' = head + 1 /\ published' \in Seq(Files) /\ Len(published') = head + 1
        /\ \A i \in 1..head : published'[i] = published[i]
        /\ published'[head + 1] = op[d].files
    BY <1>1, <2>3, <2>4, AppendProperties DEF head
  <2>6. \A i \in 0..head : filesOf(i)' = filesOf(i)
    BY <1>1, <2>5 DEF filesOf
  <2>7. filesOf(n)' = op[d].files
    BY <1>1, <2>1, <2>5 DEF filesOf
  <2>8. o \in Operation /\ o.phase = "read" /\ o.change = "record" /\ o.id = n /\ OpOK(o, n)
    <3>1. n \in Nat /\ Idle \in Operation /\ OpOK(Idle, n)
      BY <1>1, <2>1, IdleType
    <3>2. o \in Operation /\ o.phase = "read" /\ o.base = Idle.base /\ o.change = "record"
          /\ o.copy = Idle.copy /\ o.id = n
      BY <2>2, <3>1 DEF Operation, Phase, Update, Changes
    <3> QED
      BY <1>1, <2>1, <3>1, <3>2, PhasesOf DEF OpOK, Update
  <2>9. became(d, o)
    BY <2>1, <2>3, <2>5, <2>8 DEF became
  <2>10. OpsOK'
    <3>1. OpsOK /\ head' \in Nat /\ head <= head' /\ OpOK(o, head') /\ op' = [op EXCEPT ![d] = o]
      BY <1>1, <2>5, <2>9 DEF HTypes, became
    <3> QED
      BY <1>1, <2>8, <3>1, OpsStep
  <2>11. HTypes'
    <3>1. head' <= MaxPushes
      BY <1>1, <1>3, <2>5 DEF HistoryAssumption, wins
    <3>2. ids(log)' \subseteq 1..head'
      <4>1. \A i \in ids(log) : i \in 1..(head + 1)
        BY <1>1, Heads
      <4>2. ids(log)' = ids(log)
        BY <1>1 DEF ids
      <4> QED
        BY <2>5, <4>1, <4>2
    <3> QED
      BY <1>1, <2>5, <2>10, <3>1, <3>2 DEF HTypes
  <2> QED
    BY <1>1, <1>3, <2>1, <2>3, <2>5, <2>6, <2>7, <2>8, <2>9, <2>11 DEF Update
<1> QED
  BY <1>2, <1>3

(* The log is read.                                                          *)
LEMMA ReadLogIs ==
    ASSUME HTypes, NEW d \in Collector, ReadLog(d)
    PROVE  /\ HTypes' /\ UNCHANGED store /\ mayRewrite(d) /\ op[d].phase = "read"
           /\ \E o \in Operation :
                 became(d, o) /\ o.phase = "write" /\ o.copy = log /\ keepsRest(o, op[d])
                     /\ o.sweep = op[d].sweep
<1>1. /\ op[d] \in Operation /\ OpOK(op[d], head) /\ op[d].change \in Changes
      /\ op[d].phase = "read"
  BY Running DEF ReadLog, Update
<1>2. UNCHANGED store /\ UNCHANGED <<published, blobs, log, pins>> /\ head' = head /\ head \in Nat
  BY Heads DEF ReadLog, store, head
<1>3. PICK l : l = log
  OBVIOUS
<1>4. PICK p : p = op[d]
  OBVIOUS
<1>5. PICK o : o = [p EXCEPT !.phase = "write", !.copy = l]
  OBVIOUS
<1>6. /\ o \in Operation /\ o.phase = "write" /\ o.copy = l /\ keepsRest(o, p)
      /\ o.sweep = p.sweep
  <2>1. p \in Operation /\ l \in Log /\ "write" \in Phase
    BY <1>1, <1>3, <1>4 DEF HTypes, Phase, Update
  <2> QED
    BY <1>5, <2>1 DEF Operation, keepsRest
<1>7. "write" \in phases(p.change)
  BY <1>1, <1>4, PhasesOf DEF Changes, Update
<1>8. OpOK(o, head)
  BY <1>1, <1>2, <1>3, <1>4, <1>6, <1>7, OpGoesOn DEF HTypes
<1>9. became(d, o)
  BY <1>2, <1>3, <1>4, <1>5, <1>8 DEF ReadLog, go, became
<1>10. HTypes'
  BY <1>2, <1>6, <1>9, StepTypes DEF HTypes
<1> QED
  BY <1>1, <1>2, <1>3, <1>4, <1>6, <1>9, <1>10 DEF ReadLog


(* The log is written: as the operation makes it of its copy.                *)
LEMMA WriteLogIs ==
    ASSUME HistoryAssumption, HTypes, NEW d \in Collector, WriteLog(d)
    PROVE  /\ HTypes' /\ UNCHANGED <<published, blobs>>
           /\ op[d].phase \in {"write", "rewrite"}
           /\ log' = mutate(op[d], op[d].copy)
           /\ ids(log') \subseteq ids(op[d].copy) \cup (IF recording(d) THEN {op[d].id} ELSE {})
           /\ \E o \in Operation :
                 /\ became(d, o) /\ o.phase \in {"verify", "reread"} /\ o.copy = op[d].copy
                 /\ keepsRest(o, op[d]) /\ o.sweep = op[d].sweep
<1>1. PICK p : p = op[d]
  OBVIOUS
<1>2. /\ p \in Operation /\ OpOK(p, head) /\ p.change \in Changes
      /\ p.phase \in {"write", "rewrite"} /\ head \in Nat
      /\ p.change = "record" => p.id \in Snapshot
  <2>1. p \in Operation /\ OpOK(p, head) /\ p.change \in Changes
        /\ p.phase \in {"write", "rewrite"} /\ head \in Nat /\ head <= MaxPushes
    BY <1>1, Running, Heads DEF WriteLog, Update, HTypes
  <2> QED
    BY <2>1 DEF HistoryAssumption, OpOK, Snapshot
<1>3. /\ log' = mutate(p, p.copy) /\ UNCHANGED <<published, blobs, pins>>
      /\ go(d, [p EXCEPT !.phase = IF @ = "write" THEN "verify" ELSE "reread"])
  BY <1>1 DEF WriteLog
<1>4. /\ log' \in Log
      /\ ids(log') \subseteq ids(p.copy) \cup (IF p.change = "record" THEN {p.id} ELSE {})
  <2>1. p.copy \in Log
    BY <1>2 DEF Operation
  <2> QED
    BY <1>2, <1>3, <2>1, Mutated
<1>5. PICK ph \in {"verify", "reread"} : ph = IF p.phase = "write" THEN "verify" ELSE "reread"
  OBVIOUS
<1>6. PICK o : o = [p EXCEPT !.phase = ph]
  OBVIOUS
<1>7. /\ o \in Operation /\ o.phase = ph /\ o.copy = p.copy /\ o.sweep = p.sweep
      /\ keepsRest(o, p)
  <2>1. ph \in Phase
    BY DEF Phase, Update
  <2> QED
    BY <1>2, <1>6, <2>1, OpMoved
<1>8. head' = head
  BY <1>3 DEF head
<1>9. became(d, o)
  <2>1. ph \in phases(p.change) /\ ids(o.copy) \subseteq 1..head
    BY <1>2, <1>7, PhasesOf DEF Changes, Update, OpOK
  <2>2. OpOK(o, head)
    BY <1>2, <1>7, <2>1, OpGoesOn
  <2>3. go(d, o)
    BY <1>3, <1>5, <1>6
  <2> QED
    BY <1>8, <2>2, <2>3 DEF go, became
<1>10. HTypes'
  <2>1. ids(log') \subseteq 1..head
    BY <1>2, <1>4 DEF OpOK
  <2> QED
    BY <1>3, <1>4, <1>7, <1>9, <2>1, StepTypes DEF HTypes
<1> QED
  BY <1>1, <1>2, <1>3, <1>4, <1>7, <1>9, <1>10 DEF recording

(* A step that only moves the operation on.                                  *)
LEMMA MovesOn ==
    ASSUME HTypes, NEW d \in Collector, NEW o \in Operation, OpOK(o, head), go(d, o),
           UNCHANGED <<published, blobs, log>>, pins' \subseteq Nat
    PROVE  HTypes' /\ head' = head /\ became(d, o)
<1>1. head' = head
  BY DEF head
<1>2. became(d, o)
  BY <1>1 DEF became, go
<1> QED
  BY <1>1, <1>2, StepTypes DEF HTypes

(* Reading it back: again, further, or done.                                 *)
goesOn == {"rewrite", "retain", "late", "drop"}

LEMMA ReadBackIs ==
    ASSUME HTypes, NEW d \in Collector, ReadBack(d)
    PROVE  /\ HTypes' /\ UNCHANGED <<published, blobs, log>>
           /\ op[d].phase \in {"verify", "reread"}
           /\ \E o \in Operation :
                 /\ became(d, o)
                 /\ \/ o = Idle
                    \/ /\ o.phase \in goesOn /\ o.copy = log
                       /\ keepsRest(o, op[d]) /\ o.sweep = op[d].sweep
                       /\ o.phase = "late" => op[d].phase = "reread" \/ survived(op[d], log)
<1>1. PICK p : p = op[d]
  OBVIOUS
<1>2. PICK l : l = log
  OBVIOUS
<1>3. /\ p \in Operation /\ OpOK(p, head) /\ p.change \in Changes
      /\ p.phase \in {"verify", "reread"} /\ head \in Nat
      /\ l \in Log /\ ids(l) \subseteq 1..head
  BY <1>1, <1>2, Running, Heads DEF ReadBack, Update, HTypes
<1>4. /\ UNCHANGED <<published, blobs, log>> /\ pins' \subseteq Nat
      /\ go(d, IF p.phase = "reread" \/ survived(p, l) THEN then(d, l)
               ELSE [p EXCEPT !.phase = "rewrite", !.copy = l])
  BY <1>1, <1>2 DEF ReadBack, store, HTypes
<1>5. ASSUME NEW ph \in goesOn, ph \in phases(p.change), NEW o,
             o = [p EXCEPT !.phase = ph, !.copy = l]
      PROVE  o \in Operation /\ OpOK(o, head) /\ o.phase = ph /\ o.copy = l /\ o.sweep = p.sweep
             /\ keepsRest(o, p)
  <2>1. ph \in Phase
    BY DEF goesOn, Phase, Update
  <2>2. o \in Operation /\ o.phase = ph /\ o.copy = l /\ o.sweep = p.sweep /\ keepsRest(o, p)
    BY <1>3, <1>5, <2>1 DEF Operation, keepsRest
  <2> QED
    BY <1>3, <1>5, <2>2, OpGoesOn
<1>6. PICK o : o = IF p.phase = "reread" \/ survived(p, l) THEN then(d, l)
                   ELSE [p EXCEPT !.phase = "rewrite", !.copy = l]
  OBVIOUS
<1>7. \/ o = Idle
      \/ \E ph \in goesOn : /\ ph \in phases(p.change) /\ o = [p EXCEPT !.phase = ph, !.copy = l]
                            /\ ph = "late" => p.phase = "reread" \/ survived(p, l)
  <2>1. CASE ~(p.phase = "reread" \/ survived(p, l))
    <3>1. "rewrite" \in goesOn /\ "rewrite" \in phases(p.change)
      BY <1>3, PhasesOf DEF goesOn, Changes, Update
    <3>2. o = [p EXCEPT !.phase = "rewrite", !.copy = l]
      BY <1>6, <2>1
    <3> QED
      BY <3>1, <3>2
  <2>2. CASE p.phase = "reread" \/ survived(p, l)
    <3> DEFINE r(ph) == [[p EXCEPT !.copy = l] EXCEPT !.phase = ph]
    <3>1. o = then(d, l)
      BY <1>6, <2>2
    <3>2. o = CASE p.change = "record" /\ shouldRunGc(l) -> r("retain")
                [] p.change = "prune" -> r("late")
                [] p.change = "unpin" -> r("drop")
                [] OTHER -> Idle
      <4>1. [p EXCEPT !.copy = l].change = p.change
        BY <1>3 DEF Operation
      <4> QED
        BY <1>1, <3>1, <4>1 DEF then
    <3>3. \A ph : r(ph) = [p EXCEPT !.phase = ph, !.copy = l]
      BY <1>3 DEF Operation
    <3> HIDE DEF r
    <3>4. \/ o = Idle
          \/ p.change = "record" /\ o = r("retain")
          \/ p.change = "prune" /\ o = r("late")
          \/ p.change = "unpin" /\ o = r("drop")
      BY <3>2
    <3>5. /\ {"retain", "late", "drop"} \subseteq goesOn
          /\ p.change = "record" => "retain" \in phases(p.change)
          /\ p.change = "prune" => "late" \in phases(p.change)
          /\ p.change = "unpin" => "drop" \in phases(p.change)
      BY PhasesOf DEF goesOn
    <3> QED
      BY <2>2, <3>3, <3>4, <3>5
  <2> QED
    BY <2>1, <2>2
<1>8. o \in Operation /\ OpOK(o, head)
  BY <1>3, <1>5, <1>7, IdleType
<1>9. HTypes' /\ became(d, o)
  <2>1. go(d, o)
    BY <1>4, <1>6
  <2> QED
    BY <1>4, <1>8, <2>1, MovesOn
<1>10. \/ o = Idle
       \/ /\ o.phase \in goesOn /\ o.copy = l /\ keepsRest(o, p) /\ o.sweep = p.sweep
          /\ o.phase = "late" => p.phase = "reread" \/ survived(p, l)
  <2>1. CASE o = Idle
    BY <2>1
  <2>2. CASE o # Idle
    <3>1. PICK ph \in goesOn :
            /\ ph \in phases(p.change) /\ o = [p EXCEPT !.phase = ph, !.copy = l]
            /\ ph = "late" => p.phase = "reread" \/ survived(p, l)
      BY <1>7, <2>2
    <3>2. o.phase = ph /\ o.copy = l /\ o.sweep = p.sweep /\ keepsRest(o, p)
      BY <1>5, <3>1
    <3> QED
      BY <3>1, <3>2
  <2> QED
    BY <2>1, <2>2
<1> QED
  BY <1>1, <1>2, <1>3, <1>4, <1>8, <1>9, <1>10

(* What every retained snapshot, every pin and the head need.                *)
evictedOf(l) == {plain(l)[i].id : i \in (Retained + 1)..Len(plain(l))}
liveOf(l, id) ==
    hashes(filesOf(id)) \cup (UNION {changeHashes(i) : i \in ids(l) \ evictedOf(l)})
        \cup (UNION {hashes(filesOf(i)) : i \in pinned(l) \cap pins})
goneOf(l) == UNION {changeHashes(i) : i \in evictedOf(l)}

LEMMA RetainedOf ==
    ASSUME HistoryAssumption, HTypes, NEW l \in Log, ids(l) \subseteq 1..head, NEW id \in 1..head
    PROVE  /\ evictedOf(l) \subseteq Nat /\ pinned(l) \subseteq 1..head
           /\ liveOf(l, id) \subseteq Version /\ goneOf(l) \subseteq Version
           /\ hashes(filesOf(id)) \subseteq liveOf(l, id)
           /\ \A i \in ids(l) : i \in evictedOf(l) \/ changeHashes(i) \subseteq liveOf(l, id)
<1>1. /\ head \in Nat
      /\ \A i \in 1..head : hashes(filesOf(i)) \subseteq Version /\ changeHashes(i) \subseteq Version
  BY Heads
<1>2. plain(l) \in Log /\ ToSet(plain(l)) \subseteq ToSet(l)
  BY OnlyThose DEF plain
<1>3. evictedOf(l) \subseteq 1..head
  <2> SUFFICES ASSUME NEW i \in (Retained + 1)..Len(plain(l)) PROVE plain(l)[i].id \in 1..head
    BY DEF evictedOf
  <2>1. i \in 1..Len(plain(l))
    BY <1>2 DEF HistoryAssumption, Log
  <2>2. plain(l)[i] \in ToSet(plain(l))
    BY <1>2, <2>1 DEF ToSet, Log
  <2>3. plain(l)[i].id \in ids(l)
    BY <1>2, <2>2, Zenon DEF ids
  <2> QED
    BY <2>3
<1>4. pinned(l) \subseteq 1..head
  <2>1. pinned(l) \subseteq ids(l)
    BY DEF pinned, ids
  <2> QED
    BY <2>1
<1> DEFINE a == {changeHashes(i) : i \in ids(l) \ evictedOf(l)}
           b == {hashes(filesOf(i)) : i \in pinned(l) \cap pins}
           c == {changeHashes(i) : i \in evictedOf(l)}
<1>5. (\A x \in a : x \subseteq Version) /\ (\A x \in b : x \subseteq Version) /\ (\A x \in c : x \subseteq Version)
  BY <1>1, <1>3, <1>4
<1>6. \A i \in ids(l) : i \in evictedOf(l) \/ changeHashes(i) \in a
  OBVIOUS
<1>7. liveOf(l, id) = hashes(filesOf(id)) \cup (UNION a) \cup (UNION b) /\ goneOf(l) = UNION c
  BY DEF liveOf, goneOf
<1> HIDE DEF a, b, c
<1>8. hashes(filesOf(id)) \subseteq Version
  BY <1>1
<1> QED
  BY <1>1, <1>3, <1>4, <1>5, <1>6, <1>7, <1>8

(* A collector decides.                                                      *)
LEMMA RetainIs ==
    ASSUME HistoryAssumption, HTypes, NEW d \in Collector, Retain(d)
    PROVE  /\ HTypes' /\ UNCHANGED <<published, blobs, log>>
           /\ mayCollect(d) /\ op[d].phase = "retain" /\ op[d].change = "record"
           /\ \E o \in Operation :
                 /\ became(d, o) /\ o.phase = "read" /\ o.change = "prune" /\ o.id = op[d].id
                 /\ hashes(filesOf(o.id)) \subseteq o.live
                 /\ \A i \in ids(op[d].copy) : i \in o.evicted \/ changeHashes(i) \subseteq o.live
<1>1. PICK p : p = op[d]
  OBVIOUS
<1>2. /\ p \in Operation /\ OpOK(p, head) /\ p.change = "record" /\ p.phase = "retain"
      /\ head \in Nat /\ p.id \in 1..head /\ p.copy \in Log /\ ids(p.copy) \subseteq 1..head
  <2>1. p \in Operation /\ OpOK(p, head) /\ p.change = "record" /\ p.phase = "retain" /\ head \in Nat
    BY <1>1, Running, Heads DEF Retain
  <2> QED
    BY <2>1 DEF OpOK, Operation
<1>3. PICK l : l = p.copy
  OBVIOUS
<1>4. PICK evicted : evicted = evictedOf(l)
  OBVIOUS
<1>5. PICK live : live = liveOf(l, p.id)
  OBVIOUS
<1>6. PICK sweep : sweep = IF pinned(l) \subseteq pins THEN goneOf(l) ELSE {}
  OBVIOUS
<1>7. /\ evicted \in SUBSET Nat /\ live \in SUBSET Version /\ sweep \in SUBSET Version
      /\ hashes(filesOf(p.id)) \subseteq live
      /\ \A i \in ids(l) : i \in evicted \/ changeHashes(i) \subseteq live
  <2>1. l \in Log /\ ids(l) \subseteq 1..head
    BY <1>2, <1>3
  <2>2. /\ evicted \subseteq Nat /\ live \subseteq Version /\ goneOf(l) \subseteq Version
        /\ hashes(filesOf(p.id)) \subseteq live
        /\ \A i \in ids(l) : i \in evicted \/ changeHashes(i) \subseteq live
    BY <1>2, <1>4, <1>5, <2>1, RetainedOf
  <2> QED
    BY <1>6, <2>2
<1>8. PICK o : o = [p EXCEPT !.phase = "read", !.change = "prune", !.evicted = evicted,
                    !.live = live, !.sweep = sweep]
  OBVIOUS
<1>9. /\ o \in Operation /\ o.phase = "read" /\ o.change = "prune" /\ o.id = p.id
      /\ o.evicted = evicted /\ o.live = live /\ o.copy = p.copy /\ o.base = p.base
  BY <1>2, <1>7, <1>8 DEF Operation, Phase, Update, Changes
<1>10. OpOK(o, head)
  BY <1>2, <1>9, PhasesOf DEF OpOK, Update
<1>11. UNCHANGED <<published, blobs, log, pins>> /\ mayCollect(d)
  BY DEF Retain, store
<1>12. go(d, o)
  BY <1>1, <1>3, <1>4, <1>5, <1>6, <1>8 DEF Retain, evictedOf, liveOf, goneOf, ids
<1>13. HTypes' /\ became(d, o)
  BY <1>9, <1>10, <1>11, <1>12, MovesOn DEF HTypes
<1> QED
  BY <1>1, <1>2, <1>3, <1>7, <1>9, <1>11, <1>13

(* An operation moves on with fewer blobs to sweep, or as many.              *)
sweepsOn(p, x, h) == [p EXCEPT !.phase = x, !.sweep = h]

LEMMA SweepsOn ==
    ASSUME HTypes, NEW d \in Collector, NEW p, p = op[d], NEW x \in Phase, x \in phases(p.change),
           NEW h \in SUBSET Version, NEW o, o = sweepsOn(p, x, h)
    PROVE  /\ o \in Operation /\ OpOK(o, head) /\ o.phase = x /\ o.copy = p.copy
           /\ o.sweep = h /\ keepsRest(o, p)
<1>1. p \in Operation /\ OpOK(p, head) /\ head \in Nat
  BY Running, Heads
<1>2. o \in Operation /\ o.phase = x /\ o.copy = p.copy /\ o.sweep = h /\ keepsRest(o, p)
  BY <1>1 DEF sweepsOn, Operation, keepsRest
<1>3. OpOK(o, head)
  <2>1. o.phase \in phases(p.change) /\ ids(o.copy) \subseteq 1..head
    BY <1>1, <1>2 DEF OpOK
  <2> QED
    BY <1>1, <1>2, <2>1, OpGoesOn
<1> QED
  BY <1>2, <1>3

(* The head is looked at again.                                              *)
LEMMA LateHeadIs ==
    ASSUME HTypes, NEW d \in Collector, LateHead(d)
    PROVE  /\ HTypes' /\ UNCHANGED <<published, blobs, log>>
           /\ mayDecide(d) /\ op[d].phase = "late"
           /\ \E o \in Operation :
                 /\ became(d, o) /\ o.phase = "check" /\ o.copy = op[d].copy
                 /\ keepsRest(o, op[d])
                 /\ o.sweep # {} => head = op[d].id
<1>1. PICK p : p = op[d]
  OBVIOUS
<1>2. p \in Operation /\ p.change = "prune" /\ p.phase = "late"
  BY <1>1, Running DEF LateHead
<1>3. PICK h : h = IF head = p.id THEN p.sweep ELSE {}
  OBVIOUS
<1>4. PICK o : o = sweepsOn(p, "check", h)
  OBVIOUS
<1>5. UNCHANGED <<published, blobs, log, pins>> /\ mayDecide(d) /\ go(d, o)
  BY <1>1, <1>2, <1>3, <1>4 DEF LateHead, headUnchanged, store, sweepsOn
<1>6. h \in SUBSET Version /\ "check" \in phases(p.change) /\ "check" \in Phase
  BY <1>2, <1>3, PhasesOf DEF Operation, Phase
<1>7. /\ o \in Operation /\ OpOK(o, head) /\ o.phase = "check" /\ o.copy = p.copy
      /\ o.sweep = h /\ keepsRest(o, p)
  BY <1>1, <1>4, <1>6, SweepsOn
<1>8. HTypes' /\ became(d, o)
  BY <1>5, <1>7, MovesOn DEF HTypes
<1> QED
  BY <1>1, <1>2, <1>3, <1>5, <1>7, <1>8

(* Another device's pins are looked for.                                     *)
LEMMA PinnedAmongIs ==
    ASSUME HTypes, NEW d \in Collector, PinnedAmong(d)
    PROVE  /\ HTypes' /\ UNCHANGED <<published, blobs, log>> /\ op[d].phase = "check"
           /\ \E o \in Operation :
                 /\ became(d, o)
                 /\ \/ o = Idle
                    \/ /\ o.phase = "sweep" /\ o.copy = op[d].copy /\ keepsRest(o, op[d])
                       /\ o.sweep = op[d].sweep \ op[d].live /\ o.sweep # {}
                       /\ rescued(op[d]) = {}
<1>1. PICK p : p = op[d]
  OBVIOUS
<1>2. p \in Operation /\ p.change = "prune" /\ p.phase = "check"
  BY <1>1, Running DEF PinnedAmong
<1>3. PICK h : h = IF rescued(p) = {} THEN p.sweep \ p.live ELSE {}
  OBVIOUS
<1>4. PICK s : s = sweepsOn(p, "sweep", h)
  OBVIOUS
<1>5. PICK o : o = IF h = {} THEN Idle ELSE s
  OBVIOUS
<1>6. UNCHANGED <<published, blobs, log, pins>> /\ go(d, o)
  BY <1>1, <1>3, <1>4, <1>5 DEF PinnedAmong, store, sweepsOn
<1>7. h \in SUBSET Version /\ "sweep" \in phases(p.change) /\ "sweep" \in Phase
  BY <1>2, <1>3, PhasesOf DEF Operation, Phase
<1>8. /\ s \in Operation /\ OpOK(s, head) /\ s.phase = "sweep" /\ s.copy = p.copy
      /\ s.sweep = h /\ keepsRest(s, p)
  BY <1>1, <1>4, <1>7, SweepsOn
<1>9. o \in Operation /\ OpOK(o, head)
  <2>1. head \in Nat
    BY Heads
  <2> QED
    BY <1>5, <1>8, <2>1, IdleType
<1>10. HTypes' /\ became(d, o)
  BY <1>6, <1>9, MovesOn DEF HTypes
<1>11. \/ o = Idle
       \/ /\ o.phase = "sweep" /\ o.copy = p.copy /\ keepsRest(o, p)
          /\ o.sweep = p.sweep \ p.live /\ o.sweep # {} /\ rescued(p) = {}
  BY <1>3, <1>5, <1>8
<1> QED
  BY <1>1, <1>2, <1>6, <1>9, <1>10, <1>11

(* Blobs are deleted.                                                        *)
LEMMA SweepIs ==
    ASSUME HTypes, NEW d \in Collector, Sweep(d)
    PROVE  /\ HTypes' /\ UNCHANGED <<published, log>> /\ op[d].phase \in {"sweep", "clean"}
           /\ blobs' \subseteq blobs /\ blobs \ op[d].sweep \subseteq blobs'
           /\ \E o \in Operation :
                 /\ became(d, o)
                 /\ \/ o = Idle
                    \/ /\ o.phase = op[d].phase /\ o.copy = op[d].copy /\ keepsRest(o, op[d])
                       /\ o.sweep \subseteq op[d].sweep
<1>1. PICK p : p = op[d]
  OBVIOUS
<1>2. /\ p \in Operation /\ OpOK(p, head) /\ p.phase \in {"sweep", "clean"} /\ head \in Nat
      /\ UNCHANGED <<published, log>>
  BY <1>1, Running, Heads DEF Sweep
<1>3. \E q \in Operation :
         /\ q.phase = p.phase /\ q.copy = p.copy /\ q.change = p.change /\ keepsRest(q, p)
         /\ q.sweep \subseteq p.sweep
         /\ go(d, IF q.sweep = {} /\ q.drop = {} THEN Idle ELSE q)
         /\ blobs' \subseteq blobs /\ blobs \ p.sweep \subseteq blobs' /\ pins' \subseteq pins
  <2>1. CASE \E h \in p.sweep :
               /\ blobs' = blobs \ {h} /\ UNCHANGED pins
               /\ go(d, LET o == [p EXCEPT !.sweep = @ \ {h}]
                        IN  IF o.sweep = {} /\ o.drop = {} THEN Idle ELSE o)
    <3>1. PICK h \in p.sweep :
            /\ blobs' = blobs \ {h} /\ UNCHANGED pins
            /\ go(d, LET o == [p EXCEPT !.sweep = @ \ {h}]
                     IN  IF o.sweep = {} /\ o.drop = {} THEN Idle ELSE o)
      BY <2>1
    <3>2. PICK q : q = [p EXCEPT !.sweep = @ \ {h}]
      OBVIOUS
    <3>3. /\ q \in Operation /\ q.phase = p.phase /\ q.copy = p.copy /\ q.sweep = p.sweep \ {h}
          /\ keepsRest(q, p)
      BY <1>2, <3>2 DEF Operation, keepsRest
    <3>4. go(d, IF q.sweep = {} /\ q.drop = {} THEN Idle ELSE q)
      BY <3>1, <3>2
    <3> QED
      BY <3>1, <3>3, <3>4 DEF keepsRest
  <2>2. CASE \E id \in p.drop :
               /\ pins' = pins \ {id} /\ UNCHANGED blobs
               /\ go(d, LET o == [p EXCEPT !.drop = @ \ {id}]
                        IN  IF o.sweep = {} /\ o.drop = {} THEN Idle ELSE o)
    <3>1. PICK id \in p.drop :
            /\ pins' = pins \ {id} /\ UNCHANGED blobs
            /\ go(d, LET o == [p EXCEPT !.drop = @ \ {id}]
                     IN  IF o.sweep = {} /\ o.drop = {} THEN Idle ELSE o)
      BY <2>2
    <3>2. PICK q : q = [p EXCEPT !.drop = @ \ {id}]
      OBVIOUS
    <3>3. /\ q \in Operation /\ q.phase = p.phase /\ q.copy = p.copy /\ q.sweep = p.sweep
          /\ keepsRest(q, p)
      BY <1>2, <3>2 DEF Operation, keepsRest
    <3>4. go(d, IF q.sweep = {} /\ q.drop = {} THEN Idle ELSE q)
      BY <3>1, <3>2
    <3> QED
      BY <3>1, <3>3, <3>4 DEF keepsRest
  <2> QED
    BY <1>1, <2>1, <2>2 DEF Sweep
<1>4. PICK q \in Operation :
         /\ q.phase = p.phase /\ q.copy = p.copy /\ q.change = p.change /\ keepsRest(q, p)
         /\ q.sweep \subseteq p.sweep
         /\ go(d, IF q.sweep = {} /\ q.drop = {} THEN Idle ELSE q)
         /\ blobs' \subseteq blobs /\ blobs \ p.sweep \subseteq blobs' /\ pins' \subseteq pins
  BY <1>3
<1>5. PICK o : o = IF q.sweep = {} /\ q.drop = {} THEN Idle ELSE q
  OBVIOUS
<1>6. o \in Operation /\ OpOK(o, head)
  <2>1. q.phase \in phases(p.change) /\ ids(q.copy) \subseteq 1..head
    BY <1>2, <1>4 DEF OpOK
  <2>2. OpOK(q, head)
    BY <1>2, <1>4, <2>1, OpGoesOn
  <2> QED
    BY <1>2, <1>4, <1>5, <2>2, IdleType
<1>7. head' = head
  BY <1>2 DEF head
<1>8. became(d, o)
  BY <1>4, <1>5, <1>6, <1>7 DEF go, became
<1>9. HTypes'
  <2>1. blobs' \subseteq Version /\ pins' \subseteq Nat
    BY <1>4 DEF HTypes
  <2> QED
    BY <1>2, <1>6, <1>8, <2>1, StepTypes DEF HTypes
<1> QED
  BY <1>1, <1>2, <1>4, <1>5, <1>6, <1>8, <1>9

(* The deep clean keeps what the head and the log name.                      *)
LEMMA Reachable ==
    ASSUME HTypes
    PROVE  /\ reachableHashes \in SUBSET Version /\ hashes(filesOf(head)) \subseteq reachableHashes
           /\ \A i \in ids(log) : changeHashes(i) \subseteq reachableHashes
           /\ pinned(log) \in SUBSET Nat
<1>1. /\ head \in Nat
      /\ \A i \in 0..head : hashes(filesOf(i)) \subseteq Version
      /\ \A i \in 1..head : changeHashes(i) \subseteq Version
      /\ \A i \in ids(log) : i \in 1..head
  BY Heads
<1>2. pinned(log) \subseteq ids(log)
  BY DEF pinned, ids
<1> DEFINE a == {changeHashes(e.id) : e \in ToSet(log)}
           b == {hashes(filesOf(i)) : i \in pinned(log) \cap pins}
<1>3. \A i \in ids(log) : changeHashes(i) \in a
  BY DEF ids
<1>4. (\A x \in a : x \subseteq Version) /\ (\A x \in b : x \subseteq Version)
  <2>1. \A e \in ToSet(log) : e.id \in ids(log)
    BY DEF ids
  <2>2. \A i \in pinned(log) : i \in 0..head
    BY <1>1, <1>2
  <2> QED
    BY <1>1, <2>1, <2>2
<1>5. reachableHashes = hashes(filesOf(head)) \cup (UNION a) \cup (UNION b)
  BY DEF reachableHashes
<1> HIDE DEF a, b
<1>6. hashes(filesOf(head)) \subseteq Version
  BY <1>1
<1>7. pinned(log) \subseteq Nat
  BY <1>1, <1>2
<1> QED
  BY <1>3, <1>4, <1>5, <1>6, <1>7

LEMMA StartCleanIs ==
    ASSUME HTypes, NEW d \in Collector, StartClean(d)
    PROVE  /\ HTypes' /\ UNCHANGED <<published, blobs, log>> /\ mayCollect(d)
           /\ \E o \in Operation :
                 /\ became(d, o) /\ o.phase = "list" /\ o.change = "none" /\ o.base = head
                 /\ hashes(filesOf(head)) \subseteq o.live
                 /\ \A i \in ids(log) : changeHashes(i) \subseteq o.live
<1>1. head \in Nat
  BY Heads
<1>2. PICK n : n = head
  OBVIOUS
<1>3. PICK live : live = reachableHashes
  OBVIOUS
<1>4. PICK kept : kept = pinned(log)
  OBVIOUS
<1>5. /\ live \in SUBSET Version /\ kept \in SUBSET Nat /\ hashes(filesOf(head)) \subseteq live
      /\ \A i \in ids(log) : changeHashes(i) \subseteq live
  BY <1>3, <1>4, Reachable
<1>6. PICK o : o = [Idle EXCEPT !.phase = "list", !.base = n, !.live = live, !.evicted = kept]
  OBVIOUS
<1>7. /\ o \in Operation /\ OpOK(o, head) /\ o.phase = "list" /\ o.change = "none"
      /\ o.base = n /\ o.live = live
  <2>1. n \in Nat /\ Idle \in Operation /\ OpOK(Idle, n) /\ Idle.change = "none"
    BY <1>1, <1>2, IdleType DEF Idle
  <2>2. /\ o \in Operation /\ o.phase = "list" /\ o.base = n /\ o.change = "none"
        /\ o.copy = Idle.copy /\ o.live = live
    BY <1>5, <1>6, <2>1 DEF Operation, Phase
  <2> QED
    BY <1>2, <2>1, <2>2, PhasesOf DEF OpOK
<1>8. UNCHANGED <<published, blobs, log, pins>> /\ mayCollect(d) /\ go(d, o)
  BY <1>2, <1>3, <1>4, <1>6 DEF StartClean, store
<1>9. HTypes' /\ became(d, o)
  BY <1>7, <1>8, MovesOn DEF HTypes
<1> QED
  BY <1>2, <1>5, <1>7, <1>8, <1>9

LEMMA ListSettledIs ==
    ASSUME HTypes, NEW d \in Collector, ListSettled(d)
    PROVE  /\ HTypes' /\ UNCHANGED <<published, blobs, log>> /\ op[d].phase = "list"
           /\ \E o \in Operation :
                 /\ became(d, o) /\ o.phase = "confirm" /\ keepsRest(o, op[d])
                 /\ o.sweep \cap o.live = {}
<1>1. PICK p : p = op[d]
  OBVIOUS
<1>2. p \in Operation /\ OpOK(p, head) /\ p.phase = "list" /\ p.change = "none" /\ head \in Nat
  BY <1>1, Running, Heads DEF ListSettled
<1>3. PICK h : h = (blobs \ young) \ p.live
  OBVIOUS
<1>4. PICK g : g = (pins \ young) \ p.evicted
  OBVIOUS
<1>5. h \in SUBSET Version /\ g \in SUBSET Nat
  BY <1>3, <1>4 DEF HTypes
<1>6. PICK o : o = [p EXCEPT !.phase = "confirm", !.sweep = h, !.drop = g]
  OBVIOUS
<1>7. /\ o \in Operation /\ o.phase = "confirm" /\ o.copy = p.copy /\ o.sweep = h
      /\ keepsRest(o, p) /\ o.live = p.live
  BY <1>2, <1>5, <1>6 DEF Operation, Phase, keepsRest
<1>8. OpOK(o, head)
  <2>1. o.phase \in phases(p.change) /\ ids(o.copy) \subseteq 1..head
    BY <1>2, <1>7, PhasesOf DEF OpOK
  <2> QED
    BY <1>2, <1>7, <2>1, OpGoesOn
<1>9. UNCHANGED <<published, blobs, log, pins>> /\ go(d, o)
  BY <1>1, <1>3, <1>4, <1>6 DEF ListSettled, store
<1>10. HTypes' /\ became(d, o)
  BY <1>7, <1>8, <1>9, MovesOn DEF HTypes
<1>11. o.sweep \cap o.live = {}
  BY <1>3, <1>7
<1> QED
  BY <1>1, <1>2, <1>7, <1>9, <1>10, <1>11

LEMMA ConfirmIs ==
    ASSUME HTypes, NEW d \in Collector, Confirm(d)
    PROVE  /\ HTypes' /\ UNCHANGED <<published, blobs, log>> /\ mayDecide(d)
           /\ op[d].phase = "confirm"
           /\ \E o \in Operation :
                 /\ became(d, o)
                 /\ \/ o = Idle
                    \/ /\ o.phase = "clean" /\ keepsRest(o, op[d]) /\ o.sweep = op[d].sweep
                       /\ o.base = head
<1>1. PICK p : p = op[d]
  OBVIOUS
<1>2. p \in Operation /\ OpOK(p, head) /\ p.phase = "confirm" /\ p.change = "none" /\ head \in Nat
  BY <1>1, Running, Heads DEF Confirm
<1>3. PICK q : q = [p EXCEPT !.phase = "clean"]
  OBVIOUS
<1>4. /\ q \in Operation /\ q.phase = "clean" /\ q.copy = p.copy /\ q.sweep = p.sweep
      /\ keepsRest(q, p)
  <2>1. "clean" \in Phase
    BY DEF Phase
  <2> QED
    BY <1>2, <1>3, <2>1, OpMoved
<1>5. OpOK(q, head)
  <2>1. q.phase \in phases(p.change) /\ ids(q.copy) \subseteq 1..head
    BY <1>2, <1>4, PhasesOf DEF OpOK
  <2> QED
    BY <1>2, <1>4, <2>1, OpGoesOn
<1>6. UNCHANGED <<published, blobs, log, pins>> /\ mayDecide(d)
  BY DEF Confirm, store
<1>7. go(d, Idle) \/ (go(d, q) /\ head = p.base)
  BY <1>1, <1>3 DEF Confirm
<1>8. CASE go(d, Idle)
  <2>1. Idle \in Operation /\ OpOK(Idle, head)
    BY <1>2, IdleType
  <2>2. HTypes' /\ became(d, Idle)
    BY <1>6, <1>8, <2>1, MovesOn DEF HTypes
  <2> QED
    BY <1>1, <1>2, <1>6, <2>1, <2>2
<1>9. CASE go(d, q) /\ head = p.base
  <2>1. HTypes' /\ became(d, q)
    BY <1>4, <1>5, <1>6, <1>9, MovesOn DEF HTypes
  <2>2. q.base = head
    BY <1>4, <1>9 DEF keepsRest
  <2> QED
    BY <1>1, <1>2, <1>4, <1>6, <2>1, <2>2
<1> QED
  BY <1>7, <1>8, <1>9

(* An operation that neither pushes nor collects, and is not at the log.     *)
quietOp(o) ==
    o.change \in {"pin", "unpin", "none"} /\ o.phase \in {"idle", "read", "rebuild", "put"}

quiet(d) ==
    /\ HTypes' /\ UNCHANGED <<published, blobs, log>>
    /\ \E o \in Operation : became(d, o) /\ quietOp(o)

LEMMA IdleQuiet == quietOp(Idle)
BY DEF quietOp, Idle

LEMMA Quiet ==
    ASSUME HTypes, NEW d \in Collector, NEW o \in Operation, OpOK(o, head), quietOp(o), go(d, o),
           UNCHANGED <<published, blobs, log>>, pins' \subseteq Nat
    PROVE  quiet(d)
BY MovesOn DEF quiet

LEMMA BackToIdle ==
    ASSUME HTypes, NEW d \in Collector, go(d, Idle), UNCHANGED <<published, blobs, log>>,
           pins' \subseteq Nat
    PROVE  quiet(d)
<1>1. Idle \in Operation /\ OpOK(Idle, head) /\ quietOp(Idle)
  BY IdleType, IdleQuiet, Heads
<1> QED
  BY <1>1, Quiet

(* A pin and an unpin begin.                                                 *)
begun(c, id, x) == [Idle EXCEPT !.change = c, !.id = id, !.phase = x]

LEMMA Begun ==
    ASSUME NEW n \in Nat, NEW c \in {"pin", "unpin"}, NEW id \in Nat, NEW x \in {"read", "rebuild"},
           x = "rebuild" => c = "pin", NEW o, o = begun(c, id, x)
    PROVE  o \in Operation /\ OpOK(o, n) /\ quietOp(o)
<1>1. Idle \in Operation /\ OpOK(Idle, n)
  BY IdleType
<1>2. /\ o \in Operation /\ o.change = c /\ o.phase = x /\ o.copy = Idle.copy
      /\ o.base = Idle.base
  BY <1>1 DEF begun, Operation, Phase, Update, Changes
<1>3. x \in phases(c)
  BY PhasesOf DEF Update
<1> QED
  BY <1>1, <1>2, <1>3 DEF OpOK, quietOp

LEMMA QuietIs ==
    ASSUME HistoryAssumption, HTypes, NEW d \in Collector,
           \/ StartPin(d) \/ Rebuild(d) \/ PutPin(d) \/ StartUnpin(d) \/ DropPin(d)
           \/ HCrash(d) \/ FailUpdate(d)
    PROVE  quiet(d)
<1>1. head \in Nat /\ \A i \in ids(log) : i \in 1..head
  BY Heads
<1>2. ids(log) \subseteq Nat /\ pinned(log) \subseteq Nat
  <2>1. pinned(log) \subseteq ids(log)
    BY DEF pinned, ids
  <2> QED
    BY <1>1, <2>1
<1>3. PICK p : p = op[d]
  OBVIOUS
<1>4. p \in Operation /\ OpOK(p, head) /\ p.id \in Nat
  <2>1. p \in Operation /\ OpOK(p, head)
    BY <1>3, Running
  <2> QED
    BY <2>1 DEF Operation
<1>5. CASE StartPin(d)
  <2>1. PICK id \in ids(log) : go(d, begun("pin", id, IF id \in pins THEN "read" ELSE "rebuild"))
    BY <1>5 DEF StartPin, begun, ids
  <2>2. PICK x \in {"read", "rebuild"} : x = IF id \in pins THEN "read" ELSE "rebuild"
    OBVIOUS
  <2>3. PICK o : o = begun("pin", id, x)
    OBVIOUS
  <2>4. o \in Operation /\ OpOK(o, head) /\ quietOp(o)
    BY <1>1, <1>2, <2>3, Begun
  <2>5. go(d, o) /\ UNCHANGED <<published, blobs, log>> /\ pins' \subseteq Nat
    BY <1>5, <2>1, <2>2, <2>3 DEF StartPin, store, HTypes
  <2> QED
    BY <2>4, <2>5, Quiet
<1>6. CASE StartUnpin(d)
  <2>1. PICK id \in pinned(log) : go(d, begun("unpin", id, "read"))
    BY <1>6 DEF StartUnpin, begun
  <2>2. PICK o : o = begun("unpin", id, "read")
    OBVIOUS
  <2>3. o \in Operation /\ OpOK(o, head) /\ quietOp(o)
    BY <1>1, <1>2, <2>2, Begun
  <2>4. go(d, o) /\ UNCHANGED <<published, blobs, log>> /\ pins' \subseteq Nat
    BY <1>6, <2>1, <2>2 DEF StartUnpin, store, HTypes
  <2> QED
    BY <2>3, <2>4, Quiet
<1>7. CASE Rebuild(d)
  <2>1. UNCHANGED <<published, blobs, log>> /\ pins' \subseteq Nat /\ p.phase = "rebuild"
    BY <1>3, <1>7 DEF Rebuild, store, HTypes
  <2>2. p.change = "pin"
    BY <1>3, <2>1, Running
  <2>3. CASE reaches(log, p.id)
    <3>1. PICK f : f = replayTo(log, p.id)
      OBVIOUS
    <3>2. f \in Files
      <4>1. f = filesOf(p.id) /\ p.id \in 0..head
        BY <2>3, <3>1, Replayed DEF HTypes
      <4> QED
        BY <4>1, Heads
    <3>3. PICK o : o = [p EXCEPT !.phase = "put", !.files = f]
      OBVIOUS
    <3>4. /\ o \in Operation /\ o.phase = "put" /\ o.change = "pin" /\ o.copy = p.copy
          /\ o.base = p.base /\ o.id = p.id
      BY <1>4, <2>2, <3>2, <3>3 DEF Operation, Phase, Update
    <3>5. OpOK(o, head) /\ quietOp(o)
      BY <1>4, <2>2, <3>4, PhasesOf DEF OpOK, quietOp
    <3>6. go(d, o)
      BY <1>3, <1>7, <2>3, <3>1, <3>3 DEF Rebuild
    <3> QED
      BY <2>1, <3>4, <3>5, <3>6, Quiet
  <2>4. CASE ~reaches(log, p.id)
    <3>1. go(d, Idle)
      BY <1>3, <1>7, <2>4 DEF Rebuild
    <3> QED
      BY <2>1, <3>1, BackToIdle
  <2> QED
    BY <2>3, <2>4
<1>8. CASE PutPin(d)
  <2>1. p.phase = "put" /\ UNCHANGED <<published, blobs, log>> /\ pins' = pins \cup {p.id}
    BY <1>3, <1>8 DEF PutPin
  <2>2. p.change = "pin"
    BY <1>3, <2>1, Running
  <2>3. PICK o : o = [p EXCEPT !.phase = "read", !.wrote = TRUE]
    OBVIOUS
  <2>4. /\ o \in Operation /\ o.phase = "read" /\ o.change = "pin" /\ o.copy = p.copy
        /\ o.base = p.base /\ o.id = p.id
    BY <1>4, <2>2, <2>3 DEF Operation, Phase, Update
  <2>5. OpOK(o, head) /\ quietOp(o)
    BY <1>4, <2>2, <2>4, PhasesOf DEF OpOK, quietOp, Update
  <2>6. go(d, o) /\ pins' \subseteq Nat
    BY <1>3, <1>4, <1>8, <2>1, <2>3 DEF PutPin, HTypes
  <2> QED
    BY <2>1, <2>4, <2>5, <2>6, Quiet
<1>9. CASE DropPin(d)
  <2>1. go(d, Idle) /\ UNCHANGED <<published, blobs, log>> /\ pins' \subseteq Nat
    BY <1>9 DEF DropPin, HTypes
  <2> QED
    BY <2>1, BackToIdle
<1>10. CASE HCrash(d)
  <2>1. go(d, Idle) /\ UNCHANGED <<published, blobs, log>> /\ pins' \subseteq Nat
    BY <1>10 DEF HCrash, HTypes, store
  <2> QED
    BY <2>1, BackToIdle
<1>11. CASE FailUpdate(d)
  <2>1. go(d, Idle) /\ UNCHANGED <<published, blobs, log>> /\ pins' \subseteq Nat
    BY <1>11 DEF FailUpdate, HTypes
  <2> QED
    BY <2>1, BackToIdle
<1> QED
  BY <1>5, <1>6, <1>7, <1>8, <1>9, <1>10, <1>11

(* Aging changes no type.                                                    *)
LEMMA SettleIs ==
    ASSUME HTypes, Settle
    PROVE  HTypes' /\ UNCHANGED <<published, blobs, log, op>> /\ head' = head
<1>1. UNCHANGED <<published, blobs, log, op, pins>> /\ head' = head
  BY DEF Settle, head
<1> QED
  BY <1>1 DEF HTypes, OpsOK, OpOK, ids

LEMMA HTypesStep ==
    ASSUME HistoryAssumption, HTypes, [HNext]_hvars PROVE HTypes'
<1>1. CASE UNCHANGED hvars
  <2>1. UNCHANGED <<published, blobs, log, op, pins>> /\ head' = head
    BY <1>1 DEF hvars, store, head
  <2> QED
    BY <2>1 DEF HTypes, OpsOK, OpOK, ids
<1>2. CASE Settle
  BY <1>2, SettleIs
<1>3. ASSUME NEW d \in Collector,
             \/ Upload(d) \/ Publish(d) \/ ReadLog(d) \/ WriteLog(d) \/ ReadBack(d)
             \/ Retain(d) \/ LateHead(d) \/ PinnedAmong(d) \/ Sweep(d)
             \/ StartClean(d) \/ ListSettled(d) \/ Confirm(d)
      PROVE  HTypes'
  BY <1>3, UploadIs, PublishIs, ReadLogIs, WriteLogIs, ReadBackIs, RetainIs, LateHeadIs,
     PinnedAmongIs, SweepIs, StartCleanIs, ListSettledIs, ConfirmIs
<1>4. ASSUME NEW d \in Collector,
             \/ StartPin(d) \/ Rebuild(d) \/ PutPin(d) \/ StartUnpin(d) \/ DropPin(d)
             \/ HCrash(d) \/ FailUpdate(d)
      PROVE  HTypes'
  BY <1>4, QuietIs DEF quiet
<1> QED
  BY <1>1, <1>2, <1>3, <1>4 DEF HNext

HSpec == HInit /\ [][HNext]_hvars

(* Whatever order lost and repeated updates leave the log in, and however    *)
(* devices overlap, the walks attribute to a snapshot only what it held.     *)
THEOREM HistoryTrue == HistoryAssumption => (HSpec => []HistoryIsTrue)
<1> SUFFICES ASSUME HistoryAssumption PROVE HSpec => []HistoryIsTrue
  OBVIOUS
<1>1. HInit => HTypes
  BY HTypesInit
<1>2. HTypes /\ [HNext]_hvars => HTypes'
  BY HTypesStep
<1>3. HTypes => HistoryIsTrue
  BY TypesTrue
<1> QED
  BY <1>1, <1>2, <1>3, PTL DEF HSpec

-----------------------------------------------------------------------------
(* HeadIntact, while no push is between its uploads and its manifest when a  *)
(* collector elsewhere decides.                                              *)

(* What a running operation has promised the head: the uploads of a push     *)
(* that can still win are in the store; a collector keeps what its own       *)
(* snapshot holds, and sweeps only while that is the head; a deep clean      *)
(* keeps what the head it read holds, and sweeps only under that head.       *)
HeadOK(o) ==
    /\ o.phase = "publish" /\ o.base = head => hashes(o.files) \subseteq blobs
    /\ o.change = "prune" => hashes(filesOf(o.id)) \subseteq o.live
    /\ o.phase \in {"check", "sweep"} => o.sweep = {} \/ head = o.id
    /\ o.phase \in {"sweep", "clean"} => o.sweep \cap hashes(filesOf(head)) = {}
    /\ o.phase \in {"list", "confirm"} => hashes(filesOf(o.base)) \subseteq o.live
    /\ o.phase \in {"confirm", "clean"} => o.sweep \cap o.live = {}

uploads(o) == o.phase = "publish"
decides(o) == o.phase \in {"check", "sweep", "clean"}

HeadInv ==
    /\ HeadIntact
    /\ \A d \in Collector : HeadOK(op[d])
    /\ \A d \in Collector, x \in Collector : d # x => ~(uploads(op[d]) /\ decides(op[x]))

(* An operation's promise is kept while nothing is published or deleted.     *)
LEMMA HeadOKKept ==
    ASSUME UNCHANGED published, blobs \subseteq blobs', NEW o, HeadOK(o)
    PROVE  HeadOK(o)'
<1>1. head' = head /\ \A i : filesOf(i)' = filesOf(i)
  BY DEF head, filesOf
<1>2. hashes(filesOf(o.id))' = hashes(filesOf(o.id)) /\ hashes(filesOf(o.base))' = hashes(filesOf(o.base))
  BY <1>1 DEF hashes
<1>3. hashes(filesOf(head))' = hashes(filesOf(head))
  BY <1>1 DEF hashes, filesOf
<1> QED
  BY <1>1, <1>2, <1>3 DEF HeadOK, hashes

(* One device's operation changes, and keeps its promises.                   *)
LEMMA HeadInvStep ==
    ASSUME HTypes, HeadInv, UNCHANGED published, blobs \subseteq blobs', NEW d \in Collector,
           NEW o, became(d, o), HeadOK(o)',
           uploads(o) => \A x \in Collector \ {d} : ~decides(op[x]),
           decides(o) => \A x \in Collector \ {d} : ~uploads(op[x])
    PROVE  HeadInv'
<1>1. op'[d] = o /\ \A x \in Collector \ {d} : op'[x] = op[x]
  BY DEF HTypes, OpsOK, became
<1>2. HeadIntact'
  <2>1. hashes(filesOf(head))' = hashes(filesOf(head))
    BY DEF head, filesOf, hashes
  <2> QED
    BY <2>1 DEF HeadInv, HeadIntact
<1>3. ASSUME NEW x \in Collector PROVE HeadOK(op[x])'
  <2>1. CASE x = d
    <3>1. PICK q : q = op'[x]
      OBVIOUS
    <3>2. HeadOK(q)'
      BY <1>1, <2>1, <3>1
    <3> QED
      BY <3>1, <3>2 DEF HeadOK
  <2>2. CASE x # d
    <3>1. PICK q : q = op[x]
      OBVIOUS
    <3>2. HeadOK(q)
      BY <3>1 DEF HeadInv
    <3>3. HeadOK(q)' /\ op'[x] = q
      BY <1>1, <2>2, <3>1, <3>2, HeadOKKept
    <3> QED
      BY <3>3 DEF HeadOK
  <2> QED
    BY <2>1, <2>2
<1>4. ASSUME NEW x \in Collector, NEW y \in Collector, x # y
      PROVE  ~(uploads(op[x]) /\ decides(op[y]))'
  <2>1. ~(uploads(op[x]) /\ decides(op[y]))
    BY <1>4 DEF HeadInv
  <2>2. CASE x = d
    BY <1>1, <1>4, <2>2 DEF uploads, decides
  <2>3. CASE y = d
    BY <1>1, <1>4, <2>3 DEF uploads, decides
  <2>4. CASE x # d /\ y # d
    BY <1>1, <2>1, <2>4 DEF uploads, decides
  <2> QED
    BY <2>2, <2>3, <2>4
<1> QED
  BY <1>2, <1>3, <1>4 DEF HeadInv

LEMMA HeadInvInit == ASSUME HInit PROVE HeadInv
<1>1. filesOf(head) = NoFiles /\ hashes(NoFiles) = {}
  BY DEF HInit, filesOf, head, hashes, NoFiles
<1>2. HeadOK(Idle) /\ ~uploads(Idle) /\ ~decides(Idle)
  BY DEF HeadOK, Idle, uploads, decides
<1>3. \A d \in Collector : op[d] = Idle
  BY DEF HInit
<1> QED
  BY <1>1, <1>2, <1>3 DEF HeadInv, HeadIntact

(* An operation that neither pushes, sweeps nor cleans keeps its promises.   *)
elsewhere == {"publish", "check", "sweep", "clean", "list", "confirm"}

LEMMA HeadOKMoved ==
    ASSUME NEW p, HeadOK(p), NEW o, keepsRest(o, p), o.phase \notin elsewhere
    PROVE  HeadOK(o) /\ ~uploads(o) /\ ~decides(o)
BY DEF HeadOK, keepsRest, elsewhere, uploads, decides

LEMMA HeadOKQuiet ==
    ASSUME NEW o, quietOp(o) PROVE HeadOK(o) /\ ~uploads(o) /\ ~decides(o)
BY DEF HeadOK, quietOp, uploads, decides

(* While nothing is published or deleted.                                    *)
LEMMA HeadMoves ==
    ASSUME HTypes, HeadInv, "upload" \notin Races, NEW d \in Collector,
           \/ ReadLog(d) \/ WriteLog(d) \/ ReadBack(d) \/ Retain(d) \/ LateHead(d)
           \/ PinnedAmong(d) \/ StartClean(d) \/ ListSettled(d) \/ Confirm(d),
           HistoryAssumption
    PROVE  HeadInv'
<1>1. PICK p : p = op[d]
  OBVIOUS
<1>2. HeadOK(p) /\ \A x \in Collector \ {d} : ~(uploads(op[x]) /\ decides(p))
  BY <1>1 DEF HeadInv
<1>3. mayDecide(d) => \A x \in Collector \ {d} : ~uploads(op[x])
  BY DEF mayDecide, uploading, uploads
<1>4. ASSUME NEW o, became(d, o), UNCHANGED <<published, blobs>>, HeadOK(o), ~uploads(o),
             decides(o) => mayDecide(d) \/ decides(p)
      PROVE  HeadInv'
  <2>1. HeadOK(o)'
    BY <1>4, HeadOKKept
  <2>2. decides(o) => \A x \in Collector \ {d} : ~uploads(op[x])
    BY <1>2, <1>3, <1>4
  <2> QED
    BY <1>4, <2>1, <2>2, HeadInvStep
<1>5. CASE ReadLog(d)
  <2>1. UNCHANGED store
    BY <1>5, ReadLogIs
  <2>2. PICK o : became(d, o) /\ o.phase = "write" /\ keepsRest(o, p)
    BY <1>1, <1>5, ReadLogIs
  <2>3. HeadOK(o) /\ ~uploads(o) /\ ~decides(o)
    BY <1>2, <2>2, HeadOKMoved DEF elsewhere
  <2> QED
    BY <1>4, <2>1, <2>2, <2>3 DEF store
<1>6. CASE WriteLog(d)
  <2>1. UNCHANGED <<published, blobs>>
    BY <1>6, WriteLogIs
  <2>2. PICK o : became(d, o) /\ o.phase \in {"verify", "reread"} /\ keepsRest(o, p)
    BY <1>1, <1>6, WriteLogIs
  <2>3. HeadOK(o) /\ ~uploads(o) /\ ~decides(o)
    BY <1>2, <2>2, HeadOKMoved DEF elsewhere
  <2> QED
    BY <1>4, <2>1, <2>2, <2>3
<1>7. CASE ReadBack(d)
  <2>1. UNCHANGED <<published, blobs>>
    BY <1>7, ReadBackIs
  <2>2. PICK o : became(d, o) /\ (o = Idle \/ (o.phase \in goesOn /\ keepsRest(o, p)))
    BY <1>1, <1>7, ReadBackIs
  <2>3. HeadOK(o) /\ ~uploads(o) /\ ~decides(o)
    <3>1. CASE o = Idle
      BY <3>1, IdleQuiet, HeadOKQuiet
    <3>2. CASE o.phase \in goesOn /\ keepsRest(o, p)
      BY <1>2, <3>2, HeadOKMoved DEF elsewhere, goesOn
    <3> QED
      BY <2>2, <3>1, <3>2
  <2> QED
    BY <1>4, <2>1, <2>2, <2>3
<1>8. CASE Retain(d)
  <2>1. UNCHANGED <<published, blobs>>
    BY <1>8, RetainIs
  <2>2. PICK o : /\ became(d, o) /\ o.phase = "read" /\ o.change = "prune"
                 /\ hashes(filesOf(o.id)) \subseteq o.live
    BY <1>8, RetainIs
  <2>3. HeadOK(o) /\ ~uploads(o) /\ ~decides(o)
    BY <2>2 DEF HeadOK, uploads, decides
  <2> QED
    BY <1>4, <2>1, <2>2, <2>3
<1>9. CASE LateHead(d)
  <2>1. UNCHANGED <<published, blobs>> /\ mayDecide(d)
    BY <1>9, LateHeadIs
  <2>2. PICK o : /\ became(d, o) /\ o.phase = "check" /\ keepsRest(o, p)
                 /\ (o.sweep # {} => head = p.id)
    BY <1>1, <1>9, LateHeadIs
  <2>3. HeadOK(o) /\ ~uploads(o)
    BY <1>2, <2>2 DEF HeadOK, uploads, keepsRest
  <2> QED
    BY <1>4, <2>1, <2>2, <2>3
<1>10. CASE PinnedAmong(d)
  <2>1. UNCHANGED <<published, blobs>> /\ p.phase = "check"
    BY <1>1, <1>10, PinnedAmongIs
  <2>2. PICK o : /\ became(d, o)
                 /\ \/ o = Idle
                    \/ /\ o.phase = "sweep" /\ keepsRest(o, p) /\ o.sweep = p.sweep \ p.live
    BY <1>1, <1>10, PinnedAmongIs
  <2>3. HeadOK(o) /\ ~uploads(o) /\ (decides(o) => decides(p))
    <3>1. CASE o = Idle
      BY <3>1, IdleQuiet, HeadOKQuiet
    <3>2. CASE o.phase = "sweep" /\ keepsRest(o, p) /\ o.sweep = p.sweep \ p.live
      <4>1. p.change = "prune"
        BY <1>1, <2>1, Running
      <4>2. hashes(filesOf(p.id)) \subseteq p.live /\ (p.sweep = {} \/ head = p.id)
        BY <1>2, <2>1, <4>1 DEF HeadOK
      <4>3. o.id = p.id /\ o.live = p.live /\ o.change = p.change
        BY <3>2 DEF keepsRest
      <4>4. o.sweep = {} \/ head = o.id
        BY <3>2, <4>2, <4>3
      <4>5. o.sweep \cap hashes(filesOf(head)) = {}
        BY <3>2, <4>2
      <4> QED
        BY <2>1, <3>2, <4>2, <4>3, <4>4, <4>5 DEF HeadOK, uploads, decides
    <3> QED
      BY <2>2, <3>1, <3>2
  <2> QED
    BY <1>4, <2>1, <2>2, <2>3
<1>11. CASE StartClean(d)
  <2>1. UNCHANGED <<published, blobs>>
    BY <1>11, StartCleanIs
  <2>2. PICK o : /\ became(d, o) /\ o.phase = "list" /\ o.change = "none" /\ o.base = head
                 /\ hashes(filesOf(head)) \subseteq o.live
    BY <1>11, StartCleanIs
  <2>3. HeadOK(o) /\ ~uploads(o) /\ ~decides(o)
    BY <2>2 DEF HeadOK, uploads, decides
  <2> QED
    BY <1>4, <2>1, <2>2, <2>3
<1>12. CASE ListSettled(d)
  <2>1. UNCHANGED <<published, blobs>> /\ p.phase = "list"
    BY <1>1, <1>12, ListSettledIs
  <2>2. PICK o : became(d, o) /\ o.phase = "confirm" /\ keepsRest(o, p) /\ o.sweep \cap o.live = {}
    BY <1>1, <1>12, ListSettledIs
  <2>3. HeadOK(o) /\ ~uploads(o) /\ ~decides(o)
    BY <1>2, <2>1, <2>2 DEF HeadOK, uploads, decides, keepsRest
  <2> QED
    BY <1>4, <2>1, <2>2, <2>3
<1>13. CASE Confirm(d)
  <2>1. UNCHANGED <<published, blobs>> /\ mayDecide(d) /\ p.phase = "confirm"
    BY <1>1, <1>13, ConfirmIs
  <2>2. PICK o : /\ became(d, o)
                 /\ \/ o = Idle
                    \/ o.phase = "clean" /\ keepsRest(o, p) /\ o.sweep = p.sweep /\ o.base = head
    BY <1>1, <1>13, ConfirmIs
  <2>3. HeadOK(o) /\ ~uploads(o)
    <3>1. CASE o = Idle
      BY <3>1, IdleQuiet, HeadOKQuiet
    <3>2. CASE o.phase = "clean" /\ keepsRest(o, p) /\ o.sweep = p.sweep /\ o.base = head
      <4>1. hashes(filesOf(p.base)) \subseteq p.live /\ p.sweep \cap p.live = {} /\ p.base = head
        BY <1>2, <2>1, <3>2 DEF HeadOK, keepsRest
      <4>2. o.sweep \cap hashes(filesOf(head)) = {} /\ o.sweep \cap o.live = {}
        BY <3>2, <4>1 DEF keepsRest
      <4> QED
        BY <1>2, <3>2, <4>2 DEF HeadOK, uploads, keepsRest
    <3> QED
      BY <2>2, <3>1, <3>2
  <2> QED
    BY <1>4, <2>1, <2>2, <2>3
<1> QED
  BY <1>5, <1>6, <1>7, <1>8, <1>9, <1>10, <1>11, <1>12, <1>13

(* A push uploads what the head does not name already.                       *)
LEMMA HeadUploads ==
    ASSUME HistoryAssumption, HTypes, HeadInv, "upload" \notin Races, NEW d \in Collector, Upload(d)
    PROVE  HeadInv'
<1>1. UNCHANGED published /\ head' = head
  BY UploadIs
<1>2. PICK o : /\ became(d, o) /\ o.phase = "publish" /\ o.change = "none" /\ o.base = head
               /\ blobs' = blobs \cup (hashes(o.files) \ hashes(filesOf(head)))
  BY UploadIs
<1>3. hashes(o.files) \subseteq blobs'
  BY <1>2 DEF HeadInv, HeadIntact
<1>4. HeadOK(o)'
  <2>1. hashes(o.files)' = hashes(o.files)
    BY DEF hashes
  <2> QED
    BY <1>2, <1>3, <2>1 DEF HeadOK
<1>5. /\ ~decides(o)
      /\ \A x \in Collector \ {d} : ~decides(op[x])
  BY <1>2 DEF Upload, mayUpload, deciding, decides
<1> QED
  BY <1>1, <1>2, <1>4, <1>5, HeadInvStep

(* A published manifest was uploaded, and nobody is sweeping meanwhile.      *)
LEMMA HeadPublishes ==
    ASSUME HistoryAssumption, HTypes, HeadInv, NEW d \in Collector, Publish(d)
    PROVE  HeadInv'
<1>1. /\ UNCHANGED blobs /\ op[d].phase = "publish" /\ head \in Nat
      /\ HeadOK(op[d]) /\ \A x \in Collector \ {d} : ~decides(op[x])
  BY PublishIs, Heads DEF Publish, HeadInv, uploads
<1>2. PICK o : became(d, o) /\ (o = Idle \/ (o.phase = "read" /\ o.change = "record"))
  BY PublishIs
<1>3. HeadOK(o)' /\ ~uploads(o) /\ ~decides(o)
  BY <1>2 DEF HeadOK, uploads, decides, Idle
<1>4. CASE ~wins(d)
  <2>1. UNCHANGED published
    BY <1>4, PublishIs
  <2> QED
    BY <1>1, <1>2, <1>3, <2>1, HeadInvStep
<1>5. CASE wins(d)
  <2>1. PICK n : n = head + 1
    OBVIOUS
  <2>2. /\ head' = n /\ n \in Nat /\ filesOf(n)' = op[d].files
        /\ \A i \in 0..head : filesOf(i)' = filesOf(i)
    BY <1>1, <1>5, <2>1, PublishIs
  <2>3. HeadIntact'
    <3>1. hashes(op[d].files) \subseteq blobs
      BY <1>1, <1>5 DEF HeadOK, wins
    <3>2. hashes(filesOf(head))' = hashes(op[d].files)
      BY <2>2 DEF hashes
    <3> QED
      BY <1>1, <3>1, <3>2 DEF HeadIntact
  <2>4. op'[d] = o /\ \A x \in Collector \ {d} : op'[x] = op[x]
    BY <1>2 DEF HTypes, OpsOK, became
  <2>5. ASSUME NEW x \in Collector, x # d PROVE HeadOK(op[x])' /\ ~decides(op[x])'
    <3>1. PICK q : q = op[x]
      OBVIOUS
    <3>2. q \in Operation /\ OpOK(q, head) /\ HeadOK(q) /\ ~decides(q)
      BY <1>1, <2>5, <3>1, Running DEF HeadInv
    <3>3. /\ q.base \in Nat /\ q.base <= head
          /\ q.change = "prune" => q.id \in 0..head
      BY <1>1, <3>2 DEF OpOK, Operation
    <3>4. q.change = "prune" => hashes(filesOf(q.id))' = hashes(filesOf(q.id))
      BY <2>2, <3>3 DEF hashes
    <3>5. hashes(filesOf(q.base))' = hashes(filesOf(q.base))
      <4>1. q.base \in 0..head
        BY <1>1, <3>3
      <4> QED
        BY <2>2, <4>1 DEF hashes
    <3>6. q.base # head'
      BY <1>1, <2>1, <2>2, <3>3
    <3>7. HeadOK(q)'
      BY <3>2, <3>4, <3>5, <3>6 DEF HeadOK, decides
    <3> QED
      BY <2>4, <2>5, <3>1, <3>2, <3>7 DEF HeadOK, decides
  <2>6. HeadOK(op[d])' /\ ~uploads(op[d])' /\ ~decides(op[d])'
    <3>1. PICK q : q = op'[d]
      OBVIOUS
    <3>2. HeadOK(q)' /\ ~uploads(q) /\ ~decides(q)
      BY <1>3, <2>4, <3>1
    <3> QED
      BY <3>1, <3>2 DEF HeadOK, uploads, decides
  <2>7. \A x \in Collector : HeadOK(op[x])' /\ ~decides(op[x])'
    BY <2>5, <2>6
  <2> QED
    BY <2>3, <2>7 DEF HeadInv
<1> QED
  BY <1>4, <1>5

(* What is swept is nothing the head needs.                                  *)
LEMMA HeadSweeps ==
    ASSUME HistoryAssumption, HTypes, HeadInv, NEW d \in Collector, Sweep(d)
    PROVE  HeadInv'
<1>1. PICK p : p = op[d]
  OBVIOUS
<1>2. /\ UNCHANGED published /\ p.phase \in {"sweep", "clean"}
      /\ blobs' \subseteq blobs /\ blobs \ p.sweep \subseteq blobs'
  BY <1>1, SweepIs
<1>3. PICK o : /\ became(d, o)
               /\ \/ o = Idle
                  \/ o.phase = p.phase /\ keepsRest(o, p) /\ o.sweep \subseteq p.sweep
  BY <1>1, SweepIs
<1>4. HeadOK(p) /\ \A x \in Collector \ {d} : HeadOK(op[x]) /\ ~uploads(op[x])
  BY <1>1, <1>2 DEF HeadInv, decides
<1>5. /\ op'[d] = o /\ \A x \in Collector \ {d} : op'[x] = op[x]
      /\ head' = head /\ \A i : filesOf(i)' = filesOf(i)
  BY <1>2, <1>3 DEF HTypes, OpsOK, became, head, filesOf
<1>6. hashes(filesOf(head))' = hashes(filesOf(head))
  BY <1>5 DEF hashes, filesOf
<1>7. HeadIntact'
  <2>1. p.sweep \cap hashes(filesOf(head)) = {}
    BY <1>2, <1>4 DEF HeadOK
  <2> QED
    BY <1>2, <1>6, <2>1 DEF HeadInv, HeadIntact
<1>8. ASSUME NEW q, HeadOK(q), ~uploads(q) PROVE HeadOK(q)'
  <2>1. hashes(filesOf(q.id))' = hashes(filesOf(q.id)) /\ hashes(filesOf(q.base))' = hashes(filesOf(q.base))
    BY <1>5 DEF hashes
  <2> QED
    BY <1>5, <1>6, <1>8, <2>1 DEF HeadOK, uploads
<1>9. HeadOK(o) /\ ~uploads(o)
  <2>1. CASE o = Idle
    BY <2>1, IdleQuiet, HeadOKQuiet
  <2>2. CASE o.phase = p.phase /\ keepsRest(o, p) /\ o.sweep \subseteq p.sweep
    BY <1>2, <1>4, <2>2 DEF HeadOK, keepsRest, uploads
  <2> QED
    BY <1>3, <2>1, <2>2
<1>10. ASSUME NEW x \in Collector PROVE HeadOK(op[x])' /\ ~uploads(op[x])'
  <2>1. PICK q : q = op'[x]
    OBVIOUS
  <2>2. HeadOK(q) /\ ~uploads(q)
    BY <1>4, <1>5, <1>9, <2>1
  <2>3. HeadOK(q)'
    BY <1>8, <2>2
  <2> QED
    BY <2>1, <2>2, <2>3 DEF HeadOK, uploads
<1> QED
  BY <1>7, <1>10 DEF HeadInv

LEMMA HeadInvNext ==
    ASSUME HistoryAssumption, "upload" \notin Races, HTypes, HeadInv, [HNext]_hvars
    PROVE  HeadInv'
<1>1. ASSUME UNCHANGED <<published, blobs, op>> PROVE HeadInv'
  <2>1. filesOf(head)' = filesOf(head) /\ head' = head /\ \A i : filesOf(i)' = filesOf(i)
    BY <1>1 DEF filesOf, head
  <2>2. \A i : hashes(filesOf(i))' = hashes(filesOf(i))
    BY <2>1 DEF hashes
  <2>3. hashes(filesOf(head))' = hashes(filesOf(head))
    BY <2>1 DEF hashes
  <2>4. ASSUME NEW x \in Collector PROVE HeadOK(op[x])'
    <3>1. PICK q : q = op[x]
      OBVIOUS
    <3>2. HeadOK(q)
      BY <3>1 DEF HeadInv
    <3>3. HeadOK(q)' /\ op'[x] = q
      BY <1>1, <3>1, <3>2, HeadOKKept
    <3> QED
      BY <3>3 DEF HeadOK
  <2> QED
    BY <1>1, <2>3, <2>4 DEF HeadInv, HeadIntact, uploads, decides
<1>2. CASE UNCHANGED hvars
  BY <1>1, <1>2 DEF hvars, store
<1>3. CASE Settle
  BY <1>1, <1>3 DEF Settle
<1>4. ASSUME NEW d \in Collector, quiet(d) PROVE HeadInv'
  <2>1. PICK o : became(d, o) /\ quietOp(o)
    BY <1>4 DEF quiet
  <2>2. UNCHANGED published /\ blobs \subseteq blobs'
    BY <1>4 DEF quiet
  <2>3. HeadOK(o) /\ ~uploads(o) /\ ~decides(o)
    BY <2>1, HeadOKQuiet
  <2>4. HeadOK(o)'
    BY <2>2, <2>3, HeadOKKept
  <2> QED
    BY <2>1, <2>2, <2>3, <2>4, HeadInvStep
<1>5. ASSUME NEW d \in Collector,
             \/ StartPin(d) \/ Rebuild(d) \/ PutPin(d) \/ StartUnpin(d) \/ DropPin(d)
             \/ HCrash(d) \/ FailUpdate(d)
      PROVE  HeadInv'
  BY <1>4, <1>5, QuietIs
<1>6. ASSUME NEW d \in Collector,
             \/ Upload(d) \/ Publish(d) \/ ReadLog(d) \/ WriteLog(d) \/ ReadBack(d)
             \/ Retain(d) \/ LateHead(d) \/ PinnedAmong(d) \/ Sweep(d)
             \/ StartClean(d) \/ ListSettled(d) \/ Confirm(d)
      PROVE  HeadInv'
  BY <1>6, HeadUploads, HeadPublishes, HeadSweeps, HeadMoves
<1> QED
  BY <1>2, <1>3, <1>5, <1>6 DEF HNext

(* Every file of the head can be downloaded, whatever is collected and       *)
(* cleaned, when no other device is between its uploads and its manifest as  *)
(* a collector decides: however the rewrites of the log race.                *)
THEOREM HeadHolds ==
    HistoryAssumption /\ "upload" \notin Races => (HSpec => []HeadIntact)
<1> SUFFICES ASSUME HistoryAssumption, "upload" \notin Races PROVE HSpec => []HeadIntact
  OBVIOUS
<1>1. HInit => HTypes /\ HeadInv
  BY HTypesInit, HeadInvInit
<1>2. HTypes /\ HeadInv /\ [HNext]_hvars => HTypes' /\ HeadInv'
  BY HTypesStep, HeadInvNext
<1>3. HeadInv => HeadIntact
  BY DEF HeadInv
<1> QED
  BY <1>1, <1>2, <1>3, PTL DEF HSpec

-----------------------------------------------------------------------------
(* ChainIntact, while besides no two devices rewrite the log at once, and    *)
(* none collects before another's record of its push is in.                  *)

(* What each snapshot of the log changed is in the store.                    *)
LogIntact == \A i \in ids(log) : changeHashes(i) \subseteq blobs

rewrites(o) == o.phase \in {"write", "verify", "rewrite", "reread"}
cleaning(o) == o.phase \in {"list", "confirm", "clean"}

(* What a running operation has promised the log: a record brings a snapshot *)
(* whose blobs are in the store; a rewrite starts from the log as it is; a   *)
(* collector has read every snapshot of the log, keeps what the retained     *)
(* ones name, and by the time it sweeps the evicted are gone or hold the     *)
(* sweep back; a deep clean keeps what the log names under the head it read. *)
ChainOK(o) ==
    /\ o.change = "record" => changeHashes(o.id) \subseteq blobs
    /\ o.phase \in {"write", "rewrite"} => o.copy = log
    /\ o.phase = "retain" => ids(log) \subseteq ids(o.copy)
    /\ o.change = "prune" => \A i \in ids(log) : i \in o.evicted \/ changeHashes(i) \subseteq o.live
    /\ o.change = "prune" /\ o.phase \in {"verify", "reread"} =>
          \A e \in ToSet(log) : e.id \in o.evicted => e.pinned
    /\ o.phase \in {"late", "check"} => ids(log) \cap o.evicted \subseteq pinned(o.copy)
    /\ o.phase = "sweep" => \A i \in ids(log) : o.sweep \cap changeHashes(i) = {}
    /\ cleaning(o) /\ o.base = head => \A i \in ids(log) : changeHashes(i) \subseteq o.live
    /\ o.phase = "clean" => o.base = head

(* What the operations of two devices cannot be at the same time.            *)
Apart(o, p) ==
    /\ ~(rewrites(o) /\ rewrites(p))
    /\ o.phase = "retain" \/ o.change = "prune" => ~(p.change = "record" /\ rewrites(p))
    /\ o.change = "prune" /\ p.change = "record" => o.id < p.id
    /\ cleaning(o) /\ o.base = head => p.change # "record"

ChainInv ==
    /\ LogIntact
    /\ \A d \in Collector : ChainOK(op[d])
    /\ \A d \in Collector, x \in Collector : d # x => Apart(op[d], op[x])

(* While nothing is published, deleted or rewritten.                         *)
LEMMA ChainOKKept ==
    ASSUME UNCHANGED <<published, log>>, blobs \subseteq blobs', NEW o, ChainOK(o)
    PROVE  ChainOK(o)'
<1>1. head' = head /\ ids(log)' = ids(log) /\ ToSet(log)' = ToSet(log)
      /\ ids(o.copy)' = ids(o.copy) /\ pinned(o.copy)' = pinned(o.copy)
  BY DEF head, ids, pinned
<1>2. \A i : changeHashes(i)' = changeHashes(i)
  BY DEF changeHashes, changes, filesOf
<1>3. changeHashes(o.id)' = changeHashes(o.id)
  BY <1>2
<1> QED
  BY <1>1, <1>2, <1>3 DEF ChainOK, cleaning

LEMMA LogIntactKept ==
    ASSUME UNCHANGED <<published, log>>, blobs \subseteq blobs', LogIntact PROVE LogIntact'
<1>1. ids(log)' = ids(log)
  BY DEF ids
<1>2. \A i : changeHashes(i)' = changeHashes(i)
  BY DEF changeHashes, changes, filesOf
<1> QED
  BY <1>1, <1>2 DEF LogIntact

(* One device's operation changes: the parts put together.                   *)
LEMMA ChainInvFrom ==
    ASSUME HTypes, NEW d \in Collector, NEW o, became(d, o), LogIntact', ChainOK(o)',
           \A x \in Collector \ {d} : \A q : q = op[x] =>
               ChainOK(q)' /\ Apart(o, q)' /\ Apart(q, o)',
           \A x \in Collector \ {d}, y \in Collector \ {d} : \A q, r :
               q = op[x] /\ r = op[y] /\ x # y => Apart(q, r)'
    PROVE  ChainInv'
<1>1. op'[d] = o /\ \A x \in Collector \ {d} : op'[x] = op[x]
  BY DEF HTypes, OpsOK, became
<1>2. ASSUME NEW x \in Collector PROVE ChainOK(op[x])'
  <2>1. PICK q : q = op'[x]
    OBVIOUS
  <2>2. ChainOK(q)'
    BY <1>1, <2>1
  <2> QED
    BY <2>1, <2>2 DEF ChainOK, cleaning
<1>3. ASSUME NEW x \in Collector, NEW y \in Collector, x # y PROVE Apart(op[x], op[y])'
  <2>1. PICK q : q = op'[x]
    OBVIOUS
  <2>2. PICK r : r = op'[y]
    OBVIOUS
  <2>3. Apart(q, r)'
    BY <1>1, <1>3, <2>1, <2>2
  <2> QED
    BY <2>1, <2>2, <2>3 DEF Apart, rewrites, cleaning
<1> QED
  BY <1>2, <1>3 DEF ChainInv

LEMMA ApartKept ==
    ASSUME head' = head, NEW o, NEW p, Apart(o, p) PROVE Apart(o, p)'
BY DEF Apart, rewrites, cleaning

(* One device's operation changes, and nothing else.                         *)
LEMMA ChainInvStep ==
    ASSUME HTypes, ChainInv, UNCHANGED <<published, log>>, blobs \subseteq blobs',
           NEW d \in Collector, NEW o, became(d, o), ChainOK(o)',
           \A x \in Collector \ {d} : Apart(o, op[x]) /\ Apart(op[x], o)
    PROVE  ChainInv'
<1>1. head' = head
  BY DEF head
<1>2. LogIntact'
  BY LogIntactKept DEF ChainInv
<1>3. ASSUME NEW x \in Collector \ {d}, NEW q, q = op[x]
      PROVE  ChainOK(q)' /\ Apart(o, q)' /\ Apart(q, o)'
  <2>1. ChainOK(q) /\ Apart(o, q) /\ Apart(q, o)
    BY <1>3 DEF ChainInv
  <2> QED
    BY <1>1, <2>1, ChainOKKept, ApartKept
<1>4. ASSUME NEW x \in Collector \ {d}, NEW y \in Collector \ {d}, NEW q, NEW r,
             q = op[x], r = op[y], x # y
      PROVE  Apart(q, r)'
  <2>1. Apart(q, r)
    BY <1>4 DEF ChainInv
  <2> QED
    BY <1>1, <2>1, ApartKept
<1> QED
  BY <1>2, <1>3, <1>4, ChainInvFrom

LEMMA ChainInvInit == ASSUME HInit PROVE ChainInv
<1>1. log = <<>> /\ ids(log) = {} /\ ToSet(log) = {}
  BY DEF HInit, ids, ToSet
<1>2. ChainOK(Idle) /\ Apart(Idle, Idle)
  BY <1>1 DEF ChainOK, Apart, Idle, rewrites, cleaning
<1>3. \A d \in Collector : op[d] = Idle
  BY DEF HInit
<1> QED
  BY <1>1, <1>2, <1>3 DEF ChainInv, LogIntact

(* An operation that goes on as it was is apart from what it was apart from. *)
LEMMA ApartMoved ==
    ASSUME NEW p, NEW q, Apart(p, q), Apart(q, p), NEW o, keepsRest(o, p),
           rewrites(o) \/ o.phase = "retain" => rewrites(p),
           cleaning(o) => cleaning(p)
    PROVE  Apart(o, q) /\ Apart(q, o)
BY DEF Apart, keepsRest

(* One that neither records, rewrites, collects nor cleans is from any.      *)
aloof(o) ==
    /\ o.change \notin {"record", "prune"}
    /\ o.phase \in {"idle", "read", "rebuild", "put", "publish"}

LEMMA ApartAloof ==
    ASSUME NEW o, NEW q, aloof(o) PROVE Apart(o, q) /\ Apart(q, o) /\ ChainOK(o)
BY DEF Apart, aloof, rewrites, cleaning, ChainOK

LEMMA IdleAloof == aloof(Idle) /\ \A o : quietOp(o) => aloof(o)
BY DEF aloof, Idle, quietOp

LEMMA ChangeOf ==
    ASSUME NEW o \in Operation, NEW n, OpOK(o, n)
    PROVE  /\ o.phase = "retain" => o.change = "record"
           /\ o.phase \in {"late", "check", "sweep"} => o.change = "prune"
           /\ cleaning(o) => o.change = "none"
<1>1. o.change \in Changes \cup {"none"} /\ o.phase \in phases(o.change)
  BY DEF Operation, OpOK
<1> QED
  BY <1>1, PhasesOf DEF Changes, Update, cleaning

(* While nothing is published, deleted or rewritten.                         *)
LEMMA ChainMoves ==
    ASSUME HistoryAssumption, HTypes, HeadInv, ChainInv, "log" \notin Races, NEW d \in Collector,
           \/ ReadLog(d) \/ ReadBack(d) \/ Retain(d) \/ LateHead(d) \/ PinnedAmong(d)
           \/ StartClean(d) \/ ListSettled(d) \/ Confirm(d)
    PROVE  ChainInv'
<1>1. PICK p : p = op[d]
  OBVIOUS
<1>2. /\ ChainOK(p) /\ p \in Operation /\ OpOK(p, head)
      /\ \A x \in Collector \ {d} : Apart(p, op[x]) /\ Apart(op[x], p)
  BY <1>1, Running DEF ChainInv
<1>3. mayCollect(d) => \A x \in Collector \ {d} : op[x].change # "record"
  BY DEF mayCollect, recording
<1>4. mayRewrite(d) =>
        \A x \in Collector \ {d} :
            /\ ~rewrites(op[x])
            /\ p.change = "record" => op[x].change # "prune" /\ op[x].phase # "retain"
  BY <1>1 DEF mayRewrite, rewriting, recording, rewrites
<1>5. ASSUME NEW o, became(d, o), UNCHANGED <<published, blobs, log>>, ChainOK(o),
             \A x \in Collector \ {d} : Apart(o, op[x]) /\ Apart(op[x], o)
      PROVE  ChainInv'
  <2>1. ChainOK(o)'
    BY <1>5, ChainOKKept
  <2> QED
    BY <1>5, <2>1, ChainInvStep
<1>6. ASSUME NEW o, became(d, o), UNCHANGED <<published, blobs, log>>, ChainOK(o), keepsRest(o, p),
             rewrites(o) \/ o.phase = "retain" => rewrites(p), cleaning(o) => cleaning(p)
      PROVE  ChainInv'
  <2>1. \A x \in Collector \ {d} : Apart(o, op[x]) /\ Apart(op[x], o)
    BY <1>2, <1>6, ApartMoved
  <2> QED
    BY <1>5, <1>6, <2>1
<1>7. ASSUME UNCHANGED <<published, blobs, log>>, became(d, Idle) PROVE ChainInv'
  BY <1>5, <1>7, IdleAloof, ApartAloof
<1>8. CASE ReadLog(d)
  <2>1. UNCHANGED <<published, blobs, log>> /\ mayRewrite(d) /\ p.phase = "read"
    BY <1>1, <1>8, ReadLogIs DEF store
  <2>2. PICK o : became(d, o) /\ o.phase = "write" /\ o.copy = log /\ keepsRest(o, p)
    BY <1>1, <1>8, ReadLogIs
  <2>3. ChainOK(o)
    BY <1>2, <2>2 DEF ChainOK, keepsRest, cleaning
  <2>4. \A x \in Collector \ {d} : Apart(o, op[x]) /\ Apart(op[x], o)
    BY <1>2, <1>4, <2>1, <2>2 DEF Apart, keepsRest, cleaning
  <2> QED
    BY <1>5, <2>1, <2>2, <2>3, <2>4
<1>9. CASE ReadBack(d)
  <2>1. UNCHANGED <<published, blobs, log>> /\ p.phase \in {"verify", "reread"}
    BY <1>1, <1>9, ReadBackIs
  <2>2. PICK o \in Operation :
           /\ became(d, o)
           /\ o = Idle \/ (o.phase \in goesOn /\ o.copy = log /\ keepsRest(o, p))
    BY <1>1, <1>9, ReadBackIs
  <2>3. CASE o = Idle
    BY <1>7, <2>1, <2>2, <2>3
  <2>4. CASE o.phase \in goesOn /\ o.copy = log /\ keepsRest(o, p)
    <3>1. OpOK(o, head')
      BY <2>2 DEF became
    <3>2. o.phase = "late" => p.change = "prune"
      BY <2>4, <3>1, ChangeOf DEF keepsRest
    <3>3. o.phase = "late" => ids(log) \cap o.evicted \subseteq pinned(o.copy)
      <4> SUFFICES ASSUME o.phase = "late", NEW i \in ids(log), i \in o.evicted
                   PROVE  i \in pinned(o.copy)
        OBVIOUS
      <4>1. PICK e \in ToSet(log) : e.id = i
        BY DEF ids
      <4>2. e.pinned
        BY <1>2, <2>1, <2>4, <3>2, <4>1 DEF ChainOK, keepsRest
      <4> QED
        BY <2>4, <4>1, <4>2 DEF pinned
    <3>4. ChainOK(o)
      BY <1>2, <2>4, <3>3 DEF ChainOK, keepsRest, goesOn, cleaning
    <3>5. rewrites(p) /\ ~cleaning(o)
      BY <2>1, <2>4 DEF rewrites, goesOn, cleaning
    <3> QED
      BY <1>6, <2>1, <2>2, <2>4, <3>4, <3>5
  <2> QED
    BY <2>2, <2>3, <2>4
<1>10. CASE Retain(d)
  <2>1. UNCHANGED <<published, blobs, log>> /\ mayCollect(d) /\ p.phase = "retain"
    BY <1>1, <1>10, RetainIs
  <2>2. PICK o : /\ became(d, o) /\ o.phase = "read" /\ o.change = "prune"
                 /\ \A i \in ids(p.copy) : i \in o.evicted \/ changeHashes(i) \subseteq o.live
    BY <1>1, <1>10, RetainIs
  <2>3. ids(log) \subseteq ids(p.copy)
    BY <1>2, <2>1 DEF ChainOK
  <2>4. ChainOK(o)
    BY <2>2, <2>3 DEF ChainOK, cleaning
  <2>5. \A x \in Collector \ {d} : Apart(o, op[x]) /\ Apart(op[x], o)
    BY <1>3, <2>1, <2>2 DEF Apart, rewrites, cleaning
  <2> QED
    BY <1>5, <2>1, <2>2, <2>4, <2>5
<1>11. CASE LateHead(d)
  <2>1. UNCHANGED <<published, blobs, log>> /\ p.phase = "late"
    BY <1>1, <1>11, LateHeadIs
  <2>2. PICK o : became(d, o) /\ o.phase = "check" /\ o.copy = p.copy /\ keepsRest(o, p)
    BY <1>1, <1>11, LateHeadIs
  <2>3. ChainOK(o)
    BY <1>2, <2>1, <2>2 DEF ChainOK, keepsRest, cleaning
  <2> QED
    BY <1>6, <2>1, <2>2, <2>3 DEF rewrites, cleaning
<1>12. CASE PinnedAmong(d)
  <2>1. UNCHANGED <<published, blobs, log>> /\ p.phase = "check"
    BY <1>1, <1>12, PinnedAmongIs
  <2>2. PICK o : /\ became(d, o)
                 /\ \/ o = Idle
                    \/ /\ o.phase = "sweep" /\ keepsRest(o, p)
                       /\ o.sweep = p.sweep \ p.live /\ rescued(p) = {}
    BY <1>1, <1>12, PinnedAmongIs
  <2>3. CASE o = Idle
    BY <1>7, <2>1, <2>2, <2>3
  <2>4. CASE o.phase = "sweep" /\ keepsRest(o, p) /\ o.sweep = p.sweep \ p.live /\ rescued(p) = {}
    <3>1. p.change = "prune"
      BY <1>2, <2>1, ChangeOf
    <3>2. ASSUME NEW i \in ids(log) PROVE changeHashes(i) \subseteq p.live
      <4>1. i \in p.evicted => i \in pinned(p.copy)
        BY <1>2, <2>1 DEF ChainOK
      <4>2. i \notin p.evicted
        BY <2>4, <4>1 DEF rescued
      <4> QED
        BY <1>2, <3>1, <4>2 DEF ChainOK
    <3>3. \A i \in ids(log) : o.sweep \cap changeHashes(i) = {}
      BY <2>4, <3>2
    <3>4. ChainOK(o)
      BY <1>2, <2>4, <3>3 DEF ChainOK, keepsRest, cleaning
    <3> QED
      BY <1>6, <2>1, <2>2, <2>4, <3>4 DEF rewrites, cleaning
  <2> QED
    BY <2>2, <2>3, <2>4
<1>13. CASE StartClean(d)
  <2>1. UNCHANGED <<published, blobs, log>> /\ mayCollect(d)
    BY <1>13, StartCleanIs
  <2>2. PICK o : /\ became(d, o) /\ o.phase = "list" /\ o.change = "none"
                 /\ \A i \in ids(log) : changeHashes(i) \subseteq o.live
    BY <1>13, StartCleanIs
  <2>3. ChainOK(o)
    BY <2>2 DEF ChainOK
  <2>4. \A x \in Collector \ {d} : Apart(o, op[x]) /\ Apart(op[x], o)
    BY <1>3, <2>1, <2>2 DEF Apart, rewrites
  <2> QED
    BY <1>5, <2>1, <2>2, <2>3, <2>4
<1>14. CASE ListSettled(d)
  <2>1. UNCHANGED <<published, blobs, log>> /\ p.phase = "list"
    BY <1>1, <1>14, ListSettledIs
  <2>2. PICK o : became(d, o) /\ o.phase = "confirm" /\ keepsRest(o, p)
    BY <1>1, <1>14, ListSettledIs
  <2>3. ChainOK(o)
    BY <1>2, <2>1, <2>2 DEF ChainOK, keepsRest, cleaning
  <2> QED
    BY <1>6, <2>1, <2>2, <2>3 DEF rewrites, cleaning
<1>15. CASE Confirm(d)
  <2>1. UNCHANGED <<published, blobs, log>> /\ p.phase = "confirm"
    BY <1>1, <1>15, ConfirmIs
  <2>2. PICK o : /\ became(d, o)
                 /\ o = Idle \/ (o.phase = "clean" /\ keepsRest(o, p) /\ o.base = head)
    BY <1>1, <1>15, ConfirmIs
  <2>3. CASE o = Idle
    BY <1>7, <2>1, <2>2, <2>3
  <2>4. CASE o.phase = "clean" /\ keepsRest(o, p) /\ o.base = head
    <3>1. ChainOK(o)
      BY <1>2, <2>1, <2>4 DEF ChainOK, keepsRest, cleaning
    <3> QED
      BY <1>6, <2>1, <2>2, <2>4, <3>1 DEF rewrites, cleaning
  <2> QED
    BY <2>2, <2>3, <2>4
<1> QED
  BY <1>8, <1>9, <1>10, <1>11, <1>12, <1>13, <1>14, <1>15

(* A record brings in one snapshot, and the others none.                     *)
LEMMA ChainWrites ==
    ASSUME HistoryAssumption, HTypes, ChainInv, NEW d \in Collector, WriteLog(d)
    PROVE  ChainInv'
<1>1. PICK p : p = op[d]
  OBVIOUS
<1>2. /\ UNCHANGED <<published, blobs>> /\ p.phase \in {"write", "rewrite"}
      /\ log' = mutate(p, p.copy)
      /\ ids(log') \subseteq ids(p.copy) \cup (IF p.change = "record" THEN {p.id} ELSE {})
  BY <1>1, WriteLogIs DEF recording
<1>3. PICK o : /\ became(d, o) /\ o.phase \in {"verify", "reread"} /\ keepsRest(o, p)
  BY <1>1, WriteLogIs
<1>4. /\ ChainOK(p) /\ p.copy = log /\ rewrites(p) /\ p.copy \in Log
      /\ \A x \in Collector \ {d} : Apart(p, op[x]) /\ Apart(op[x], p)
  <2>1. ChainOK(p) /\ \A x \in Collector \ {d} : Apart(p, op[x]) /\ Apart(op[x], p)
    BY <1>1 DEF ChainInv
  <2>2. p \in Operation
    BY <1>1, Running
  <2> QED
    BY <1>2, <2>1, <2>2 DEF ChainOK, rewrites, Operation
<1>5. /\ head' = head /\ \A i : changeHashes(i)' = changeHashes(i)
      /\ ids(log)' = ids(log') /\ ToSet(log)' = ToSet(log')
  BY <1>2 DEF head, changeHashes, changes, filesOf, ids
<1>6. p.change # "record" => ids(log') \subseteq ids(log)
  BY <1>2, <1>4
<1>7. LogIntact'
  <2>1. \A i \in ids(log') : changeHashes(i) \subseteq blobs
    BY <1>2, <1>4 DEF ChainInv, LogIntact, ChainOK
  <2> QED
    BY <1>2, <1>5, <2>1 DEF LogIntact
<1>8. ChainOK(o)'
  <2>1. p.change = "prune" => \A e \in ToSet(log') : e.id \in p.evicted => e.pinned
    <3> SUFFICES ASSUME p.change = "prune"
                 PROVE  \A e \in ToSet(log') : e.id \in p.evicted => e.pinned
      OBVIOUS
    <3>1. log' = pruneLog(p.copy, p.evicted)
      BY <1>2 DEF mutate
    <3> QED
      BY <1>4, <3>1, Pruned
  <2>2. o.change = p.change /\ o.evicted = p.evicted /\ o.live = p.live /\ o.id = p.id
    BY <1>3 DEF keepsRest
  <2>3. p.change = "record" => changeHashes(p.id)' \subseteq blobs'
    BY <1>2, <1>4, <1>5 DEF ChainOK
  <2>4. p.change = "prune" =>
          \A i \in ids(log)' : i \in p.evicted \/ changeHashes(i)' \subseteq p.live
    BY <1>4, <1>5, <1>6 DEF ChainOK
  <2> QED
    BY <1>3, <1>5, <2>1, <2>2, <2>3, <2>4 DEF ChainOK, cleaning
<1>9. ASSUME NEW x \in Collector \ {d}, NEW q, q = op[x]
      PROVE  ChainOK(q)' /\ Apart(o, q)' /\ Apart(q, o)'
  <2>1. ChainOK(q) /\ Apart(p, q) /\ Apart(q, p) /\ q \in Operation /\ OpOK(q, head)
    BY <1>4, <1>9, Running DEF ChainInv
  <2>2. ~rewrites(q)
    BY <1>4, <2>1 DEF Apart
  <2>3. q.phase = "retain" \/ q.change = "prune" \/ (cleaning(q) /\ q.base = head)
          => ids(log') \subseteq ids(log)
    BY <1>4, <1>6, <2>1 DEF Apart
  <2>4. q.phase \in {"late", "check", "sweep"} => q.change = "prune"
    BY <2>1, ChangeOf
  <2>5. changeHashes(q.id)' = changeHashes(q.id) /\ ids(q.copy)' = ids(q.copy)
        /\ pinned(q.copy)' = pinned(q.copy)
    BY <1>5 DEF ids, pinned
  <2>6. ChainOK(q)'
    BY <1>2, <1>5, <2>1, <2>2, <2>3, <2>4, <2>5 DEF ChainOK, rewrites, cleaning
  <2>7. Apart(o, q) /\ Apart(q, o)
    BY <1>3, <1>4, <2>1, ApartMoved DEF cleaning
  <2> QED
    BY <1>5, <2>6, <2>7, ApartKept
<1>10. ASSUME NEW x \in Collector \ {d}, NEW y \in Collector \ {d}, NEW q, NEW r,
              q = op[x], r = op[y], x # y
       PROVE  Apart(q, r)'
  <2>1. Apart(q, r)
    BY <1>10 DEF ChainInv
  <2> QED
    BY <1>5, <2>1, ApartKept
<1> QED
  BY <1>3, <1>7, <1>8, <1>9, <1>10, ChainInvFrom

(* What a snapshot changed is in its tree or its parent's.                   *)
LEMMA Changed ==
    ASSUME NEW a, NEW b, NEW c \in diffManifests(a, b)
    PROVE  {c.from, c.to} \ {NoVersion} \subseteq hashes(a) \cup hashes(b)
BY DEF diffManifests, hashes

LEMMA ChainPublishes ==
    ASSUME HistoryAssumption, HTypes, HeadInv, ChainInv, NEW d \in Collector, Publish(d)
    PROVE  ChainInv'
<1>1. PICK p : p = op[d]
  OBVIOUS
<1>2. /\ UNCHANGED <<blobs, log>> /\ p.phase = "publish" /\ head \in Nat
      /\ HeadOK(p) /\ \A x \in Collector \ {d} : ~decides(op[x])
  BY <1>1, PublishIs, Heads DEF Publish, HeadInv, uploads
<1>3. CASE ~wins(d)
  <2>1. UNCHANGED published /\ became(d, Idle)
    BY <1>3, PublishIs
  <2>2. ChainOK(Idle) /\ \A x \in Collector \ {d} : Apart(Idle, op[x]) /\ Apart(op[x], Idle)
    BY IdleAloof, ApartAloof
  <2>3. ChainOK(Idle)'
    BY <1>2, <2>1, <2>2, ChainOKKept
  <2> QED
    BY <1>2, <2>1, <2>2, <2>3, ChainInvStep
<1>4. CASE wins(d)
  <2>1. PICK n : n = head + 1
    OBVIOUS
  <2>2. PICK o : became(d, o) /\ o.phase = "read" /\ o.change = "record" /\ o.id = n
    BY <1>4, <2>1, PublishIs
  <2>3. /\ head' = n /\ n \in Nat /\ filesOf(n)' = p.files
        /\ \A i \in 0..head : filesOf(i)' = filesOf(i)
    BY <1>1, <1>2, <1>4, <2>1, PublishIs
  <2>4. \A i \in 1..head : changeHashes(i)' = changeHashes(i)
    <3> SUFFICES ASSUME NEW i \in 1..head PROVE changeHashes(i)' = changeHashes(i)
      OBVIOUS
    <3>1. i \in 0..head /\ i - 1 \in 0..head
      BY <1>2
    <3>2. filesOf(i)' = filesOf(i) /\ filesOf(i - 1)' = filesOf(i - 1)
      BY <2>3, <3>1
    <3> QED
      BY <3>2 DEF changeHashes, changes, diffManifests
  <2>5. changeHashes(n)' \subseteq blobs
    <3>1. PICK a : a = filesOf(head)
      OBVIOUS
    <3>2. PICK b : b = p.files
      OBVIOUS
    <3>3. filesOf(n - 1)' = a /\ filesOf(n)' = b
      <4>1. n - 1 = head /\ n - 1 \in 0..head
        BY <1>2, <2>1
      <4>2. filesOf(n - 1)' = filesOf(n - 1)
        BY <2>3, <4>1
      <4> QED
        BY <2>3, <3>1, <3>2, <4>1, <4>2
    <3> DEFINE s == {{c.from, c.to} : c \in diffManifests(a, b)}
    <3>4. changeHashes(n)' = (UNION s) \ {NoVersion}
      BY <3>3 DEF changeHashes, changes, diffManifests
    <3>5. hashes(a) \subseteq blobs /\ hashes(b) \subseteq blobs
      BY <1>1, <1>2, <1>4, <3>1, <3>2 DEF HeadInv, HeadIntact, HeadOK, wins
    <3>6. \A S \in s : S \ {NoVersion} \subseteq blobs
      BY <3>5, Changed
    <3> HIDE DEF s
    <3> QED
      BY <3>4, <3>6
  <2>6. \A i \in ids(log) : i \in 1..head
    BY Heads
  <2>7. ids(log)' = ids(log)
    BY <1>2 DEF ids
  <2>8. LogIntact'
    BY <1>2, <2>4, <2>6, <2>7 DEF ChainInv, LogIntact
  <2>9. ChainOK(o)'
    <3>1. changeHashes(o.id)' \subseteq blobs'
      BY <1>2, <2>2, <2>5
    <3> QED
      BY <2>2, <3>1 DEF ChainOK, cleaning
  <2>10. ASSUME NEW x \in Collector \ {d}, NEW q, q = op[x]
         PROVE  ChainOK(q)' /\ Apart(o, q)' /\ Apart(q, o)'
    <3>1. ChainOK(q) /\ ~decides(q) /\ q \in Operation /\ OpOK(q, head)
      BY <1>2, <2>10, Running DEF ChainInv
    <3>2. /\ q.base # head' /\ q.phase # "clean"
          /\ q.change \in {"record", "prune"} => q.id \in 1..head /\ q.id < n
      <4>1. q.base <= head /\ q.base \in Nat /\ (q.change \in {"record", "prune"} => q.id \in 1..head)
        BY <3>1 DEF OpOK, Operation
      <4> QED
        BY <1>2, <2>1, <2>3, <3>1, <4>1 DEF decides
    <3>3. /\ ids(q.copy)' = ids(q.copy) /\ pinned(q.copy)' = pinned(q.copy)
          /\ q.change = "record" => changeHashes(q.id)' = changeHashes(q.id)
          /\ \A i \in ids(log)' : i \in ids(log) /\ changeHashes(i)' = changeHashes(i)
      BY <2>4, <2>6, <2>7, <3>2 DEF ids, pinned
    <3>4. ToSet(log)' = ToSet(log) /\ log' = log /\ blobs' = blobs
      BY <1>2
    <3>5. ChainOK(q)'
      BY <2>7, <3>1, <3>2, <3>3, <3>4 DEF ChainOK, cleaning
    <3> QED
      BY <2>2, <3>2, <3>5 DEF Apart, rewrites, cleaning
  <2>11. ASSUME NEW x \in Collector \ {d}, NEW y \in Collector \ {d}, NEW q, NEW r,
                q = op[x], r = op[y], x # y
         PROVE  Apart(q, r)'
    <3>1. Apart(q, r) /\ OpOK(q, head) /\ q \in Operation
      BY <2>11, Running DEF ChainInv
    <3>2. q.base # head'
      BY <1>2, <2>1, <2>3, <3>1 DEF OpOK, Operation
    <3> QED
      BY <3>1, <3>2 DEF Apart, rewrites, cleaning
  <2> QED
    BY <2>2, <2>8, <2>9, <2>10, <2>11, ChainInvFrom
<1> QED
  BY <1>3, <1>4

(* What is swept is nothing the log names, nor a record on its way.          *)
LEMMA ChainSweeps ==
    ASSUME HistoryAssumption, HTypes, HeadInv, ChainInv, NEW d \in Collector, Sweep(d)
    PROVE  ChainInv'
<1>1. PICK p : p = op[d]
  OBVIOUS
<1>2. /\ UNCHANGED <<published, log>> /\ p.phase \in {"sweep", "clean"}
      /\ blobs' \subseteq blobs /\ blobs \ p.sweep \subseteq blobs'
  BY <1>1, SweepIs
<1>3. PICK o : /\ became(d, o)
               /\ \/ o = Idle
                  \/ /\ o.phase = p.phase /\ o.copy = p.copy /\ keepsRest(o, p)
                     /\ o.sweep \subseteq p.sweep
  BY <1>1, SweepIs
<1>4. /\ ChainOK(p) /\ HeadOK(p) /\ p \in Operation /\ OpOK(p, head) /\ head \in Nat
      /\ \A x \in Collector \ {d} : Apart(p, op[x]) /\ Apart(op[x], p)
  BY <1>1, Running, Heads DEF ChainInv, HeadInv
<1>5. /\ head' = head /\ \A i : changeHashes(i)' = changeHashes(i)
      /\ ids(log)' = ids(log) /\ ToSet(log)' = ToSet(log)
  BY <1>2 DEF head, changeHashes, changes, filesOf, ids
<1>6. p.phase = "clean" => p.base = head /\ p.sweep \cap p.live = {}
  BY <1>4 DEF ChainOK, HeadOK
<1>7. p.phase = "sweep" => p.change = "prune" /\ (p.sweep = {} \/ head = p.id)
  BY <1>4, ChangeOf DEF HeadOK
<1>8. LogIntact'
  <2>1. ASSUME NEW i \in ids(log) PROVE p.sweep \cap changeHashes(i) = {}
    <3>1. CASE p.phase = "sweep"
      BY <1>4, <3>1 DEF ChainOK
    <3>2. CASE p.phase = "clean"
      <4>1. changeHashes(i) \subseteq p.live
        BY <1>4, <1>6, <3>2 DEF ChainOK, cleaning
      <4> QED
        BY <1>6, <3>2, <4>1
    <3> QED
      BY <1>2, <3>1, <3>2
  <2>2. \A i \in ids(log) : changeHashes(i) \subseteq blobs'
    BY <1>2, <2>1 DEF ChainInv, LogIntact
  <2> QED
    BY <1>5, <2>2 DEF LogIntact
<1>9. ASSUME NEW q, ChainOK(q), q.change = "record" => blobs \subseteq blobs' PROVE ChainOK(q)'
  <2>1. /\ changeHashes(q.id)' = changeHashes(q.id) /\ ids(q.copy)' = ids(q.copy)
        /\ pinned(q.copy)' = pinned(q.copy)
    BY <1>5 DEF ids, pinned
  <2> QED
    BY <1>2, <1>5, <1>9, <2>1 DEF ChainOK, cleaning
<1>10. ChainOK(o)' /\ \A x \in Collector \ {d} : Apart(o, op[x]) /\ Apart(op[x], o)
  <2>1. CASE o = Idle
    <3>1. ChainOK(Idle) /\ Idle.change # "record"
      BY IdleAloof, ApartAloof DEF Idle
    <3> QED
      BY <1>9, <2>1, <3>1, IdleAloof, ApartAloof
  <2>2. CASE /\ o.phase = p.phase /\ o.copy = p.copy /\ keepsRest(o, p)
             /\ o.sweep \subseteq p.sweep
    <3>1. p.change # "record"
      BY <1>2, <1>4, <1>7, ChangeOf DEF cleaning
    <3>2. ChainOK(o) /\ o.change # "record"
      BY <1>2, <1>4, <2>2, <3>1 DEF ChainOK, keepsRest, cleaning
    <3>3. \A x \in Collector \ {d} : Apart(o, op[x]) /\ Apart(op[x], o)
      BY <1>2, <1>4, <2>2, ApartMoved DEF rewrites, cleaning
    <3> QED
      BY <1>9, <3>2, <3>3
  <2> QED
    BY <1>3, <2>1, <2>2
<1>11. ASSUME NEW x \in Collector \ {d}, NEW q, q = op[x]
       PROVE  ChainOK(q)' /\ Apart(o, q)' /\ Apart(q, o)'
  <2>1. ChainOK(q) /\ q \in Operation /\ OpOK(q, head) /\ Apart(p, q)
    BY <1>4, <1>11, Running DEF ChainInv
  <2>2. q.change = "record" => blobs \subseteq blobs'
    <3> SUFFICES ASSUME q.change = "record" PROVE p.sweep = {}
      BY <1>2
    <3>1. p.phase # "clean"
      BY <1>6, <2>1 DEF Apart, cleaning
    <3>2. p.change = "prune" /\ p.id < q.id
      BY <1>2, <1>7, <2>1, <3>1 DEF Apart
    <3>3. q.id \in 1..head
      BY <2>1 DEF OpOK
    <3>4. head # p.id
      BY <1>4, <3>2, <3>3
    <3> QED
      BY <1>2, <1>7, <3>1, <3>4
  <2> QED
    BY <1>5, <1>9, <1>10, <1>11, <2>1, <2>2, ApartKept
<1>12. ASSUME NEW x \in Collector \ {d}, NEW y \in Collector \ {d}, NEW q, NEW r,
              q = op[x], r = op[y], x # y
       PROVE  Apart(q, r)'
  <2>1. Apart(q, r)
    BY <1>12 DEF ChainInv
  <2> QED
    BY <1>5, <2>1, ApartKept
<1> QED
  BY <1>3, <1>8, <1>10, <1>11, <1>12, ChainInvFrom

LEMMA ChainInvNext ==
    ASSUME HistoryAssumption, "log" \notin Races, HTypes, HeadInv, ChainInv, [HNext]_hvars
    PROVE  ChainInv'
<1>1. ASSUME UNCHANGED <<published, blobs, log, op>> PROVE ChainInv'
  <2>1. head' = head /\ LogIntact'
    BY <1>1, LogIntactKept DEF head, ChainInv
  <2>2. ASSUME NEW x \in Collector PROVE ChainOK(op[x])'
    <3>1. PICK q : q = op[x]
      OBVIOUS
    <3>2. ChainOK(q)
      BY <3>1 DEF ChainInv
    <3>3. ChainOK(q)' /\ op'[x] = q
      BY <1>1, <3>1, <3>2, ChainOKKept
    <3> QED
      BY <3>3 DEF ChainOK, cleaning
  <2>3. ASSUME NEW x \in Collector, NEW y \in Collector, x # y PROVE Apart(op[x], op[y])'
    <3>1. Apart(op[x], op[y])
      BY <2>3 DEF ChainInv
    <3> QED
      BY <1>1, <2>1, <3>1 DEF Apart, rewrites, cleaning
  <2> QED
    BY <2>1, <2>2, <2>3 DEF ChainInv
<1>2. CASE UNCHANGED hvars
  BY <1>1, <1>2 DEF hvars, store
<1>3. CASE Settle
  BY <1>1, <1>3 DEF Settle
<1>4. ASSUME NEW d \in Collector, NEW o, UNCHANGED <<published, log>>, blobs \subseteq blobs',
             became(d, o), aloof(o)
      PROVE  ChainInv'
  <2>1. ChainOK(o)'
    BY <1>4, ApartAloof, ChainOKKept
  <2> QED
    BY <1>4, <2>1, ApartAloof, ChainInvStep
<1>5. ASSUME NEW d \in Collector, Upload(d) PROVE ChainInv'
  <2>1. PICK o : /\ became(d, o) /\ o.phase = "publish" /\ o.change = "none"
                 /\ blobs' = blobs \cup (hashes(o.files) \ hashes(filesOf(head)))
    BY <1>5, UploadIs
  <2>2. UNCHANGED <<published, log>>
    BY <1>5, UploadIs
  <2> QED
    BY <1>4, <2>1, <2>2 DEF aloof
<1>6. ASSUME NEW d \in Collector,
             \/ StartPin(d) \/ Rebuild(d) \/ PutPin(d) \/ StartUnpin(d) \/ DropPin(d)
             \/ HCrash(d) \/ FailUpdate(d)
      PROVE  ChainInv'
  <2>1. quiet(d)
    BY <1>6, QuietIs
  <2>2. PICK o : became(d, o) /\ quietOp(o)
    BY <2>1 DEF quiet
  <2>3. UNCHANGED <<published, log>> /\ blobs \subseteq blobs'
    BY <2>1 DEF quiet
  <2> QED
    BY <1>4, <2>2, <2>3, IdleAloof
<1>7. ASSUME NEW d \in Collector,
             \/ Publish(d) \/ ReadLog(d) \/ WriteLog(d) \/ ReadBack(d)
             \/ Retain(d) \/ LateHead(d) \/ PinnedAmong(d) \/ Sweep(d)
             \/ StartClean(d) \/ ListSettled(d) \/ Confirm(d)
      PROVE  ChainInv'
  BY <1>7, ChainPublishes, ChainWrites, ChainSweeps, ChainMoves
<1> QED
  BY <1>2, <1>3, <1>5, <1>6, <1>7 DEF HNext

(* A tree's blobs are its child's, or were changed by it.                    *)
LEMMA Parents ==
    ASSUME NEW j PROVE hashes(filesOf(j - 1)) \subseteq hashes(filesOf(j)) \cup changeHashes(j)
<1> DEFINE a == filesOf(j - 1)
           b == filesOf(j)
           s == {{c.from, c.to} : c \in diffManifests(a, b)}
<1>1. changeHashes(j) = (UNION s) \ {NoVersion}
  BY DEF changeHashes, changes
<1>2. ASSUME NEW p \in Note, a[p] # b[p] PROVE {a[p], b[p]} \in s
  <2>1. PICK c : c = [path |-> p, from |-> a[p], to |-> b[p]]
    OBVIOUS
  <2>2. c \in diffManifests(a, b)
    BY <1>2, <2>1, Zenon DEF diffManifests
  <2>3. {c.from, c.to} \in s
    BY <2>2
  <2> QED
    BY <2>1, <2>3
<1>3. hashes(a) = {a[p] : p \in Note} \ {NoVersion} /\ hashes(b) = {b[p] : p \in Note} \ {NoVersion}
  BY DEF hashes
<1> HIDE DEF a, b, s
<1>4. ASSUME NEW p \in Note, a[p] # NoVersion PROVE a[p] \in hashes(b) \cup changeHashes(j)
  <2>1. CASE a[p] = b[p]
    BY <1>3, <1>4, <2>1
  <2>2. CASE a[p] # b[p]
    <3>1. a[p] \in UNION s
      BY <1>2, <2>2
    <3> QED
      BY <1>1, <1>4, <3>1
  <2> QED
    BY <2>1, <2>2
<1>5. hashes(a) \subseteq hashes(b) \cup changeHashes(j)
  BY <1>3, <1>4
<1> QED
  BY <1>5 DEF a, b

(* The head and what the log names are enough for every tree of the walk.    *)
LEMMA ChainOfLog ==
    ASSUME HistoryAssumption, HTypes, HeadIntact, LogIntact
    PROVE  ChainIntact
<1> DEFINE chain == walkableChain(log)
           T == {i \in 0..Len(chain) : ~(hashes(filesOf(head - i)) \subseteq blobs)}
<1>1. head \in Nat /\ log \in Log
  BY Heads DEF HTypes
<1>2. /\ chain \in Log /\ Len(chain) \in Nat /\ DOMAIN chain = 1..Len(chain)
      /\ Len(chain) <= Len(log)
      /\ \A i \in 1..Len(chain) : chain[i] = log[i] /\ chain[i].id = head + 1 - i
  <2>1. /\ chain \in Log /\ Len(chain) <= Len(log)
        /\ \A i \in 1..Len(chain) : chain[i] = log[i] /\ chain[i].id = head + 1 - i
    BY <1>1, Walk
  <2> QED
    BY <2>1 DEF Log
<1>3. \A i \in 0..Len(chain) : undone(chain, i) = filesOf(head - i)
  BY <1>2, UndoneIsTree DEF HTypes
<1>4. ChainIntact <=>
        \A i \in DOMAIN chain : hashes(undone(chain, i)) \cup hashes(undone(chain, i - 1)) \subseteq blobs
  BY DEF ChainIntact
<1> HIDE DEF chain
<1>5. T = {}
  <2> SUFFICES ASSUME T # {} PROVE FALSE
    OBVIOUS
  <2>1. PICK m \in T : \A k \in T : m <= k
    <3>1. T \in SUBSET Nat
      BY <1>2
    <3> HIDE DEF T
    <3> QED
      BY <3>1, Least
  <2>2. CASE m = 0
    <3>1. head - 0 = head
      BY <1>1
    <3> QED
      BY <2>1, <2>2, <3>1 DEF HeadIntact
  <2>3. CASE m # 0
    <3>1. m \in 1..Len(chain) /\ m - 1 \in 0..Len(chain) /\ m \in Nat
      BY <1>2, <2>1, <2>3
    <3>2. m - 1 \notin T
      <4> HIDE DEF T
      <4> QED
        BY <2>1, <3>1
    <3>3. PICK j : j = head + 1 - m
      OBVIOUS
    <3>4. j = head - (m - 1) /\ j - 1 = head - m
      BY <1>1, <3>1, <3>3
    <3>5. hashes(filesOf(j)) \subseteq blobs
      BY <3>1, <3>2, <3>4
    <3>6. changeHashes(j) \subseteq blobs
      <4>1. log[m] \in ToSet(log) /\ log[m].id = j
        BY <1>1, <1>2, <3>1, <3>3, SMTT(30) DEF ToSet, Log
      <4>2. j \in ids(log)
        BY <4>1 DEF ids
      <4> QED
        BY <4>2 DEF LogIntact
    <3>7. hashes(filesOf(j - 1)) \subseteq blobs
      BY <3>5, <3>6, Parents
    <3> QED
      BY <2>1, <3>4, <3>7
  <2> QED
    BY <2>2, <2>3
<1>6. \A i \in 0..Len(chain) : hashes(undone(chain, i)) \subseteq blobs
  BY <1>3, <1>5
<1>7. \A i \in DOMAIN chain : i \in 0..Len(chain) /\ i - 1 \in 0..Len(chain)
  BY <1>2
<1> QED
  BY <1>4, <1>6, <1>7

(* Every version and every deleted file that the walk over the log offers    *)
(* can be downloaded, when besides no two devices rewrite the log at once    *)
(* and none collects before another's record of its push is in.              *)
THEOREM ChainHolds ==
    HistoryAssumption /\ Races = {} => (HSpec => []ChainIntact)
<1> SUFFICES ASSUME HistoryAssumption, Races = {} PROVE HSpec => []ChainIntact
  OBVIOUS
<1>1. HInit => HTypes /\ HeadInv /\ ChainInv
  BY HTypesInit, HeadInvInit, ChainInvInit
<1>2. HTypes /\ HeadInv /\ ChainInv /\ [HNext]_hvars => HTypes' /\ HeadInv' /\ ChainInv'
  BY HTypesStep, HeadInvNext, ChainInvNext
<1>3. HTypes /\ HeadInv /\ ChainInv => ChainIntact
  BY ChainOfLog DEF HeadInv, ChainInv
<1> QED
  BY <1>1, <1>2, <1>3, PTL DEF HSpec
=============================================================================
