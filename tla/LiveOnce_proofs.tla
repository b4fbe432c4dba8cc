---------------------------- MODULE LiveOnce_proofs ----------------------------
(***************************************************************************)
(* While notes stay open no edit is doubled, taken back or lost from an    *)
(* open text, for any devices, edits and generations.                      *)
(*                                                                         *)
(* What the inductive invariant adds to LiveRoom_proofs is where           *)
(* operations come from: a text put into a room is its device's, of one    *)
(* operation an edit, and is put there by that device only, and once.      *)
(***************************************************************************)
EXTENDS LiveRoom_proofs

-----------------------------------------------------------------------------
(* No room shows an edit twice, as long as sessions stay: a note that was   *)
(* left or crashed is opened again with what its file and agreed text hold, *)
(* and may say twice what is still on its way to the room.                  *)

Steady == Fault \cap {"crash", "close", "reopen", "wipe"} = {}

edits(ops) == {o.edit : o \in ops}

logged(g) == merged(past[g])

(* A room and the documents of those who are in it.                         *)
Pool(g) == logged(g) \cup UNION {session[d].doc : d \in {x \in Device : session[x].gen = g}}

(* No edit twice.                                                           *)
Distinct(ops) == \A o \in ops, p \in ops : o.edit = p.edit => o = p

(* Nobody else inserted the edit, wherever it shows.                        *)
Sole(d, e) ==
    /\ \A g \in Gen : \A o \in logged(g) : o.edit = e => o.by = d
    /\ \A x \in Device : \A o \in session[x].doc : o.edit = e => o.by = d

Shown(e)    == \E g \in Gen : e \in edits(logged(g))
Older(g, e) == \E h \in Gen : h < g /\ e \in edits(logged(h))

Insertion(o) == ~o.cut /\ o.edit \in typed \cup Start

(* A text as a document of its own.                                         *)
SeedOnce(d, ops) == Distinct(ops) /\ \A o \in ops : o.by = d /\ ~o.cut

(* A room starts with all that the ones before it showed, and those moved.  *)
RoomOnce(g) ==
    past[g] # <<>> =>
        /\ Start \subseteq edits(past[g][1])
        /\ \A h \in Gen : h < g => room[h].moved /\ edits(logged(h)) \subseteq edits(past[g][1])

(* What a device sent a room that has not moved is in its document still.   *)
SentOnce(d, f) ==
    /\ f.type = "Update" =>
          /\ past[f.gen] # <<>> /\ \A o \in f.ops : o.by = d
          /\ ~room[f.gen].moved =>
                session[d].joined /\ session[d].gen = f.gen /\ f.ops \subseteq session[d].doc
    /\ f.type = "Seed" =>
          /\ f.gen = 0 /\ SeedOnce(d, f.ops)
          /\ Start \subseteq edits(f.ops) /\ edits(f.ops) \subseteq view[d]
    /\ f.type = "Rotate" => past[f.gen] # <<>>

owed(s) == s.pending \cup outgoing(s.unacked)

(* A session whose editor shows `text`: it has what it made for its room,   *)
(* and has made nothing for a room it is still to join, but its first text. *)
OpenOnce(d, s, text) ==
    /\ ~s.joined => /\ s.doc = {} /\ owed(s) = {} /\ ~s.bound
                    /\ \A ops \in s.seed : SeedOnce(d, ops) /\ s.from # None /\ edits(ops) = s.from
    /\ s.joined /\ ~s.bound => s.from # None /\ s.from \subseteq edits(s.doc)
    /\ s.bound => text = edits(s.doc)
    /\ s.gen > 0 => s.known >= 1
    /\ s.from # None => Start \subseteq s.from /\ s.from \subseteq text
    /\ \A o \in owed(s) : o.by = d
    /\ s.joined => \A o \in logged(s.gen) : o.by = d => o \in s.doc
    /\ \A g \in Gen : g > s.gen \/ (g = s.gen /\ ~s.joined) =>
          \A o \in logged(g) : o.by = d => o \in past[g][1]

(* Sessions do not end.                                                     *)
NotYet(d) ==
    ~session[d].on => /\ session[d] = Off /\ view[d] = Start
                      /\ stored[d] = None /\ unwritten[d] = None

(* What was agreed is in its room, which the session has joined or left.    *)
AgreedOnce(d, agreed) ==
    agreed # None =>
        /\ agreed.text \subseteq edits(logged(agreed.gen))
        /\ agreed.gen <= session[d].gen
        /\ agreed.gen = session[d].gen => session[d].joined

FileOnce(d) ==
    /\ Start \subseteq disk[d] /\ disk[d] \subseteq view[d]
    /\ stored[d] # None => stored[d].text \subseteq disk[d]
    /\ AgreedOnce(d, stored[d]) /\ AgreedOnce(d, unwritten[d])

(* Whatever a device shows that its room and the ones before it do not is   *)
(* its own.                                                                 *)
KnowsOnce(d) ==
    LET s == session[d]
    IN  /\ \A e \in view[d] :
              e \in Start \/ e \in edits(s.doc) \/ Older(s.gen, e) \/ Sole(d, e)
        /\ \A o \in s.doc : o \in logged(s.gen) \/ Sole(d, o.edit)

(* What two devices show, some room does.                                   *)
SharedOnce ==
    \A d \in Device, x \in Device : d # x =>
        \A e \in view[d] \cap view[x] : e \in Start \/ Shown(e)

MadeOnce ==
    /\ \A g \in Gen : \A o \in logged(g) : Insertion(o)
    /\ \A d \in Device : \A o \in session[d].doc : Insertion(o)
    /\ \A d \in Device : view[d] \subseteq typed \cup Start

RoomsOnce == \A g \in Gen : RoomOnce(g) /\ Distinct(Pool(g))
WireOnce  == \A k \in Socket : \A i \in 1..Len(up[k]) : SentOnce(k[1], up[k][i])

Once ==
    /\ RoomsOnce /\ WireOnce /\ SharedOnce /\ MadeOnce
    /\ \A d \in Device :
          OpenOnce(d, session[d], view[d]) /\ NotYet(d) /\ FileOnce(d) /\ KnowsOnce(d)

(* An insertion only this device makes, of what it shows or just typed.     *)
Fresh(d, o, T) ==
    /\ o.by = d /\ ~o.cut /\ Sole(d, o.edit) /\ o.edit \notin Start
    /\ o.edit \notin edits(session[d].doc) /\ o.edit \notin edits(logged(session[d].gen))
    /\ o.edit \in view[d] \/ o.edit \in T \ (typed \cup Start)

(* A document that grows by what the room has and by what is fresh.         *)
GrownOnce(d, doc, T) ==
    /\ session[d].doc \subseteq doc
    /\ \A o \in doc : \/ o \in session[d].doc \/ o \in logged(session[d].gen)
                      \/ Fresh(d, o, T)
    /\ \A o \in doc, p \in doc : Fresh(d, o, T) /\ Fresh(d, p, T) /\ o.edit = p.edit => o = p

(* Insertions show.                                                         *)
LEMMA PlainText ==
    ASSUME NEW ops \in SUBSET Op, \A o \in ops : ~o.cut
    PROVE  live(ops) = ops /\ Text(ops) = edits(ops) /\ rebuild(ops) = ops
<1>1. \A o \in ops : [o EXCEPT !.cut = TRUE].cut
  BY DEF Op
<1>2. live(ops) = ops
  BY <1>1 DEF live
<1> QED
  BY <1>2 DEF Text, edits, rebuild

(* An update's operations join the log's.                                   *)
LEMMA MergedAppend ==
    ASSUME NEW log \in Seq(SUBSET Op), NEW ops \in SUBSET Op
    PROVE  /\ merged(Append(log, ops)) = merged(log) \cup ops
           /\ log # <<>> => Append(log, ops)[1] = log[1] /\ log[1] \subseteq merged(log)
           /\ log = <<>> => Append(log, ops)[1] = ops /\ merged(log) = {}
<1> DEFINE longer == Append(log, ops)
           k == Len(log)
<1>1. /\ longer \in Seq(SUBSET Op) /\ Len(longer) = k + 1 /\ longer[k + 1] = ops
      /\ Grows(log, longer) /\ k \in Nat
  BY LogAdd, LenProperties
<1>2. merged(longer) = first(longer, k + 1) /\ merged(log) = first(log, k)
  BY <1>1, MergedIsFirst
<1>3. first(longer, k) = first(log, k)
  BY <1>1, k \in 0..k, FirstGrows
<1>4. first(longer, k + 1) = first(longer, k) \cup ops
  BY <1>1, FirstNext
<1>5. log # <<>> => k >= 1
  BY <1>1
<1>6. k >= 1 => longer[1] = log[1] /\ log[1] \subseteq first(log, k)
  <2>1. k >= 1 => log[1] \subseteq first(log, k)
    BY <1>1 DEF first
  <2> QED
    BY <1>1, <2>1 DEF Grows
<1>7. log = <<>> => k + 1 = 1 /\ merged(log) = {}
  BY NothingMerged
<1> HIDE DEF k, longer
<1> QED
  BY <1>1, <1>2, <1>3, <1>4, <1>5, <1>6, <1>7 DEF longer

(* Who is in a pool.                                                        *)
LEMMA PoolIs ==
    ASSUME NEW g, NEW o
    PROVE  o \in Pool(g) <=>
              \/ o \in logged(g)
              \/ \E d \in Device : session[d].gen = g /\ o \in session[d].doc
BY Zenon DEF Pool

(* What one device makes leaves every edit at one place in a room.          *)
LEMMA MakesOnce ==
    ASSUME TypeOK, Once, NEW d \in Device, NEW s, s = session[d],
           NEW t, NEW V, NEW T, UNCHANGED past, session'[d] = t, view'[d] = V, typed' = T, typed \subseteq T,
           \A x \in Device \ {d} : session'[x] = session[x] /\ view'[x] = view[x],
           t.gen = s.gen, GrownOnce(d, t.doc, T),
           \A e \in V : e \in view[d] \/ e \in edits(t.doc) \/ e \in T \ (typed \cup Start)
    PROVE  /\ MadeOnce' /\ SharedOnce'
           /\ \A x \in Device : KnowsOnce(x)'
           /\ \A g \in Gen : Distinct(Pool(g))'
<1>1. /\ \A g \in Gen : \A o \in logged(g) : Insertion(o)
      /\ \A x \in Device : \A o \in session[x].doc : Insertion(o)
      /\ \A x \in Device : view[x] \subseteq typed \cup Start
  BY DEF Once, MadeOnce
<1>2. /\ \A o \in t.doc : o \in s.doc \/ o \in logged(s.gen) \/ Fresh(d, o, T)
      /\ s.doc \subseteq t.doc
      /\ \A o \in t.doc, p \in t.doc :
            Fresh(d, o, T) /\ Fresh(d, p, T) /\ o.edit = p.edit => o = p
  BY DEF GrownOnce

<1>3. s.gen \in Gen /\ t.gen = s.gen
  BY Parts
<1>4. \A g \in Gen : logged(g)' = logged(g)
  BY DEF logged
<1>5. \A o \in t.doc : Insertion(o)'
  <2> TAKE o \in t.doc
  <2>1. Insertion(o) \/ Fresh(d, o, T)
    BY <1>1, <1>2, <1>3
  <2>2. \A e \in view[d] : e \in T \cup Start
    BY <1>1
  <2>3. CASE Fresh(d, o, T)
    BY <2>2, <2>3 DEF Fresh, Insertion
  <2> QED
    BY <2>1, <2>3 DEF Insertion
<1>6. MadeOnce'
  <2>1. \A g \in Gen : \A o \in logged(g)' : Insertion(o)'
    BY <1>1, <1>4 DEF Insertion
  <2>2. \A x \in Device : \A o \in session'[x].doc : Insertion(o)'
    BY <1>1, <1>5 DEF Insertion
  <2>3. edits(t.doc) \subseteq T \cup Start
    BY <1>5 DEF edits, Insertion
  <2>4. \A x \in Device : view'[x] \subseteq typed' \cup Start
    BY <1>1, <2>3
  <2> QED
    BY <2>1, <2>2, <2>4 DEF MadeOnce
<1>7. ASSUME NEW x \in Device, NEW e, Sole(x, e),
             x # d => \A o \in t.doc : Fresh(d, o, T) => o.edit # e
      PROVE  Sole(x, e)'
  <2>1. ASSUME NEW o \in t.doc, o.edit = e PROVE o.by = x
    <3>1. CASE o \in s.doc \/ o \in logged(s.gen)
      BY <1>3, <1>7, <2>1, <3>1 DEF Sole
    <3>2. CASE Fresh(d, o, T)
      BY <1>7, <2>1, <3>2 DEF Fresh
    <3> QED
      BY <1>2, <3>1, <3>2
  <2>2. \A y \in Device : \A o \in session'[y].doc : o.edit = e => o.by = x
    BY <1>7, <2>1 DEF Sole
  <2> QED
    BY <1>4, <1>7, <2>2 DEF Sole
<1>8. ASSUME NEW x \in Device \ {d}, NEW o \in t.doc, Fresh(d, o, T), Sole(x, o.edit)
      PROVE  o.edit \notin view[x] /\ \A p \in session[x].doc : p.edit # o.edit
  <2>1. Sole(d, o.edit) /\ o.edit \notin Start
    BY <1>8 DEF Fresh
  <2>2. ~Shown(o.edit)
    BY <1>8, <2>1 DEF Shown, Sole, edits
  <2>3. \A p \in session[x].doc : p.edit # o.edit
    BY <1>8, <2>1 DEF Sole
  <2>4. ASSUME o.edit \in view[x] PROVE FALSE
    <3>1. o.edit \in view[d]
      BY <1>1, <1>8, <2>4 DEF Fresh
    <3> QED
      BY <2>1, <2>2, <2>4, <3>1 DEF Once, SharedOnce
  <2> QED
    BY <2>3, <2>4
<1>9. ASSUME NEW x \in Device \ {d} PROVE KnowsOnce(x)'
  <2>1. KnowsOnce(x)
    BY DEF Once
  <2>2. session'[x] = session[x] /\ view'[x] = view[x] /\ session[x].gen \in Gen
    BY Parts
  <2>3. \A e : Older(session[x].gen, e)' <=> Older(session[x].gen, e)
    BY <1>4 DEF Older
  <2>4. \A e \in view[x] : Sole(x, e) => Sole(x, e)'
    BY <1>7, <1>8
  <2>5. \A p \in session[x].doc : Sole(x, p.edit) => Sole(x, p.edit)'
    BY <1>7, <1>8
  <2>6. \A e \in view[x] :
           \/ e \in Start \/ e \in edits(session[x].doc) \/ Older(session[x].gen, e)'
           \/ Sole(x, e)'
    BY <2>1, <2>3, <2>4 DEF KnowsOnce
  <2>7. \A p \in session[x].doc : p \in logged(session[x].gen)' \/ Sole(x, p.edit)'
    BY <1>4, <2>1, <2>2, <2>5 DEF KnowsOnce
  <2> QED
    BY <2>2, <2>6, <2>7 DEF KnowsOnce
<1>10. KnowsOnce(d)'
  <2>1. KnowsOnce(d)
    BY DEF Once
  <2>2. \A e : Older(s.gen, e)' <=> Older(s.gen, e)
    BY <1>4 DEF Older
  <2>3. \A e : Sole(d, e) => Sole(d, e)'
    BY <1>7
  <2>4. ASSUME NEW e, e \notin typed \cup Start PROVE Sole(d, e)
    BY <1>1, <2>4 DEF Sole, Insertion
  <2>5. edits(s.doc) \subseteq edits(t.doc)
    BY <1>2 DEF edits
  <2>6. \A e \in view'[d] :
           \/ e \in Start \/ e \in edits(t.doc) \/ Older(s.gen, e)'
           \/ Sole(d, e)'
    BY <2>1, <2>2, <2>3, <2>4, <2>5 DEF KnowsOnce
  <2>7. \A o \in t.doc : o \in logged(s.gen)' \/ Sole(d, o.edit)'
    BY <1>2, <1>3, <1>4, <2>1, <2>3 DEF KnowsOnce, Fresh
  <2> QED
    BY <1>3, <2>6, <2>7 DEF KnowsOnce
<1>11. SharedOnce'
  <2>1. \A e : Shown(e)' <=> Shown(e)
    BY <1>4 DEF Shown
  <2>2. ASSUME NEW x \in Device \ {d}, NEW e \in V, e \in view[x] PROVE e \in Start \/ Shown(e)
    <3>1. CASE e \in view[d]
      BY <2>2, <3>1 DEF Once, SharedOnce
    <3>2. CASE e \in T \ (typed \cup Start)
      BY <1>1, <2>2, <3>2
    <3>3. CASE e \in edits(t.doc)
      <4>1. PICK o \in t.doc : o.edit = e
        BY <3>3 DEF edits
      <4>2. CASE o \in logged(s.gen)
        BY <1>3, <4>1, <4>2 DEF Shown, edits
      <4>3. CASE Fresh(d, o, T)
        BY <1>1, <2>2, <3>1, <4>1, <4>3 DEF Fresh
      <4>4. CASE o \in s.doc /\ o \notin logged(s.gen)
        <5>1. Sole(d, e)
          BY <4>1, <4>4 DEF Once, KnowsOnce
        <5>2. ~Sole(x, e)
          BY <4>1, <4>4, <5>1 DEF Sole
        <5>3. e \in Start \/ e \in edits(session[x].doc) \/ Older(session[x].gen, e)
          BY <2>2, <5>2 DEF Once, KnowsOnce
        <5>4. Older(session[x].gen, e) => Shown(e)
          BY DEF Older, Shown
        <5>5. ASSUME NEW p \in session[x].doc, p.edit = e PROVE Shown(e)
          <6>1. p \in logged(session[x].gen)
            BY <5>2, <5>5 DEF Once, KnowsOnce
          <6>2. session[x].gen \in Gen
            BY Parts
          <6> QED
            BY <5>5, <6>1, <6>2 DEF Shown, edits
        <5> QED
          BY <5>3, <5>4, <5>5 DEF edits
      <4> QED
        BY <1>2, <4>2, <4>3, <4>4
    <3> QED
      BY <3>1, <3>2, <3>3
  <2>3. ASSUME NEW x \in Device, NEW y \in Device, x # y, NEW e \in view'[x] \cap view'[y]
        PROVE  e \in Start \/ Shown(e)
    <3>1. CASE x = d
      BY <2>2, <2>3, <3>1
    <3>2. CASE y = d
      BY <2>2, <2>3, <3>2
    <3>3. CASE x # d /\ y # d
      BY <2>3, <3>3 DEF Once, SharedOnce
    <3> QED
      BY <3>1, <3>2, <3>3
  <2> QED
    BY <2>1, <2>3 DEF SharedOnce
<1>12. ASSUME NEW g \in Gen PROVE Distinct(Pool(g))'
  <2>1. ASSUME NEW o \in t.doc, g = s.gen PROVE o \in Pool(g) \/ Fresh(d, o, T)
    BY <1>2, <2>1, PoolIs
  <2>2. ASSUME NEW o \in Pool(g)' PROVE o \in Pool(g) \/ (o \in t.doc /\ Fresh(d, o, T) /\ g = s.gen)
    <3>1. o \in logged(g)' \/ \E x \in Device : session'[x].gen = g /\ o \in session'[x].doc
      BY <2>2, Zenon DEF Pool
    <3>2. CASE o \in logged(g)'
      BY <1>4, <3>2, PoolIs
    <3>3. ASSUME NEW x \in Device, session'[x].gen = g, o \in session'[x].doc
          PROVE  o \in Pool(g) \/ (o \in t.doc /\ Fresh(d, o, T) /\ g = s.gen)
      BY <1>3, <2>1, <3>3, PoolIs
    <3> QED
      BY <3>1, <3>2, <3>3
  <2>3. ASSUME NEW o \in t.doc, Fresh(d, o, T), g = s.gen, NEW p \in Pool(g)
        PROVE  p.edit # o.edit
    <3>1. CASE p \in logged(g)
      BY <2>3, <3>1 DEF Fresh, edits
    <3>2. ASSUME NEW x \in Device, session[x].gen = g, p \in session[x].doc
          PROVE  p.edit # o.edit
      <4>1. CASE x = d
        BY <2>3, <3>2, <4>1 DEF Fresh, edits
      <4>2. CASE x # d
        <5>1. p \in logged(g) \/ Sole(x, p.edit)
          BY <3>2 DEF Once, KnowsOnce
        <5>2. Sole(x, p.edit) => p.edit # o.edit
          BY <1>8, <2>3, <3>2, <4>2
        <5> QED
          BY <3>1, <5>1, <5>2
      <4> QED
        BY <4>1, <4>2
    <3> QED
      BY <3>1, <3>2, PoolIs
  <2>4. Distinct(Pool(g))
    BY DEF Once, RoomsOnce
  <2>5. \A o \in Pool(g)', p \in Pool(g)' : o.edit = p.edit => o = p
    BY <1>2, <2>2, <2>3, <2>4 DEF Distinct
  <2> QED
    BY <2>5 DEF Distinct
<1> QED
  BY <1>6, <1>9, <1>10, <1>11, <1>12

-----------------------------------------------------------------------------
(* A device's step.                                                         *)

(* What it does is nothing to the others' sessions, files and frames.       *)
LEMMA OthersOnce ==
    ASSUME TypeOK, Once, UNCHANGED past, \A g \in Gen : room'[g].moved = room[g].moved,
           NEW x \in Device, session'[x] = session[x], view'[x] = view[x], disk'[x] = disk[x],
           stored'[x] = stored[x], unwritten'[x] = unwritten[x]
    PROVE  /\ OpenOnce(x, session[x], view[x])' /\ NotYet(x)' /\ FileOnce(x)'
           /\ \A f \in Frame : SentOnce(x, f) => SentOnce(x, f)'
<1>1. OpenOnce(x, session[x], view[x]) /\ NotYet(x) /\ FileOnce(x)
  BY DEF Once
<1>2. OpenOnce(x, session[x], view[x])'
  BY <1>1 DEF OpenOnce, logged
<1>3. NotYet(x)' /\ FileOnce(x)'
  BY <1>1 DEF NotYet, FileOnce, AgreedOnce, logged
<1>4. \A f \in Frame : f.gen \in Gen
  BY DEF Frame
<1>5. \A f \in Frame : SentOnce(x, f) => SentOnce(x, f)'
  BY <1>4 DEF SentOnce
<1> QED
  BY <1>2, <1>3, <1>5

(* A device's step in its room, for its files and frames as they then are.  *)
LEMMA DeviceOnce ==
    ASSUME TypeOK, TypeOK', Once, NEW d \in Device, NEW s, s = session[d],
           NEW t, session'[d] = t, UNCHANGED past, \A g \in Gen : room'[g].moved = room[g].moved,
           typed \subseteq typed',
           \A x \in Device \ {d} : /\ session'[x] = session[x] /\ view'[x] = view[x]
                                   /\ disk'[x] = disk[x] /\ stored'[x] = stored[x]
                                   /\ unwritten'[x] = unwritten[x],
           t.gen = s.gen, s.joined => t.joined, GrownOnce(d, t.doc, typed'),
           view[d] \subseteq view'[d],
           \A e \in view'[d] :
              e \in view[d] \/ e \in edits(t.doc) \/ e \in typed' \ (typed \cup Start),
           OpenOnce(d, t, view'[d]), NotYet(d)', FileOnce(d)',
           \A k \in Socket : \A i \in 1..Len(up'[k]) :
              \/ \E j \in 1..Len(up[k]) : up'[k][i] = up[k][j]
              \/ k[1] = d /\ SentOnce(d, up[k][i])'
    PROVE  Once'
<1>1. /\ MadeOnce' /\ SharedOnce' /\ \A x \in Device : KnowsOnce(x)'
      /\ \A g \in Gen : Distinct(Pool(g))'
  BY MakesOnce
<1>2. \A g \in Gen : RoomOnce(g)'
  BY DEF Once, RoomsOnce, RoomOnce, logged
<1>3. OpenOnce(d, session[d], view[d])'
  BY DEF OpenOnce, logged
<1>4. \A f \in Frame : SentOnce(d, f) => SentOnce(d, f)'
  <2>1. \A f \in Frame : f.gen \in Gen
    BY DEF Frame
  <2>2. s.doc \subseteq t.doc
    BY DEF GrownOnce
  <2> QED
    BY <2>1, <2>2 DEF SentOnce
<1>5. ASSUME NEW x \in Device
      PROVE  /\ OpenOnce(x, session[x], view[x])' /\ NotYet(x)' /\ FileOnce(x)'
             /\ \A f \in Frame : SentOnce(x, f) => SentOnce(x, f)'
  <2>1. CASE x = d
    BY <1>3, <1>4, <2>1
  <2>2. CASE x # d
    BY <2>2, OthersOnce
  <2> QED
    BY <2>1, <2>2
<1>6. WireOnce'
  <2> SUFFICES ASSUME NEW k \in Socket, NEW i \in 1..Len(up'[k])
               PROVE  SentOnce(k[1], up[k][i])'
    BY DEF WireOnce
  <2>1. ASSUME NEW j \in 1..Len(up[k]), up'[k][i] = up[k][j] PROVE SentOnce(k[1], up[k][i])'
    <3>1. up[k][j] \in Frame /\ k[1] \in Device
      BY Parts, ElementOfSeq DEF Socket
    <3>2. SentOnce(k[1], up[k][j])
      BY DEF Once, WireOnce
    <3>3. \A f \in Frame : SentOnce(k[1], f) => SentOnce(k[1], f)'
      BY <1>5, <3>1
    <3>4. PICK f \in Frame : f = up[k][j] /\ SentOnce(k[1], f)
      BY <3>1, <3>2
    <3>5. SentOnce(k[1], f)'
      BY <3>3, <3>4
    <3> QED
      BY <2>1, <3>4, <3>5
  <2> QED
    BY <2>1
<1> QED
  BY <1>1, <1>2, <1>5, <1>6 DEF Once, RoomsOnce

(* A step that sessions and texts are no part of.                           *)
LEMMA QuietOnce ==
    ASSUME TypeOK, TypeOK', Once, UNCHANGED <<past, session, view, stored, unwritten, disk, typed>>,
           \A g \in Gen : room'[g].moved = room[g].moved,
           \A k \in Socket : \A i \in 1..Len(up'[k]) :
              \/ \E j \in 1..Len(up[k]) : up'[k][i] = up[k][j]
              \/ up'[k][i].type = "Sub"
    PROVE  Once'
<1>1. ASSUME NEW x \in Device
      PROVE  /\ OpenOnce(x, session[x], view[x])' /\ NotYet(x)' /\ FileOnce(x)'
             /\ \A f \in Frame : SentOnce(x, f) => SentOnce(x, f)'
  BY OthersOnce
<1>2. ASSUME NEW k \in Socket, NEW i \in 1..Len(up'[k]) PROVE SentOnce(k[1], up[k][i])'
  <2>1. CASE up'[k][i].type = "Sub"
    BY <2>1 DEF SentOnce
  <2>2. ASSUME NEW j \in 1..Len(up[k]), up'[k][i] = up[k][j] PROVE SentOnce(k[1], up[k][i])'
    <3>1. up[k][j] \in Frame /\ k[1] \in Device
      BY Parts, ElementOfSeq DEF Socket
    <3>2. SentOnce(k[1], up[k][j])
      BY DEF Once, WireOnce
    <3>3. \A f \in Frame : SentOnce(k[1], f) => SentOnce(k[1], f)'
      BY <1>1, <3>1
    <3>4. PICK f \in Frame : f = up[k][j] /\ SentOnce(k[1], f)
      BY <3>1, <3>2
    <3>5. SentOnce(k[1], f)'
      BY <3>3, <3>4
    <3> QED
      BY <2>2, <3>4, <3>5
  <2> QED
    BY <2>1, <2>2
<1>3. RoomsOnce'
  BY DEF Once, RoomsOnce, RoomOnce, Distinct, Pool, logged
<1>4. SharedOnce' /\ MadeOnce' /\ \A x \in Device : KnowsOnce(x)'
  <2>1. SharedOnce /\ MadeOnce /\ \A x \in Device : KnowsOnce(x)
    BY DEF Once
  <2>2. SharedOnce'
    BY <2>1 DEF SharedOnce, Shown, logged
  <2>3. MadeOnce'
    BY <2>1 DEF MadeOnce, logged, Insertion
  <2>4. \A x \in Device : KnowsOnce(x)'
    BY <2>1 DEF KnowsOnce, logged, Older, Sole
  <2> QED
    BY <2>2, <2>3, <2>4
<1> QED
  BY <1>1, <1>2, <1>3, <1>4 DEF Once, WireOnce

-----------------------------------------------------------------------------
(* The hub's steps.                                                         *)

(* Who is in a room has what it starts with.                                *)
LEMMA JoinedHasLog ==
    ASSUME TypeOK, Safe, Once, NEW d \in Device, session[d].joined
    PROVE  /\ session[d].on /\ past[session[d].gen] # <<>>
           /\ past[session[d].gen][1] \subseteq session[d].doc
<1> DEFINE s == session[d]
           log == past[s.gen]
<1>1. s.on
  <2>1. ~Off.joined
    BY DEF Off, Opened
  <2> QED
    BY <2>1 DEF Once, NotYet
<1>2. log \in Seq(SUBSET Op) /\ s \in Session /\ s.seq \in Nat
  BY Parts, SessionFields
<1>3. s.seq >= 1 /\ s.seq <= Len(log) /\ first(log, s.seq) \subseteq s.doc
  BY <1>1 DEF Safe, SessionOK, LocalOK, PlaceOK
<1>4. log[1] \subseteq first(log, s.seq)
  BY <1>2, <1>3 DEF first
<1>5. log # <<>>
  BY <1>2, <1>3
<1> QED
  BY <1>1, <1>3, <1>4, <1>5

(* A room that has not moved is the last one.                               *)
LEMMA LastRoom ==
    ASSUME Once, NEW g \in Gen, ~room[g].moved, NEW h \in Gen, g < h
    PROVE  past[h] = <<>>
BY DEF Once, RoomsOnce, RoomOnce

(* A log goes on.                                                           *)
LEMMA LogParts ==
    ASSUME TypeOK, NEW g \in Gen, NEW ops \in SUBSET Op,
           past' = [past EXCEPT ![g] = Append(@, ops)]
    PROVE  /\ \A h \in Gen : h # g => past'[h] = past[h] /\ logged(h)' = logged(h)
           /\ logged(g)' = logged(g) \cup ops /\ past'[g] # <<>>
           /\ past[g] # <<>> => past'[g][1] = past[g][1] /\ past[g][1] \subseteq logged(g)
           /\ past[g] = <<>> => past'[g][1] = ops /\ logged(g) = {}
<1>1. past[g] \in Seq(SUBSET Op) /\ past'[g] = Append(past[g], ops)
  BY Parts DEF TypeOK
<1>2. \A h \in Gen : h # g => past'[h] = past[h]
  BY DEF TypeOK
<1>3. past'[g] # <<>>
  BY <1>1, LogAdd
<1>4. PICK log, longer : /\ log \in Seq(SUBSET Op) /\ log = past[g]
                         /\ longer = Append(log, ops) /\ past'[g] = longer
  BY <1>1
<1>5. /\ merged(longer) = merged(log) \cup ops
      /\ log # <<>> => longer[1] = log[1] /\ log[1] \subseteq merged(log)
      /\ log = <<>> => longer[1] = ops /\ merged(log) = {}
  <2>1. /\ merged(Append(log, ops)) = merged(log) \cup ops
        /\ log # <<>> => Append(log, ops)[1] = log[1] /\ log[1] \subseteq merged(log)
        /\ log = <<>> => Append(log, ops)[1] = ops /\ merged(log) = {}
    <3>1. log \in Seq(SUBSET Op)
      BY <1>4
    <3> QED
      BY <3>1, MergedAppend
  <2>2. longer = Append(log, ops)
    BY <1>4
  <2> QED
    BY <2>1, <2>2, Zenon
<1>6. logged(g) = merged(log) /\ logged(g)' = merged(longer)
  BY <1>4 DEF logged
<1>7. \A h \in Gen : h # g => logged(h)' = logged(h)
  BY <1>2 DEF logged
<1> QED
  BY <1>2, <1>3, <1>4, <1>5, <1>6, <1>7

(* What is logged is news to nobody who made it.                            *)
LEMMA LogKeeps ==
    ASSUME TypeOK, Once, NEW g \in Gen, NEW ops \in SUBSET Op,
           past' = [past EXCEPT ![g] = Append(@, ops)],
           UNCHANGED <<session, view, disk, stored, unwritten>>,
           \A h \in Gen : room[h].moved => room'[h].moved,
           \A x \in Device : \A o \in ops : o.by = x =>
              \/ past[g] = <<>> /\ ~(session[x].joined /\ session[x].gen = g)
              \/ session[x].joined /\ session[x].gen = g /\ o \in session[x].doc,
           \A k \in Socket : \A i \in 1..Len(up'[k]) :
              \E j \in 1..Len(up[k]) : up'[k][i] = up[k][j]
    PROVE  /\ WireOnce'
           /\ \A x \in Device : OpenOnce(x, session[x], view[x])' /\ NotYet(x)' /\ FileOnce(x)'
<1>1. /\ \A h \in Gen : h # g => past'[h] = past[h] /\ logged(h)' = logged(h)
      /\ logged(g)' = logged(g) \cup ops /\ past'[g] # <<>>
      /\ past[g] # <<>> => past'[g][1] = past[g][1] /\ past[g][1] \subseteq logged(g)
      /\ past[g] = <<>> => past'[g][1] = ops /\ logged(g) = {}
  BY LogParts
<1>2. ASSUME NEW x \in Device PROVE OpenOnce(x, session[x], view[x])'
  <2> DEFINE s == session[x]
  <2>1. OpenOnce(x, s, view[x]) /\ s.gen \in Gen
    BY Parts DEF Once
  <2>2. s.joined => \A o \in logged(s.gen)' : o.by = x => o \in s.doc
    BY <1>1, <2>1 DEF OpenOnce
  <2>3. \A h \in Gen : h > s.gen \/ (h = s.gen /\ ~s.joined) =>
           \A o \in logged(h)' : o.by = x => o \in past'[h][1]
    <3> TAKE h \in Gen
    <3> HAVE h > s.gen \/ (h = s.gen /\ ~s.joined)
    <3>1. \A o \in logged(h) : o.by = x => o \in past[h][1]
      BY <2>1 DEF OpenOnce
    <3>2. CASE h # g
      BY <1>1, <3>1, <3>2
    <3>3. CASE h = g
      <4>1. ~(s.joined /\ s.gen = g)
        BY <2>1, <3>3 DEF Gen
      <4> QED
        BY <1>1, <3>1, <3>3, <4>1
    <3> QED
      BY <3>2, <3>3
  <2> QED
    BY <2>1, <2>2, <2>3 DEF OpenOnce
<1>3. ASSUME NEW x \in Device PROVE NotYet(x)' /\ FileOnce(x)'
  <2>1. NotYet(x) /\ FileOnce(x)
    BY DEF Once
  <2>2. \A h \in Gen : edits(logged(h)) \subseteq edits(logged(h)')
    BY <1>1 DEF edits
  <2>3. ASSUME NEW v \in Agreed \cup {None}, AgreedOnce(x, v) PROVE AgreedOnce(x, v)'
    <3>1. v # None => v.gen \in Gen
      BY DEF Agreed
    <3>2. v # None => edits(logged(v.gen)) \subseteq edits(logged(v.gen)')
      BY <2>2, <3>1
    <3>3. v # None => v.text \subseteq edits(logged(v.gen)')
      BY <2>3, <3>2 DEF AgreedOnce
    <3> QED
      BY <2>3, <3>3 DEF AgreedOnce, edits
  <2>4. AgreedOnce(x, stored[x])' /\ AgreedOnce(x, unwritten[x])'
    <3>1. PICK v \in Agreed \cup {None}, w \in Agreed \cup {None} :
             v = stored[x] /\ w = unwritten[x] /\ AgreedOnce(x, v) /\ AgreedOnce(x, w)
      BY <2>1, Parts DEF FileOnce
    <3>2. AgreedOnce(x, v)' /\ AgreedOnce(x, w)'
      BY <2>3, <3>1
    <3>3. stored'[x] = v /\ unwritten'[x] = w
      BY <3>1
    <3> QED
      BY <3>2, <3>3
  <2> QED
    BY <2>1, <2>4 DEF NotYet, FileOnce
<1>4. WireOnce'
  <2> SUFFICES ASSUME NEW k \in Socket, NEW i \in 1..Len(up'[k])
               PROVE  SentOnce(k[1], up[k][i])'
    BY DEF WireOnce
  <2>1. PICK j \in 1..Len(up[k]) : up'[k][i] = up[k][j]
    OBVIOUS
  <2>2. up[k][j] \in Frame
    BY Parts, ElementOfSeq
  <2>3. PICK f \in Frame : f = up[k][j] /\ SentOnce(k[1], f)
    BY <2>2 DEF Once, WireOnce
  <2>4. f.gen \in Gen
    BY DEF Frame
  <2>5. past[f.gen] # <<>> => past'[f.gen] # <<>>
    BY <1>1, <2>4
  <2>6. SentOnce(k[1], f)'
    BY <2>3, <2>4, <2>5 DEF SentOnce
  <2> QED
    BY <2>1, <2>3, <2>6
<1> QED
  BY <1>2, <1>3, <1>4

(* What is logged, some document or log has.                                *)
LEMMA LogOnce ==
    ASSUME TypeOK, Once, NEW g \in Gen, NEW ops \in SUBSET Op,
           past' = [past EXCEPT ![g] = Append(@, ops)], UNCHANGED <<session, view, typed>>,
           NEW h \in Gen, ops \cup Pool(g) \subseteq Pool(h)
    PROVE  /\ MadeOnce' /\ SharedOnce' /\ \A x \in Device : KnowsOnce(x)'
           /\ \A j \in Gen : Distinct(Pool(j))'
<1>1. /\ \A j \in Gen : j # g => logged(j)' = logged(j)
      /\ logged(g)' = logged(g) \cup ops
  BY LogParts
<1>2. \A o \in ops : o \in logged(h) \/ \E x \in Device : o \in session[x].doc
  BY PoolIs
<1>3. MadeOnce'
  <2>1. MadeOnce
    BY DEF Once
  <2>2. \A j \in Gen : \A o \in logged(j)' : Insertion(o)
    BY <1>1, <1>2, <2>1 DEF MadeOnce
  <2> QED
    BY <2>1, <2>2 DEF MadeOnce, Insertion
<1>4. \A x \in Device : \A e : Sole(x, e) => Sole(x, e)'
  BY <1>1, <1>2 DEF Sole
<1>5. \A j \in Gen : edits(logged(j)) \subseteq edits(logged(j)')
  BY <1>1 DEF edits
<1>6. \A e : (Shown(e) => Shown(e)') /\ \A j \in Gen : Older(j, e) => Older(j, e)'
  BY <1>5 DEF Shown, Older, edits
<1>7. SharedOnce'
  BY <1>6 DEF Once, SharedOnce
<1>8. ASSUME NEW x \in Device PROVE KnowsOnce(x)'
  <2>1. KnowsOnce(x) /\ session[x].gen \in Gen
    BY Parts DEF Once
  <2>2. \A e \in view[x] : \/ e \in Start \/ e \in edits(session[x].doc)
                           \/ Older(session[x].gen, e)' \/ Sole(x, e)'
    BY <1>4, <1>6, <2>1 DEF KnowsOnce
  <2>3. \A o \in session[x].doc : o \in logged(session[x].gen)' \/ Sole(x, o.edit)'
    BY <1>1, <1>4, <2>1 DEF KnowsOnce
  <2> QED
    BY <2>2, <2>3 DEF KnowsOnce
<1>9. ASSUME NEW j \in Gen PROVE Distinct(Pool(j))'
  <2>1. Distinct(Pool(j)) /\ Distinct(Pool(h))
    BY DEF Once, RoomsOnce
  <2>2. \A o : o \in Pool(j)' <=> (o \in logged(j)' \/ \E x \in Device : session[x].gen = j /\ o \in session[x].doc)
    BY Zenon DEF Pool
  <2>3. j # g => Pool(j)' \subseteq Pool(j)
    BY <1>1, <2>2, PoolIs
  <2>4. j = g => Pool(j)' \subseteq Pool(h)
    BY <1>1, <2>2, PoolIs
  <2>5. Pool(j)' \subseteq Pool(j) \/ Pool(j)' \subseteq Pool(h)
    BY <2>3, <2>4
  <2> QED
    BY <2>1, <2>5 DEF Distinct
<1> QED
  BY <1>3, <1>7, <1>8, <1>9

(* The first text.                                                          *)
LEMMA SeedsOnce ==
    ASSUME TypeOK, Once, NEW g \in Gen, NEW d \in Device, NEW ops \in SUBSET Op,
           past' = [past EXCEPT ![g] = Append(@, ops)], UNCHANGED <<session, view, typed>>,
           \A h \in Gen : past[h] = <<>>, \A x \in Device : session[x].doc = {},
           SeedOnce(d, ops), edits(ops) \subseteq view[d]
    PROVE  /\ MadeOnce' /\ SharedOnce' /\ \A x \in Device : KnowsOnce(x)'
           /\ \A j \in Gen : Distinct(Pool(j))'
<1>1. \A h \in Gen : logged(h) = {} /\ logged(h)' = (IF h = g THEN ops ELSE {})
  <2>1. \A h \in Gen : logged(h) = {}
    BY NothingMerged DEF logged
  <2>2. /\ \A h \in Gen : h # g => logged(h)' = logged(h)
        /\ logged(g)' = logged(g) \cup ops
    BY LogParts
  <2>3. ASSUME NEW h \in Gen PROVE logged(h)' = (IF h = g THEN ops ELSE {})
    <3>1. CASE h = g
      BY <2>1, <2>2, <3>1
    <3>2. CASE h # g
      BY <2>1, <2>2, <3>2
    <3> QED
      BY <3>1, <3>2
  <2> QED
    BY <2>1, <2>3
<1>2. MadeOnce'
  <2>1. \A o \in ops : Insertion(o)
    BY DEF Once, MadeOnce, SeedOnce, Insertion, edits
  <2>2. \A j \in Gen : \A o \in logged(j)' : Insertion(o)
    BY <1>1, <2>1
  <2> QED
    BY <2>2 DEF Once, MadeOnce, Insertion
<1>3. \A e : ~Shown(e)
  BY <1>1 DEF Shown, edits
<1>4. SharedOnce'
  BY <1>3 DEF Once, SharedOnce
<1>5. ASSUME NEW x \in Device PROVE KnowsOnce(x)'
  <2>1. ASSUME NEW e \in view[x] PROVE e \in Start \/ Sole(x, e)'
    <3>1. CASE x = d
      BY <1>1, <3>1 DEF Sole, SeedOnce
    <3>2. CASE x # d /\ e \in edits(ops)
      <4>1. e \in view[d]
        BY <3>2
      <4> QED
        BY <1>3, <2>1, <3>2, <4>1 DEF Once, SharedOnce
    <3>3. CASE e \notin edits(ops)
      BY <1>1, <3>3 DEF Sole, edits
    <3> QED
      BY <3>1, <3>2, <3>3
  <2> QED
    BY <2>1 DEF KnowsOnce
<1>6. ASSUME NEW j \in Gen PROVE Distinct(Pool(j))'
  <2>1. \A o \in Pool(j)' : o \in ops
    BY <1>1 DEF Pool
  <2> QED
    BY <2>1 DEF Distinct, SeedOnce
<1> QED
  BY <1>2, <1>4, <1>5, <1>6

(* What the hub takes a frame from loses the frame.                         *)
LEMMA TakenUp ==
    ASSUME TypeOK, NEW k \in Socket, up[k] # <<>>, up' = [up EXCEPT ![k] = Tail(@)]
    PROVE  \A c \in Socket : \A i \in 1..Len(up'[c]) :
              \E j \in 1..Len(up[c]) : up'[c][i] = up[c][j]
<1> SUFFICES ASSUME NEW c \in Socket, NEW i \in 1..Len(up'[c])
             PROVE  \E j \in 1..Len(up[c]) : up'[c][i] = up[c][j]
  OBVIOUS
<1>1. up[k] \in Seq(Frame)
  BY Parts
<1>2. CASE c = k
  <2>1. up'[k] = Tail(up[k])
    BY DEF TypeOK
  <2> QED
    BY <1>1, <1>2, <2>1, TailAt
<1>3. CASE c # k
  BY <1>3 DEF TypeOK
<1> QED
  BY <1>2, <1>3

(* The frame the hub takes is as its device sent it.                        *)
LEMMA TakesOnce ==
    ASSUME TypeOK, Safe, Once, NEW k \in Socket, NEW types, Takes(k, types)
    PROVE  /\ k[1] \in Device /\ SentOnce(k[1], Head(up[k]))
           /\ \A c \in Socket : \A i \in 1..Len(up'[c]) :
                 \E j \in 1..Len(up[c]) : up'[c][i] = up[c][j]
<1>1. up[k] \in Seq(Frame) /\ up[k] # <<>> /\ up' = [up EXCEPT ![k] = Tail(@)]
  BY Parts, TakesParts
<1>2. 1 \in 1..Len(up[k]) /\ Head(up[k]) = up[k][1]
  BY <1>1, TailAt
<1> QED
  BY <1>1, <1>2, TakenUp DEF Once, WireOnce, Socket

(* An update, or the first text.                                            *)
LEMMA LoggedOnce ==
    ASSUME TypeOK, Safe, Once, NEW k \in Socket,
           NEW type \in {"Seed", "Update"}, TakesLive(k, type),
           NEW m, NEW ops \in SUBSET Op, ops = Head(up[k]).ops,
           type = "Seed" => ~exists(room[Head(up[k]).gen]),
           Logged(k, Head(up[k]).gen, m, ops)
    PROVE  Once'
<1> DEFINE f == Head(up[k])
           g == f.gen
           d == k[1]
<1>1. /\ Takes(k, {type}) /\ ~room[g].moved
      /\ UNCHANGED <<session, view, disk, stored, unwritten, typed>>
  BY DEF TakesLive, Takes, file
<1>2. f \in Frame /\ g \in Gen /\ f.type = type
  BY <1>1, TakesParts
<1>3. /\ d \in Device /\ SentOnce(d, f)
      /\ \A c \in Socket : \A i \in 1..Len(up'[c]) :
            \E j \in 1..Len(up[c]) : up'[c][i] = up[c][j]
  BY <1>1, TakesOnce
<1>4. past' = [past EXCEPT ![g] = Append(@, ops)]
  BY DEF Logged, Log
<1>5. \A h \in Gen : room'[h].moved = room[h].moved
  <2>1. \A h \in Gen : room[h] \in Row
    BY Parts
  <2>2. room' = [room EXCEPT ![g] = insert(@, ops, names + 1)]
    BY DEF Logged, Log
  <2> QED
    BY <1>2, <2>1, <2>2 DEF insert, Row
<1>6. /\ \A h \in Gen : h # g => past'[h] = past[h] /\ logged(h)' = logged(h)
      /\ past[g] # <<>> => past'[g][1] = past[g][1]
      /\ past[g] = <<>> => past'[g][1] = ops
  BY <1>2, <1>4, LogParts
<1>7. \A h \in Gen : g < h => past[h] = <<>>
  BY <1>1, <1>2, LastRoom
<1>8. \A h \in Gen : RoomOnce(h)
  BY DEF Once, RoomsOnce
<1> HIDE DEF f, g, d
<1>9. CASE type = "Update"
  <2>1. /\ past[g] # <<>> /\ \A o \in ops : o.by = d
        /\ session[d].joined /\ session[d].gen = g /\ ops \subseteq session[d].doc
    BY <1>1, <1>2, <1>3, <1>9 DEF SentOnce, f, g
  <2>2. \A x \in Device : \A o \in ops : o.by = x =>
           session[x].joined /\ session[x].gen = g /\ o \in session[x].doc
    BY <2>1
  <2>3. ops \cup Pool(g) \subseteq Pool(g)
    BY <1>3, <2>1, PoolIs
  <2>4. /\ WireOnce'
        /\ \A x \in Device : OpenOnce(x, session[x], view[x])' /\ NotYet(x)' /\ FileOnce(x)'
    BY <1>1, <1>2, <1>3, <1>4, <1>5, <2>2, LogKeeps
  <2>5. /\ MadeOnce' /\ SharedOnce' /\ \A x \in Device : KnowsOnce(x)'
        /\ \A j \in Gen : Distinct(Pool(j))'
    BY <1>1, <1>2, <1>4, <2>3, LogOnce
  <2>6. ASSUME NEW h \in Gen PROVE RoomOnce(h)'
    <3>1. g < h \/ ~(g < h)
      OBVIOUS
    <3>2. CASE g < h
      <4>1. h # g
        BY <1>2, <3>2 DEF Gen
      <4>2. past'[h] = <<>>
        BY <1>6, <1>7, <3>2, <4>1
      <4> QED
        BY <4>2 DEF RoomOnce
    <3>3. CASE ~(g < h)
      <4>1. \A j \in Gen : j < h => j # g
        BY <1>2, <3>3 DEF Gen
      <4>2. past'[h] # <<>> => past[h] # <<>> /\ past'[h][1] = past[h][1]
        BY <1>6, <2>1
      <4>3. \A j \in Gen : j < h => logged(j)' = logged(j)
        BY <1>6, <4>1
      <4> QED
        BY <1>5, <1>8, <4>2, <4>3 DEF RoomOnce, edits
    <3> QED
      BY <3>2, <3>3
  <2> QED
    BY <2>4, <2>5, <2>6 DEF Once, RoomsOnce
<1>10. CASE type = "Seed"
  <2>1. /\ g = 0 /\ SeedOnce(d, ops) /\ Start \subseteq edits(ops)
        /\ edits(ops) \subseteq view[d]
    BY <1>2, <1>3, <1>10 DEF SentOnce, f, g
  <2>2. past[g] = <<>>
    <3>1. RowIsLog(room[g], past[g])
      BY <1>1, <1>2 DEF Safe, RoomOK
    <3> QED
      BY <1>10, <3>1 DEF exists, RowIsLog, f, g
  <2>3. \A h \in Gen : past[h] = <<>>
    <3>1. \A h \in Gen : h # g => g < h
      BY <2>1 DEF Gen
    <3> QED
      BY <1>7, <2>2, <3>1
  <2>4. \A x \in Device : ~session[x].joined /\ session[x].doc = {}
    <3>1. \A x \in Device : ~session[x].joined
      BY <2>3, Parts, JoinedHasLog
    <3> QED
      BY <3>1 DEF Once, OpenOnce
  <2>5. /\ WireOnce'
        /\ \A x \in Device : OpenOnce(x, session[x], view[x])' /\ NotYet(x)' /\ FileOnce(x)'
    <3>1. \A x \in Device : \A o \in ops : o.by = x =>
             \/ past[g] = <<>> /\ ~(session[x].joined /\ session[x].gen = g)
             \/ session[x].joined /\ session[x].gen = g /\ o \in session[x].doc
      BY <2>2, <2>4
    <3> QED
      BY <1>1, <1>2, <1>3, <1>4, <1>5, <3>1, LogKeeps, ZenonT(60)
  <2>6. /\ MadeOnce' /\ SharedOnce' /\ \A x \in Device : KnowsOnce(x)'
        /\ \A j \in Gen : Distinct(Pool(j))'
    BY <1>1, <1>2, <1>3, <1>4, <2>1, <2>3, <2>4, SeedsOnce
  <2>7. ASSUME NEW h \in Gen PROVE RoomOnce(h)'
    <3>1. CASE h = g
      <4>1. \A j \in Gen : ~(j < h)
        BY <2>1, <3>1 DEF Gen
      <4> QED
        BY <1>6, <2>1, <2>2, <3>1, <4>1 DEF RoomOnce, edits
    <3>2. CASE h # g
      BY <1>6, <2>3, <3>2 DEF RoomOnce
    <3> QED
      BY <3>1, <3>2
  <2> QED
    BY <2>5, <2>6, <2>7 DEF Once, RoomsOnce
<1> QED
  BY <1>9, <1>10

(* A room's text goes to its successor.                                     *)
LEMMA RotatedOnce ==
    ASSUME NEW n \in Nat, TypeTo(n), TypeOK, Safe, Once, NEW k \in Socket, HubRotate(k),
           rotates(room[Head(up[k]).gen], room[Head(up[k]).gen + 1], Head(up[k]).upto)
    PROVE  Once'
<1> DEFINE f == Head(up[k])
           g == f.gen
           t == g + 1
           row == room[g]
           log == past[g]
           ops == f.ops
<1>1. /\ Takes(k, {"Rotate"}) /\ ~row.moved
      /\ UNCHANGED <<session, view, disk, stored, unwritten, typed>>
  BY DEF HubRotate, TakesLive, Takes, file
<1>2. /\ f \in Frame /\ g \in Gen /\ f.type = "Rotate" /\ CopyOK(f, log)
      /\ SentOnce(k[1], f)
      /\ \A c \in Socket : \A i \in 1..Len(up'[c]) :
            \E j \in 1..Len(up[c]) : up'[c][i] = up[c][j]
  BY <1>1, TakesParts, TakesOnce
<1>3. t \in Gen /\ t # g /\ ops \in SUBSET Op /\ \A h \in Gen : h < t => h = g \/ h < g
  <2>1. f \in FrameTo(n)
    BY <1>1, TakesType
  <2>2. g # MaxGen /\ ops \in SUBSET Op
    BY <1>2, <2>1 DEF FrameTo, Frame
  <2> QED
    BY <1>2, <2>2, RoomAssumption DEF Gen
<1>4. row \in Row /\ log \in Seq(SUBSET Op) /\ RowIsLog(row, log) /\ log # <<>>
  BY <1>1, <1>2, Parts DEF Safe, RoomOK, SentOnce
<1>5. \A h \in Gen : g < h => past[h] = <<>>
  BY <1>1, <1>2, LastRoom
<1>6. past[t] = <<>>
  BY <1>2, <1>3, <1>5 DEF Gen
<1>7. ops = logged(g)
  <2>1. head(row) = f.upto /\ head(row) = Len(log)
    BY <1>4, RowFields DEF rotates
  <2>2. merged(log) = first(log, Len(log)) /\ merged(log) \in SUBSET Op
    BY <1>4, MergedIsFirst DEF merged
  <2>3. ops = rebuild(merged(log))
    BY <1>2, <2>1, <2>2 DEF CopyOK
  <2>4. \A o \in merged(log) : ~o.cut
    BY <1>2 DEF Once, MadeOnce, Insertion, logged
  <2> QED
    BY <2>2, <2>3, <2>4, PlainText DEF logged
<1>8. log[1] \subseteq ops
  <2>1. \A nothing \in SUBSET Op : log # <<>> => log[1] \subseteq merged(log)
    BY <1>4, MergedAppend
  <2>2. {} \in SUBSET Op
    OBVIOUS
  <2> QED
    BY <1>4, <1>7, <2>1, <2>2 DEF logged
<1>9. past' = [past EXCEPT ![t] = Append(@, ops)]
  BY DEF HubRotate
<1>10. \A h \in Gen : /\ room[h].moved => room'[h].moved
                      /\ h = g => room'[h].moved
  <2>1. \A h \in Gen : room[h] \in Row
    BY Parts
  <2>2. room' = [room EXCEPT ![g] = markMoved(row), ![t] = insert(room[t], ops, names + 1)]
    BY <1>3, SMTT(40) DEF HubRotate, TypeOK
  <2>3. markMoved(row).moved /\ insert(room[t], ops, names + 1).moved = room[t].moved
    BY <1>3, <1>4, <2>1 DEF markMoved, insert, Row
  <2>4. \A h \in Gen : room'[h] = (IF h = t THEN insert(room[t], ops, names + 1)
                                   ELSE IF h = g THEN markMoved(row) ELSE room[h])
    BY <1>3, <2>2 DEF TypeOK
  <2> QED
    BY <1>3, <2>3, <2>4
<1>11. /\ \A h \in Gen : h # t => past'[h] = past[h] /\ logged(h)' = logged(h)
       /\ past'[t][1] = ops
  BY <1>3, <1>6, <1>9, LogParts
<1> HIDE DEF f, t, ops
<1>12. \A x \in Device : session[x].gen = t => ~session[x].joined /\ session[x].doc = {}
  BY <1>6, JoinedHasLog DEF Once, OpenOnce
<1>13. /\ WireOnce'
       /\ \A x \in Device : OpenOnce(x, session[x], view[x])' /\ NotYet(x)' /\ FileOnce(x)'
  BY <1>1, <1>2, <1>3, <1>6, <1>9, <1>10, <1>12, LogKeeps
<1>14. ops \cup Pool(t) \subseteq Pool(g)
  <2>1. logged(t) = {}
    BY <1>6, NothingMerged DEF logged
  <2> QED
    BY <1>7, <1>12, <2>1, PoolIs
<1>15. /\ MadeOnce' /\ SharedOnce' /\ \A x \in Device : KnowsOnce(x)'
       /\ \A j \in Gen : Distinct(Pool(j))'
  BY <1>1, <1>2, <1>3, <1>9, <1>14, LogOnce
<1>16. \A h \in Gen : RoomOnce(h)
  BY DEF Once, RoomsOnce
<1>17. ASSUME NEW h \in Gen PROVE RoomOnce(h)'
  <2>1. CASE h = t
    <3>1. Start \subseteq edits(log[1]) /\ edits(log[1]) \subseteq edits(ops)
      BY <1>2, <1>4, <1>8, <1>16 DEF RoomOnce, edits
    <3>2. ASSUME NEW j \in Gen, j < t
          PROVE  room'[j].moved /\ edits(logged(j)') \subseteq edits(ops)
      <4>1. CASE j = g
        BY <1>3, <1>7, <1>10, <1>11, <4>1
      <4>2. CASE j # g
        <5>1. j < g
          BY <1>3, <3>2, <4>2
        <5>2. room[j].moved /\ edits(logged(j)) \subseteq edits(log[1])
          BY <1>2, <1>4, <1>16, <5>1 DEF RoomOnce
        <5>3. j # t
          BY <3>2, <1>3 DEF Gen
        <5>4. logged(j)' = logged(j)
          BY <1>11, <5>3
        <5> QED
          BY <1>10, <3>1, <5>2, <5>4
      <4> QED
        BY <4>1, <4>2
    <3> QED
      BY <1>11, <2>1, <3>1, <3>2 DEF RoomOnce, edits
  <2>2. CASE h # t /\ past[h] = <<>>
    BY <1>11, <2>2 DEF RoomOnce
  <2>3. CASE h # t /\ past[h] # <<>>
    <3>1. ~(g < h)
      BY <1>5, <2>3
    <3>2. \A j \in Gen : j < h => j # t
      BY <1>2, <3>1 DEF Gen, t
    <3> QED
      BY <1>10, <1>11, <1>16, <2>3, <3>2 DEF RoomOnce, edits
  <2> QED
    BY <2>1, <2>2, <2>3
<1> QED
  BY <1>13, <1>15, <1>17 DEF Once, RoomsOnce

(* Whatever the hub does.                                                   *)
LEMMA HubOnce ==
    ASSUME NEW n \in Nat, TypeTo(n), TypeOK, TypeOK', Safe, Once, NEW k \in Socket,
           HubStep(k) \/ HubOver(k)
    PROVE  Once'
<1> DEFINE f == Head(up[k])
<1>1. PICK types : /\ Takes(k, types)
                   /\ UNCHANGED <<session, view, disk, stored, unwritten, typed>>
  BY DEF HubStep, HubSub, HubUnsub, HubIgnores, HubSendsMoved, HubSeed, HubUpdate,
         HubSnapshot, HubRotate, HubOver, TakesLive, Takes, file
<1>2. /\ \A c \in Socket : \A i \in 1..Len(up'[c]) :
            \E j \in 1..Len(up[c]) : up'[c][i] = up[c][j]
      /\ f \in Frame /\ f.gen \in Gen /\ f.type \in types
  BY <1>1, TakesParts, TakesOnce
<1>3. ASSUME UNCHANGED past, \A g \in Gen : room'[g].moved = room[g].moved PROVE Once'
  BY <1>1, <1>2, <1>3, QuietOnce
<1>4. CASE UNCHANGED hub
  BY <1>3, <1>4 DEF hub
<1>5. CASE HubSnapshot(k)
  <2>1. room' = [room EXCEPT ![f.gen] = IF exists(@) THEN compact(@, f.upto, f.ops) ELSE @]
    BY <1>5 DEF HubSnapshot
  <2>2. \A g \in Gen : room[g] \in Row
    BY Parts
  <2>3. \A row \in Row : compact(row, f.upto, f.ops).moved = row.moved
    BY DEF compact, Row
  <2>4. \A g \in Gen : room'[g].moved = room[g].moved
    BY <1>2, <2>1, <2>2, <2>3 DEF TypeOK
  <2> QED
    BY <1>3, <1>5, <2>4 DEF HubSnapshot
<1>6. CASE HubSeed(k) /\ seeds(room[f.gen])
  <2>1. TakesLive(k, "Seed") /\ Logged(k, f.gen, 0, f.ops) /\ ~exists(room[f.gen])
    BY <1>6 DEF HubSeed, seeds
  <2>2. f.ops \in SUBSET Op
    BY <1>2, <2>1 DEF TakesLive, Takes, Frame
  <2> QED
    BY <2>1, <2>2, LoggedOnce
<1>7. CASE HubUpdate(k)
  <2>1. TakesLive(k, "Update") /\ Logged(k, f.gen, f.n, f.ops)
    BY <1>7 DEF HubUpdate
  <2>2. f.ops \in SUBSET Op
    BY <1>2, <2>1 DEF TakesLive, Takes, Frame
  <2> QED
    BY <2>1, <2>2, LoggedOnce
<1>8. CASE HubRotate(k) /\ rotates(room[f.gen], room[f.gen + 1], f.upto)
  BY <1>8, RotatedOnce
<1> QED
  BY <1>4, <1>5, <1>6, <1>7, <1>8
     DEF HubStep, HubSub, HubUnsub, HubIgnores, HubSendsMoved, HubSeed, HubRotate, HubOver

-----------------------------------------------------------------------------
(* A session goes on in its room.                                           *)

(* What a session is to its room and its editor.                            *)
Alike(s, t) ==
    /\ t.on = s.on /\ t.gen = s.gen /\ t.known = s.known /\ t.joined = s.joined
    /\ t.bound = s.bound /\ t.from = s.from /\ t.seed = s.seed

(* It only hands out what is in W, again or for the first time.             *)
Hands(s, W, t, out) ==
    /\ Alike(s, t) /\ t.doc = s.doc /\ owed(t) \subseteq W
    /\ \A i \in 1..Len(out) :
          out[i].type = "Update" /\ out[i].gen = s.gen /\ out[i].ops \subseteq W

(* sendUpdate.                                                              *)
LEMMA ShipHands ==
    ASSUME NEW s \in Session, NEW ops, NEW W, owed(s) \cup ops \subseteq W
    PROVE  Hands(s, W, ship(s, ops).session, ship(s, ops).out)
<1> DEFINE u == [n |-> s.sent + 1, ops |-> ops]
           t == [s EXCEPT !.sent = s.sent + 1, !.unacked = @ \cup {u}]
           f == Update(s.gen, s.sent + 1, ops)
<1>1. ship(s, ops) = [session |-> t, out |-> IF s.online THEN <<f>> ELSE <<>>]
  BY DEF ship
<1>2. /\ Alike(s, t) /\ t.doc = s.doc /\ t.pending = s.pending
      /\ t.unacked = s.unacked \cup {u}
  BY DEF Alike, Session
<1>3. outgoing(t.unacked) = outgoing(s.unacked) \cup ops
  <2>1. \A v : outgoing({v}) = v.ops
    BY OutgoingOf
  <2>2. outgoing({u}) = ops
    <3>1. u.ops = ops
      OBVIOUS
    <3> HIDE DEF u
    <3> QED
      BY <2>1, <3>1
  <2> HIDE DEF t, u
  <2> QED
    BY <1>2, <2>2, OutgoingOf
<1>4. f.type = "Update" /\ f.gen = s.gen /\ f.ops = ops
  BY DEF Update
<1> HIDE DEF t, f
<1>5. owed(t) \subseteq W
  BY <1>2, <1>3 DEF owed
<1>6. \A out \in {<<f>>, <<>>} : \A i \in 1..Len(out) : out[i] = f
  OBVIOUS
<1> QED
  BY <1>1, <1>2, <1>4, <1>5, <1>6 DEF Hands

(* takeUnacked and send again.                                              *)
LEMMA ResendHands ==
    ASSUME NEW s \in Session
    PROVE  Hands(s, owed(s), resend(s).session, resend(s).out)
<1>1. CASE s.unacked = {}
  BY <1>1 DEF resend, Hands, Alike
<1>2. CASE s.unacked # {}
  <2> DEFINE r == [s EXCEPT !.unacked = {}]
             ops == outgoing(s.unacked)
  <2>1. /\ r \in Session /\ Alike(s, r) /\ r.doc = s.doc /\ r.pending = s.pending
        /\ r.unacked = {}
    BY DEF Session, Alike
  <2>2. resend(s) = ship(r, ops)
    BY <1>2 DEF resend
  <2> HIDE DEF r, ops
  <2>3. owed(r) \cup ops \subseteq owed(s)
    BY <2>1, OutgoingOf DEF owed, ops
  <2>4. Hands(r, owed(s), ship(r, ops).session, ship(r, ops).out)
    BY <2>1, <2>3, ShipHands
  <2> QED
    BY <2>1, <2>2, <2>4 DEF Hands, Alike
<1> QED
  BY <1>1, <1>2

(* goOnline.                                                                *)
LEMMA GoOnlineHands ==
    ASSUME NEW s \in Session
    PROVE  Hands(s, owed(s), goOnline(s).session, goOnline(s).out)
<1> DEFINE r == [s EXCEPT !.online = TRUE]
<1>1. r \in Session /\ Alike(s, r) /\ r.doc = s.doc /\ owed(r) = owed(s)
  BY DEF Session, Alike, owed
<1>2. goOnline(s) = resend(r)
  BY DEF goOnline
<1> HIDE DEF r
<1>3. Hands(r, owed(r), resend(r).session, resend(r).out)
  BY <1>1, ResendHands
<1> QED
  BY <1>1, <1>2, <1>3 DEF Hands, Alike

(* ack.                                                                     *)
LEMMA AckHands ==
    ASSUME NEW s \in Session, NEW k
    PROVE  Hands(s, owed(s), ack(s, k).session, ack(s, k).out)
<1> DEFINE dropped == {u \in s.unacked : u.n < k}
           r == [s EXCEPT !.unacked = {u \in @ : u.n > k}]
           ops == outgoing(dropped)
<1>1. \/ ack(s, k) = [session |-> s, out |-> <<>>]
      \/ ack(s, k) = [session |-> r, out |-> <<>>]
      \/ ack(s, k) = ship(r, ops)
  BY DEF ack
<1>2. /\ r \in Session /\ Alike(s, r) /\ r.doc = s.doc /\ r.pending = s.pending
      /\ r.unacked \subseteq s.unacked /\ dropped \subseteq s.unacked
  BY DEF Session, Alike
<1> HIDE DEF r, dropped
<1>3. owed(r) \cup ops \subseteq owed(s)
  BY <1>2, OutgoingOf DEF owed
<1> HIDE DEF ops
<1>4. Hands(r, owed(s), ship(r, ops).session, ship(r, ops).out)
  BY <1>2, <1>3, ShipHands
<1>5. Hands(s, owed(s), r, <<>>) /\ Hands(s, owed(s), s, <<>>)
  BY <1>2, <1>3 DEF Hands, Alike
<1>6. Hands(s, owed(s), ship(r, ops).session, ship(r, ops).out)
  BY <1>2, <1>4 DEF Hands, Alike
<1> QED
  BY <1>1, <1>5, <1>6

(* A session that goes on in its room as `t`.                               *)
GoesTo(d, s, t) ==
    /\ t.on /\ t.gen = s.gen /\ (s.joined => t.joined)
    /\ t.bound => view[d] \subseteq edits(t.doc)
    /\ GrownOnce(d, t.doc, typed)
    /\ OpenOnce(d, t, IF t.bound THEN edits(t.doc) ELSE view[d])

(* What such a session sends.                                               *)
SendsOnce(d, t, f) ==
    /\ f.gen = t.gen
    /\ f.type = "Update" => \A o \in f.ops : o.by = d
    /\ f.type = "Seed" =>
          /\ f.gen = 0 /\ SeedOnce(d, f.ops)
          /\ Start \subseteq edits(f.ops) /\ edits(f.ops) \subseteq view[d]

(* It owes less, and has the same to show.                                  *)
LEMMA GoesAlike ==
    ASSUME NEW d, NEW s, NEW r, NEW t, GoesTo(d, s, r), Alike(r, t), t.doc = r.doc,
           owed(t) \subseteq owed(r)
    PROVE  GoesTo(d, s, t)
<1>1. OpenOnce(d, t, IF t.bound THEN edits(t.doc) ELSE view[d])
  BY DEF GoesTo, Alike, OpenOnce
<1> QED
  BY <1>1 DEF GoesTo, Alike

(* It hands out what it owes.                                               *)
LEMMA HandsOnce ==
    ASSUME NEW d, NEW s, NEW r, NEW t, NEW out, GoesTo(d, s, r), Hands(r, owed(r), t, out)
    PROVE  GoesTo(d, s, t) /\ \A i \in 1..Len(out) : SendsOnce(d, t, out[i])
<1>1. GoesTo(d, s, t)
  BY GoesAlike DEF Hands
<1>2. \A o \in owed(r) : o.by = d
  BY DEF GoesTo, OpenOnce
<1> QED
  BY <1>1, <1>2 DEF Hands, Alike, SendsOnce

(* It is told what the room has.                                            *)
LEMMA ToldOnce ==
    ASSUME TypeOK, Once, NEW d \in Device, NEW s, s = session[d], s.on, NEW r,
           Alike(s, r), owed(r) \subseteq owed(s), s.doc \subseteq r.doc,
           r.doc \subseteq s.doc \cup logged(s.gen), s.joined \/ r.doc = s.doc
    PROVE  GoesTo(d, s, r)
<1>1. OpenOnce(d, s, view[d])
  BY DEF Once
<1>2. edits(s.doc) \subseteq edits(r.doc)
  BY DEF edits
<1>3. r.bound => view[d] \subseteq edits(r.doc)
  BY <1>1, <1>2 DEF OpenOnce, Alike
<1>4. GrownOnce(d, r.doc, typed)
  BY DEF GrownOnce, Fresh, edits
<1>5. OpenOnce(d, r, IF r.bound THEN edits(r.doc) ELSE view[d])
  BY <1>1, <1>2, <1>3 DEF OpenOnce, Alike
<1> QED
  BY <1>3, <1>4, <1>5 DEF GoesTo, Alike

(* Made of `r` by a merge that cuts nothing.                                *)
Merges(d, r, m) ==
    /\ Alike(r, m) /\ m \in Session /\ r.doc \subseteq m.doc /\ GrownOnce(d, m.doc, typed)
    /\ view[d] \subseteq edits(m.doc)
    /\ \A o \in owed(m) : o \in owed(r) \/ o.by = d

(* A merge that cuts nothing, into a document that has what this device has *)
(* in the room.                                                             *)
LEMMA MergeOnce ==
    ASSUME TypeOK, Once, NEW d \in Device, NEW s, s = session[d], NEW r \in Session,
           r.gen = s.gen, s.doc \subseteq r.doc, r.doc \subseteq s.doc \cup logged(s.gen),
           past[s.gen] # <<>>, past[s.gen][1] \subseteq r.doc,
           \A o \in logged(s.gen) : o.by = d => o \in r.doc,
           NEW b, b \subseteq edits(r.doc), b \subseteq view[d],
           NEW m, m = merge(d, r, b, view[d])
    PROVE  Merges(d, r, m)
<1> DEFINE mine == view[d] \ (b \cup Text(r.doc))
           undone == {o \in live(r.doc) : o.edit \in b \ view[d]}
           news == inserts(d, r.client, view[d] \ edits(r.doc))
<1>1. s.gen \in Gen /\ s.doc \in SUBSET Op /\ logged(s.gen) \in SUBSET Op /\ s \in Session
  <2>1. s.gen \in Gen /\ s \in Session /\ past[s.gen] \in Seq(SUBSET Op)
    BY Parts
  <2>2. merged(past[s.gen]) \in SUBSET Op
    BY <2>1, SMTT(40) DEF merged
  <2> QED
    BY <2>1, <2>2, SessionFields DEF logged
<1>2. \A o \in r.doc : ~o.cut
  BY <1>1 DEF Once, MadeOnce, Insertion
<1>3. Text(r.doc) = edits(r.doc)
  <2>1. r.doc \in SUBSET Op
    BY <1>1
  <2> QED
    BY <1>2, <2>1, PlainText
<1>4. undone = {} /\ mine = view[d] \ edits(r.doc)
  BY <1>3
<1>5. m = [r EXCEPT !.doc = @ \cup news, !.pending = @ \cup news]
  <2> DEFINE ops == inserts(d, r.client, mine) \cup {[o EXCEPT !.cut = TRUE] : o \in undone}
  <2>1. m = [r EXCEPT !.doc = @ \cup ops, !.pending = @ \cup ops]
    BY DEF merge
  <2>2. ops = news
    BY <1>4
  <2> HIDE DEF ops, news
  <2> QED
    BY <2>1, <2>2
<1>6. \A o \in news : o.by = d /\ ~o.cut /\ o.client = r.client
                      /\ o.edit \in view[d] \ edits(r.doc) /\ o \in Op
  <2>1. view[d] \subseteq Edit /\ r.client \in Nat
    BY DEF TypeOK, Session
  <2> QED
    BY <2>1 DEF inserts, Op
<1>7. \A e \in view[d] \ edits(r.doc) : \E o \in news : o.edit = e
  <2> TAKE e \in view[d] \ edits(r.doc)
  <2>1. [edit |-> e, by |-> d, client |-> r.client, cut |-> FALSE] \in news
    BY DEF inserts
  <2> QED
    BY <2>1
<1> HIDE DEF news
<1>8. /\ Alike(r, m) /\ m.doc = r.doc \cup news /\ m.pending = r.pending \cup news
      /\ m.unacked = r.unacked /\ m \in Session
  <2>1. news \in SUBSET Op
    BY <1>6
  <2>2. r.doc \cup news \in SUBSET Op /\ r.pending \cup news \in SUBSET Op
    BY <2>1, SessionFields
  <2>3. PICK doc \in SUBSET Op, pending \in SUBSET Op :
           doc = r.doc \cup news /\ pending = r.pending \cup news
    BY <2>2
  <2>4. m = [r EXCEPT !.doc = doc, !.pending = pending]
    BY <1>5, <2>3
  <2> QED
    BY <2>3, <2>4 DEF Session, Alike
<1>9. ASSUME NEW o \in news PROVE Fresh(d, o, typed)
  <2> DEFINE e == o.edit
             log == past[s.gen]
  <2>1. e \in view[d] /\ e \notin edits(r.doc)
    BY <1>6
  <2>2. edits(s.doc) \subseteq edits(r.doc) /\ edits(log[1]) \subseteq edits(r.doc)
    BY DEF edits
  <2>3. Start \subseteq edits(log[1])
        /\ \A h \in Gen : h < s.gen => edits(logged(h)) \subseteq edits(log[1])
    BY <1>1 DEF Once, RoomsOnce, RoomOnce
  <2>4. ~Older(s.gen, e)
    BY <2>1, <2>2, <2>3 DEF Older
  <2>5. Sole(d, e)
    <3>1. KnowsOnce(d)
      BY DEF Once
    <3> QED
      BY <2>1, <2>2, <2>3, <2>4, <3>1 DEF KnowsOnce
  <2>6. e \notin edits(logged(s.gen))
    BY <1>1, <2>1, <2>5 DEF Sole, edits
  <2> QED
    BY <1>6, <2>1, <2>2, <2>3, <2>5, <2>6 DEF Fresh
<1>10. GrownOnce(d, m.doc, typed)
  <2>1. \A o \in m.doc : o \in s.doc \/ o \in logged(s.gen) \/ o \in news
    BY <1>8
  <2>2. \A o \in m.doc : Fresh(d, o, typed) => o \in news
    BY <2>1 DEF Fresh, edits
  <2>3. \A o \in news, p \in news : o.edit = p.edit => o = p
    BY <1>6 DEF Op
  <2> QED
    BY <1>8, <1>9, <2>1, <2>2, <2>3 DEF GrownOnce
<1>11. view[d] \subseteq edits(m.doc)
  BY <1>7, <1>8 DEF edits
<1>12. \A o \in owed(m) : o \in owed(r) \/ o.by = d
  BY <1>6, <1>8 DEF owed
<1> QED
  BY <1>8, <1>10, <1>11, <1>12 DEF Merges

(* The room's answer, a device's first text, a join.                        *)
LEMMA StateOnce ==
    ASSUME NEW n \in Nat, TypeTo(n), TypeOK, Safe, Once,
           NEW d \in Device, fresh(d) \in 0..n, NEW s, s = session[d], s.on, NEW f \in StateTo(n),
           NEW log, log = past[s.gen], NEW row, row = room[s.gen],
           DownOK(s, f, log, row), f.gen = s.gen
    PROVE  LET o == onState(d, s, f)
           IN  /\ GoesTo(d, s, o.session)
               /\ \A i \in 1..Len(o.out) : SendsOnce(d, o.session, o.out[i])
<1> DEFINE read == reached(s, f)
<1>1. /\ s \in SessionTo(n) /\ s \in Session /\ log \in Seq(SUBSET Op) /\ FilesOK
      /\ LocalOK(s, log, row) /\ s.gen \in Gen /\ s.gen \in Nat /\ s.known \in Nat
  BY SessionParts, SessionToIsSession, SessionFields
<1>2. f.type = "State" /\ f.head \in Nat /\ f \in Answer /\ f.ops \in SUBSET Op
  <2>1. f \in AnswerTo(n)
    BY DEF AnswerTo
  <2>2. f.type = "State" /\ f.head \in Nat
    BY DEF StateTo
  <2> QED
    BY <2>1, <2>2, AnswerToIsAnswer, AnswerFields
<1>3. ~lost(s, f)
  BY <1>1, <1>2, NeverLost DEF LocalOK
<1>4. /\ f.ops \subseteq first(log, f.head) /\ f.head <= Len(log) /\ f.head >= s.known
      /\ first(log, f.head) \subseteq f.ops \cup first(log, s.seq)
  <2>1. isNews(s, f) /\ pos(f) = f.head
    BY <1>2 DEF isNews, pos
  <2> QED
    BY <1>2, <2>1 DEF DownOK
<1>5. f.ops \subseteq logged(s.gen)
  <2>1. logged(s.gen) = first(log, Len(log)) /\ Len(log) \in Nat
    BY <1>1, MergedIsFirst DEF logged
  <2>2. first(log, f.head) \subseteq first(log, Len(log))
    BY <1>1, <1>2, <1>4, <2>1, FirstIncludes
  <2> QED
    BY <1>4, <2>1, <2>2
<1>6. /\ read \in Session /\ read.doc = s.doc \cup f.ops /\ Alike(s, read)
      /\ read.online = s.online /\ owed(read) = owed(s)
  <2>1. read \in SessionTo(n)
    BY <1>1, ReachedOK
  <2>2. read \in Session
    BY <2>1, SessionToIsSession
  <2>3. /\ read.doc = s.doc \cup f.ops /\ Alike(s, read) /\ read.online = s.online
        /\ read.pending = s.pending /\ read.unacked = s.unacked
    BY <1>1 DEF reached, Session, Alike
  <2> QED
    BY <2>2, <2>3 DEF owed
<1>7. OpenOnce(d, s, view[d]) /\ FileOnce(d)
  BY DEF Once
<1>8. view[d] \in SUBSET Edit /\ view[d] # None
  BY <1>1, RoomAssumption DEF FilesOK
<1> HIDE DEF read
<1>9. CASE ~s.joined /\ f.head = 0
  <2> DEFINE text == scratch(d)
             t == [read EXCEPT !.seed = {text}, !.from = view[d]]
             seed == Seed(read.gen, text)
  <2>1. onState(d, s, f) = ends(t, <<seed>>)
    BY <1>3, <1>9 DEF onState, offerSeed, With, read
  <2>2. s.doc = {} /\ owed(s) = {} /\ ~s.bound
    BY <1>7, <1>9 DEF OpenOnce
  <2>3. read.doc = {}
    <3>1. first(log, 0) = {}
      BY <1>1, FirstNext
    <3> QED
      BY <1>4, <1>6, <1>9, <2>2, <3>1
  <2>4. s.gen = 0
    BY <1>1, <1>4, <1>7, <1>9 DEF OpenOnce
  <2>5. SeedOnce(d, text) /\ edits(text) = view[d] /\ Start \subseteq view[d]
    <3>1. Start \subseteq view[d]
      BY <1>7 DEF FileOnce
    <3>2. \A o \in text : o.by = d /\ ~o.cut /\ o.client = fresh(d) /\ o.edit \in view[d] /\ o \in Op
      <4>1. fresh(d) \in Nat
        OBVIOUS
      <4> QED
        BY <1>8, <4>1 DEF scratch, inserts, Op
    <3>3. \A e \in view[d] : \E o \in text : o.edit = e
      <4> TAKE e \in view[d]
      <4>1. [edit |-> e, by |-> d, client |-> fresh(d), cut |-> FALSE] \in text
        BY DEF scratch, inserts
      <4> QED
        BY <4>1
    <3> HIDE DEF text
    <3>4. Distinct(text)
      BY <3>2 DEF Distinct, Op
    <3> QED
      BY <3>1, <3>2, <3>3, <3>4 DEF SeedOnce, edits
  <2> HIDE DEF text
  <2>6. /\ t.seed = {text} /\ t.from = view[d] /\ t.doc = {} /\ owed(t) = {}
        /\ t.on /\ t.gen = s.gen /\ ~t.joined /\ ~t.bound /\ t.known = s.known
    BY <1>6, <1>9, <2>2, <2>3 DEF Session, Alike, owed
  <2> HIDE DEF t
  <2>7. OpenOnce(d, t, view[d])
    BY <1>7, <1>8, <1>9, <2>4, <2>5, <2>6 DEF OpenOnce
  <2>8. GrownOnce(d, t.doc, typed)
    BY <2>2, <2>6 DEF GrownOnce
  <2>9. GoesTo(d, s, t)
    BY <1>9, <2>6, <2>7, <2>8 DEF GoesTo
  <2>10. SendsOnce(d, t, seed)
    <3>1. seed.type = "Seed" /\ seed.gen = t.gen /\ seed.ops = text
      BY <1>6, <2>6 DEF Seed, Alike
    <3> HIDE DEF seed
    <3> QED
      BY <2>4, <2>5, <2>6, <3>1 DEF SendsOnce
  <2> HIDE DEF seed
  <2>11. \A i \in 1..Len(<<seed>>) : <<seed>>[i] = seed
    OBVIOUS
  <2> QED
    BY <2>1, <2>9, <2>10, <2>11 DEF ends
<1>10. CASE ~(~s.joined /\ f.head = 0)
  <2> DEFINE joined == IF s.joined THEN read ELSE reconcile(d, read)
  <2>1. joined \in Session /\ GoesTo(d, s, joined) /\ joined.online = s.online
    <3>1. CASE s.joined
      BY <1>5, <1>6, <3>1, ToldOnce
    <3>2. CASE ~s.joined
      <4> DEFINE b == base(d)
                 m == merge(d, read, b, view[d])
                 t == [m EXCEPT !.seed = {}, !.from = view[d], !.joined = TRUE]
      <4>1. s.doc = {} /\ owed(s) = {} /\ ~s.bound
        BY <1>7, <3>2 DEF OpenOnce
      <4>2. f.head >= 1 /\ s.seq = 0
        BY <1>1, <1>2, <1>10, <3>2 DEF LocalOK, PlaceOK
      <4>3. log # <<>> /\ log[1] \subseteq read.doc
        <5>1. first(log, 0) = {} /\ log[1] \subseteq first(log, f.head)
          BY <1>1, <1>2, <4>2, FirstNext DEF first
        <5>2. log # <<>>
          BY <1>1, <1>2, <1>4, <4>2
        <5> QED
          BY <1>4, <1>6, <4>2, <5>1, <5>2
      <4>4. /\ Start \subseteq edits(log[1])
            /\ \A g \in Gen : g < s.gen => edits(logged(g)) \subseteq edits(log[1])
        BY <1>1, <4>3 DEF Once, RoomsOnce, RoomOnce
      <4>5. b \subseteq edits(read.doc) /\ b \subseteq view[d]
        <5>1. edits(log[1]) \subseteq edits(read.doc)
          BY <4>3 DEF edits
        <5>2. ASSUME NEW v \in Agreed \cup {None}, v # None, AgreedOnce(d, v)
              PROVE  v.text \subseteq edits(read.doc)
          <6>1. v.gen \in Gen /\ v.text \subseteq edits(logged(v.gen)) /\ v.gen <= s.gen /\ v.gen # s.gen
            BY <3>2, <5>2 DEF AgreedOnce, Agreed
          <6>2. v.gen < s.gen
            BY <1>1, <6>1 DEF Gen
          <6> QED
            BY <4>4, <5>1, <6>1, <6>2
        <5>3. AgreedOnce(d, stored[d]) /\ AgreedOnce(d, unwritten[d])
              /\ Start \subseteq disk[d] /\ disk[d] \subseteq view[d]
              /\ (stored[d] # None => stored[d].text \subseteq disk[d])
          BY <1>7 DEF FileOnce
        <5>4. unwritten[d] \in Agreed \cup {None} /\ stored[d] \in Agreed \cup {None}
          BY Parts
        <5> QED
          BY <4>4, <5>1, <5>2, <5>3, <5>4 DEF base
      <4>6. \A o \in logged(s.gen) : o.by = d => o \in read.doc
        BY <1>1, <1>7, <3>2, <4>3 DEF OpenOnce
      <4> HIDE DEF b
      <4>7. /\ Alike(read, m) /\ m \in Session /\ read.doc \subseteq m.doc
            /\ GrownOnce(d, m.doc, typed) /\ view[d] \subseteq edits(m.doc)
            /\ \A o \in owed(m) : o \in owed(read) \/ o.by = d
        <5>1. read.gen = s.gen /\ s.doc \subseteq read.doc
              /\ read.doc \subseteq s.doc \cup logged(s.gen)
          BY <1>5, <1>6 DEF Alike
        <5>2. past[s.gen] # <<>> /\ past[s.gen][1] \subseteq read.doc
          BY <4>3
        <5> HIDE DEF m
        <5>3. PICK w : w = merge(d, read, b, view[d])
          OBVIOUS
        <5>4. PICK r \in Session : r = read
          BY <1>6
        <5>5. PICK c : c = b
          OBVIOUS
        <5>6. r.gen = s.gen /\ s.doc \subseteq r.doc /\ r.doc \subseteq s.doc \cup logged(s.gen)
          BY <5>1, <5>4
        <5>7. past[s.gen][1] \subseteq r.doc /\ past[s.gen] # <<>>
          BY <5>2, <5>4
        <5>8. \A o \in logged(s.gen) : o.by = d => o \in r.doc
          BY <4>6, <5>4
        <5>9. c \subseteq edits(r.doc) /\ c \subseteq view[d]
          BY <4>5, <5>4, <5>5
        <5>10. w = merge(d, r, c, view[d])
          BY <5>3, <5>4, <5>5
        <5>11. Merges(d, r, w)
          BY <5>6, <5>7, <5>8, <5>9, <5>10, MergeOnce
        <5> QED
          BY <5>3, <5>4, <5>11 DEF m, Merges
      <4>8. m.online = read.online
        BY <1>6 DEF merge, Session
      <4>9. joined = t
        BY <3>2 DEF reconcile, b
      <4> HIDE DEF m
      <4>10. /\ t \in Session /\ t.doc = m.doc /\ t.joined /\ ~t.bound /\ t.from = view[d]
             /\ t.on /\ t.gen = s.gen /\ t.known = s.known /\ owed(t) = owed(m)
             /\ t.online = s.online
        <5>1. PICK w \in (SUBSET Edit) \cup {None} : w = view[d]
          BY <1>8
        <5>2. t = [m EXCEPT !.seed = {}, !.from = w, !.joined = TRUE]
          BY <5>1
        <5> HIDE DEF t
        <5>3. /\ t \in Session /\ t.doc = m.doc /\ t.joined /\ t.bound = m.bound /\ t.from = w
              /\ t.on = m.on /\ t.gen = m.gen /\ t.known = m.known
              /\ t.pending = m.pending /\ t.unacked = m.unacked /\ t.online = m.online
          BY <4>7, <5>2 DEF Session
        <5> QED
          BY <1>6, <4>1, <4>7, <4>8, <5>1, <5>3 DEF Alike, owed
      <4> HIDE DEF t
      <4>11. OpenOnce(d, t, view[d])
        <5>1. Start \subseteq view[d]
          BY <1>7 DEF FileOnce
        <5>2. \A o \in owed(t) : o.by = d
          BY <1>6, <4>1, <4>7, <4>10
        <5>3. \A o \in logged(t.gen) : o.by = d => o \in t.doc
          BY <4>6, <4>7, <4>10
        <5> QED
          BY <1>7, <1>8, <4>7, <4>10, <5>1, <5>2, <5>3 DEF OpenOnce
      <4>12. GoesTo(d, s, t)
        BY <4>7, <4>10, <4>11 DEF GoesTo
      <4> QED
        BY <4>9, <4>10, <4>12
    <3> QED
      BY <3>1, <3>2
  <2>2. CASE s.online
    <3> DEFINE t == [joined EXCEPT !.asked = FALSE]
    <3>1. onState(d, s, f) = settles(t, <<>>)
      BY <1>3, <1>10, <2>2 DEF onState, With, read
    <3> HIDE DEF joined
    <3>2. Alike(joined, t) /\ t.doc = joined.doc /\ owed(t) = owed(joined)
      BY <2>1 DEF Session, Alike, owed
    <3> HIDE DEF t
    <3>3. GoesTo(d, s, t)
      BY <2>1, <3>2, GoesAlike
    <3> QED
      BY <3>1, <3>3 DEF settles
  <2>3. CASE ~s.online
    <3>1. onState(d, s, f) = settles(goOnline(joined).session, goOnline(joined).out)
      BY <1>3, <1>10, <2>3 DEF onState, With, read
    <3> HIDE DEF joined
    <3>2. Hands(joined, owed(joined), goOnline(joined).session, goOnline(joined).out)
      BY <2>1, GoOnlineHands
    <3>3. /\ GoesTo(d, s, goOnline(joined).session)
          /\ \A i \in 1..Len(goOnline(joined).out) :
                SendsOnce(d, goOnline(joined).session, goOnline(joined).out[i])
      BY <2>1, <3>2, HandsOnce
    <3> QED
      BY <3>1, <3>3 DEF settles
  <2> QED
    BY <2>2, <2>3
<1> QED
  BY <1>9, <1>10

(* An outcome that leaves the session in its room, and sends what is its.   *)
HandlesOnce(d, s, t, out) ==
    GoesTo(d, s, t) /\ \A i \in 1..Len(out) : SendsOnce(d, t, out[i])

(* Nothing happens to a session.                                            *)
LEMMA StaysOnce ==
    ASSUME TypeOK, Once, NEW d \in Device, NEW s, s = session[d], s.on, NEW t,
           Alike(s, t), t.doc = s.doc, owed(t) = owed(s)
    PROVE  HandlesOnce(d, s, t, <<>>)
<1>1. GoesTo(d, s, t)
  BY ToldOnce
<1> QED
  BY <1>1 DEF HandlesOnce

(* An update of another.                                                    *)
LEMMA FanoutOnce ==
    ASSUME TypeOK, Safe, Once,
           NEW d \in Device, NEW s, s = session[d], s.on, NEW f,
           f.type = "Fanout", f.seq \in Nat,
           NEW log, log = past[s.gen], NEW row, DownOK(s, f, log, row), f.gen = s.gen
    PROVE  HandlesOnce(d, s, onFanout(s, f).session, onFanout(s, f).out)
<1>1. s \in Session /\ log \in Seq(SUBSET Op)
  BY Parts
<1>2. CASE ~s.joined \/ s.left # None
  <2>1. onFanout(s, f) = ends(s, <<>>)
    BY <1>2 DEF onFanout
  <2>2. Alike(s, s)
    BY DEF Alike
  <2> QED
    BY <2>1, <2>2, StaysOnce DEF ends
<1>3. CASE s.joined /\ s.left = None
  <2> DEFINE t == [s EXCEPT !.doc = @ \cup f.ops, !.seq = f.seq]
  <2>1. onFanout(s, f) = settles(t, <<>>)
    BY <1>3 DEF onFanout
  <2>2. Alike(s, t) /\ t.doc = s.doc \cup f.ops /\ owed(t) = owed(s)
    BY <1>1 DEF Alike, Session, owed
  <2>3. f.seq \in 1..Len(log) /\ f.ops = log[f.seq]
    BY DEF DownOK, isNews, pos
  <2>4. f.ops \subseteq logged(s.gen)
    BY <1>1, <2>3, MergedIsFirst DEF logged, first
  <2> HIDE DEF t
  <2>5. GoesTo(d, s, t)
    BY <1>3, <2>2, <2>4, ToldOnce
  <2> QED
    BY <2>1, <2>5 DEF settles, HandlesOnce
<1> QED
  BY <1>2, <1>3

(* The room took an update of its own, or its first text.                   *)
LEMMA EchoOnce ==
    ASSUME TypeOK, Safe, Once,
           NEW d \in Device, NEW s, s = session[d], s.on, NEW f,
           f.type = "Echo", f.seq \in Nat,
           NEW log, log = past[s.gen], NEW row, DownOK(s, f, log, row), f.gen = s.gen
    PROVE  HandlesOnce(d, s, onEcho(s, f).session, onEcho(s, f).out)
<1> DEFINE at == [s EXCEPT !.seq = f.seq]
<1>1. s \in Session /\ log \in Seq(SUBSET Op)
  BY Parts
<1>2. at \in Session /\ Alike(s, at) /\ at.doc = s.doc /\ owed(at) = owed(s)
  BY <1>1 DEF Session, Alike, owed
<1>3. CASE s.joined
  <2>1. onEcho(s, f) = settles(ack(at, f.n).session, ack(at, f.n).out)
    BY <1>3 DEF onEcho, With
  <2> HIDE DEF at
  <2>2. GoesTo(d, s, at)
    BY <1>2, ToldOnce
  <2>3. Hands(at, owed(at), ack(at, f.n).session, ack(at, f.n).out)
    BY <1>2, AckHands
  <2> QED
    <3>1. PICK r, w, out : r = at /\ w = ack(at, f.n).session /\ out = ack(at, f.n).out
      OBVIOUS
    <3> HIDE DEF at
    <3>3. GoesTo(d, s, r) /\ Hands(r, owed(r), w, out)
      BY <2>2, <2>3, <3>1
    <3>2. GoesTo(d, s, w) /\ \A i \in 1..Len(out) : SendsOnce(d, w, out[i])
      BY <3>3, HandsOnce
    <3> QED
      BY <2>1, <3>1, <3>2 DEF settles, HandlesOnce
<1>4. CASE ~s.joined
  <2> DEFINE t == [at EXCEPT !.doc = @ \cup UNION s.seed, !.seed = {}, !.joined = TRUE]
  <2>1. f.seq = 1 /\ s.seed = {log[1]} /\ 1 \in 1..Len(log)
    BY <1>1, <1>4 DEF DownOK, isNews, pos
  <2>2. onEcho(s, f) = settles(goOnline(t).session, goOnline(t).out)
    BY <1>4, <2>1 DEF onEcho, With
  <2>3. OpenOnce(d, s, view[d])
    BY DEF Once
  <2>4. s.doc = {} /\ owed(s) = {} /\ ~s.bound /\ s.from # None /\ edits(log[1]) = s.from
    BY <1>4, <2>1, <2>3 DEF OpenOnce
  <2>5. UNION s.seed = log[1] /\ log[1] \in SUBSET Op
    BY <1>1, <2>1
  <2>6. /\ t \in Session /\ t.doc = log[1] /\ owed(t) = {} /\ t.joined /\ t.on = s.on
        /\ t.gen = s.gen /\ t.known = s.known /\ ~t.bound /\ t.from = s.from
    <3>1. PICK doc \in SUBSET Op : doc = at.doc \cup UNION s.seed /\ doc = log[1]
      BY <1>2, <2>4, <2>5
    <3>2. t = [at EXCEPT !.doc = doc, !.seed = {}, !.joined = TRUE]
      BY <3>1
    <3> HIDE DEF t, at
    <3> QED
      BY <1>2, <2>4, <3>1, <3>2 DEF Session, Alike, owed
  <2> HIDE DEF t
  <2>7. log[1] \subseteq logged(s.gen)
    BY <1>1, <2>1, MergedIsFirst DEF logged, first
  <2>8. GrownOnce(d, t.doc, typed)
    <3>1. \A o \in log[1] : ~Fresh(d, o, typed)
      BY <2>7 DEF Fresh, edits
    <3> QED
      BY <2>4, <2>6, <2>7, <3>1 DEF GrownOnce
  <2>9. OpenOnce(d, t, view[d])
    <3>1. s.gen \in Gen
      BY <1>1, SessionFields
    <3>2. \A o \in logged(s.gen) : o.by = d => o \in log[1]
      BY <1>4, <2>3, <3>1 DEF OpenOnce
    <3>3. \A g \in Gen : g > s.gen => \A o \in logged(g) : o.by = d => o \in past[g][1]
      BY <2>3 DEF OpenOnce
    <3>4. Start \subseteq s.from /\ s.from \subseteq view[d] /\ (s.gen > 0 => s.known >= 1)
      BY <2>3, <2>4 DEF OpenOnce
    <3> QED
      BY <2>4, <2>6, <3>2, <3>3, <3>4 DEF OpenOnce
  <2>10. GoesTo(d, s, t)
    BY <2>6, <2>8, <2>9 DEF GoesTo
  <2>11. Hands(t, owed(t), goOnline(t).session, goOnline(t).out)
    BY <2>6, GoOnlineHands
  <2> QED
    <3>1. HandlesOnce(d, s, goOnline(t).session, goOnline(t).out)
      BY <2>10, <2>11, HandsOnce DEF HandlesOnce
    <3> QED
      BY <2>2, <3>1 DEF settles
<1> QED
  BY <1>3, <1>4

(* Whatever it is told.                                                     *)
LEMMA HandleOnce ==
    ASSUME NEW n \in Nat, TypeTo(n), TypeOK, Safe, Once,
           NEW d \in Device, fresh(d) \in 0..n, NEW s, s = session[d], s.on,
           NEW f \in AnswerTo(n), NEW log, log = past[s.gen], NEW row, row = room[s.gen],
           DownOK(s, f, log, row), f.gen = s.gen
    PROVE  HandlesOnce(d, s, handle(d, s, f).session, handle(d, s, f).out)
<1>1. f.type \in {"State", "Fanout", "Echo", "Moved"} /\ (f.type = "State" => f \in StateTo(n))
      /\ (f.type \in {"Fanout", "Echo"} => f.seq \in Nat)
  BY DEF AnswerTo, StateTo
<1>2. CASE f.type = "State"
  <2>1. handle(d, s, f) = onState(d, s, f)
    BY <1>2 DEF handle
  <2> QED
    BY <1>1, <1>2, <2>1, StateOnce DEF HandlesOnce
<1>3. CASE f.type = "Fanout"
  <2>1. handle(d, s, f) = onFanout(s, f)
    BY <1>3 DEF handle
  <2> QED
    BY <1>1, <1>3, <2>1, FanoutOnce
<1>4. CASE f.type = "Echo"
  <2>1. handle(d, s, f) = onEcho(s, f)
    BY <1>4 DEF handle
  <2> QED
    BY <1>1, <1>4, <2>1, EchoOnce
<1>5. CASE f.type = "Moved"
  <2> DEFINE t == [s EXCEPT !.moved = TRUE, !.asked = FALSE]
  <2>1. handle(d, s, f) = ends(t, <<>>)
    BY <1>5 DEF handle, onMoved
  <2>2. Alike(s, t) /\ t.doc = s.doc /\ owed(t) = owed(s)
    BY Parts DEF Session, Alike, owed
  <2> HIDE DEF t
  <2> QED
    BY <2>1, <2>2, StaysOnce DEF ends
<1> QED
  BY <1>1, <1>2, <1>3, <1>4, <1>5

-----------------------------------------------------------------------------
(* A device's outcome takes effect.                                         *)

(* A frame behind those that were on their way is one of those sent.        *)
LEMMA SentAt ==
    ASSUME NEW X, NEW U \in Seq(X), NEW out \in Seq(X), NEW V, V = U \o out,
           NEW i \in 1..Len(V), i \notin 1..Len(U)
    PROVE  i - Len(U) \in 1..Len(out) /\ V[i] = out[i - Len(U)]
<1>1. /\ Len(U) \in Nat /\ Len(out) \in Nat /\ Len(V) = Len(U) + Len(out)
      /\ \A j \in (Len(U) + 1)..Len(V) : V[j] = out[j - Len(U)]
  BY ConcatProperties
<1>2. i \in (Len(U) + 1)..Len(V) /\ i - Len(U) \in 1..Len(out)
  BY <1>1
<1> QED
  BY <1>1, <1>2

(* What a socket carries then.                                              *)
LEMMA SentParts ==
    ASSUME TypeOK, NEW d \in Device, NEW out \in Seq(Frame), Send(d, out),
           NEW k \in Socket, NEW i \in 1..Len(up'[k])
    PROVE  \/ \E j \in 1..Len(up[k]) : up'[k][i] = up[k][j]
           \/ /\ linked[d] /\ k = here(d) /\ k[1] = d
              /\ \E j \in 1..Len(out) : up'[k][i] = out[j]
<1>1. CASE up'[k] = up[k]
  BY <1>1
<1>2. CASE linked[d] /\ k = here(d)
  <2>1. PICK U, V : U \in Seq(Frame) /\ U = up[k] /\ V = up'[k]
    BY Parts
  <2>2. V = U \o out /\ k[1] = d /\ i \in 1..Len(V)
    BY <1>2, <2>1, SendParts DEF here
  <2>3. CASE i \in 1..Len(U)
    <3>1. V[i] = U[i]
      BY <2>2, <2>3
    <3> QED
      BY <2>1, <2>3, <3>1
  <2>4. CASE i \notin 1..Len(U)
    <3>1. i - Len(U) \in 1..Len(out) /\ V[i] = out[i - Len(U)]
      BY <2>2, <2>4, SentAt
    <3> QED
      BY <1>2, <2>1, <2>2, <3>1
  <2> QED
    BY <2>3, <2>4
<1> QED
  BY <1>1, <1>2, SendParts

(* No text loses anything.                                                  *)
Keeps == \A x \in Device : view[x] \subseteq view'[x]

(* It goes on in its room.                                                  *)
LEMMA CommitOnce ==
    ASSUME TypeOK, TypeOK', Safe, Safe', Once, NEW d \in Device, NEW s, s = session[d], s.on,
           NEW o, Commit(d, o), NEW t \in Session, t = o.session,
           NEW out \in Seq(Frame), out = o.out, UNCHANGED typed,
           HandlesOnce(d, s, t, out)
    PROVE  Once' /\ Keeps
<1>1. /\ session' = [session EXCEPT ![d] = t] /\ Send(d, out)
      /\ UNCHANGED <<room, past, cur, linked, disk, stored>>
      /\ view' = IF t.bound THEN [view EXCEPT ![d] = Text(t.doc)] ELSE view
      /\ unwritten' = IF o.settles /\ settled(t)
                      THEN [unwritten EXCEPT ![d] = [text |-> Text(t.doc), gen |-> t.gen,
                                                     seq |-> t.seq]]
                      ELSE unwritten
  BY DEF Commit, hub
<1>2. /\ session'[d] = t /\ t.doc \in SUBSET Op /\ t.gen = s.gen /\ s.gen \in Gen
      /\ past[s.gen] \in Seq(SUBSET Op) /\ t.seq \in Nat
  <2>1. session'[d] = t /\ t.gen = s.gen
    BY <1>1 DEF TypeOK, HandlesOnce, GoesTo
  <2> QED
    BY <2>1, Parts, SessionFields
<1>3. Text(t.doc) = edits(t.doc)
  <2>1. \A op \in t.doc : ~op.cut
    BY <1>2 DEF HandlesOnce, GoesTo, GrownOnce, Fresh, Once, MadeOnce, Insertion
  <2> QED
    BY <1>2, <2>1, PlainText
<1>4. view'[d] = IF t.bound THEN edits(t.doc) ELSE view[d]
  BY <1>1, <1>3 DEF TypeOK
<1>5. view[d] \subseteq view'[d] /\ OpenOnce(d, t, view'[d]) /\ GrownOnce(d, t.doc, typed)
      /\ t.on /\ (s.joined => t.joined)
  BY <1>4 DEF HandlesOnce, GoesTo
<1>6. \A x \in Device \ {d} : /\ session'[x] = session[x] /\ view'[x] = view[x]
                              /\ disk'[x] = disk[x] /\ stored'[x] = stored[x]
                              /\ unwritten'[x] = unwritten[x]
  BY <1>1 DEF TypeOK
<1>7. FileOnce(d)'
  <2>1. FileOnce(d)
    BY DEF Once
  <2>2. AgreedOnce(d, stored[d])'
    BY <1>1, <1>2, <1>5, <2>1 DEF FileOnce, AgreedOnce, logged
  <2>3. AgreedOnce(d, unwritten[d])'
    <3>1. CASE o.settles /\ settled(t)
      <4> DEFINE log == past[t.gen]
      <4>1. SessionOK(d)' /\ t.joined
        BY <3>1 DEF Safe, settled, synced
      <4>2. LocalOK(t, log, room[t.gen])
        BY <1>1, <1>2, <1>5, <4>1 DEF SessionOK
      <4>3. t.seq \in 0..Len(log) /\ t.doc = first(log, t.seq)
        BY <1>2, <3>1, <4>2, SettledIsRoom
      <4>4. t.doc \subseteq logged(t.gen)
        BY <1>2, <4>3, MergedIsFirst, FirstIncludes DEF logged
      <4> DEFINE v == [text |-> Text(t.doc), gen |-> t.gen, seq |-> t.seq]
      <4>5. unwritten'[d] = v
        BY <1>1, <3>1 DEF TypeOK
      <4>6. v.text \subseteq edits(logged(t.gen)) /\ v.gen = t.gen
        BY <1>3, <4>4 DEF edits
      <4>7. v.gen <= t.gen
        BY <1>2, <4>6 DEF Gen
      <4> HIDE DEF v
      <4> QED
        BY <1>1, <1>2, <4>1, <4>5, <4>6, <4>7 DEF AgreedOnce, logged
    <3>2. CASE ~(o.settles /\ settled(t))
      <4>1. unwritten' = unwritten
        BY <1>1, <3>2
      <4> QED
        BY <1>1, <1>2, <1>5, <2>1, <4>1 DEF FileOnce, AgreedOnce, logged
    <3> QED
      BY <3>1, <3>2
  <2> QED
    BY <1>1, <1>5, <2>1, <2>2, <2>3 DEF FileOnce
<1>8. NotYet(d)'
  BY <1>2, <1>5 DEF NotYet
<1>9. ASSUME NEW k \in Socket, NEW i \in 1..Len(up'[k])
      PROVE  \/ \E j \in 1..Len(up[k]) : up'[k][i] = up[k][j]
             \/ k[1] = d /\ SentOnce(d, up[k][i])'
  <2>1. CASE \E j \in 1..Len(up[k]) : up'[k][i] = up[k][j]
    BY <2>1
  <2>2. CASE /\ linked[d] /\ k = here(d) /\ k[1] = d
             /\ \E j \in 1..Len(out) : up'[k][i] = out[j]
    <3>1. PICK f : f = up'[k][i]
      OBVIOUS
    <3>2. SendsOnce(d, t, f) /\ f.gen = t.gen
      BY <2>2, <3>1 DEF HandlesOnce, SendsOnce
    <3>3. WireOK(d)' /\ SessionOK(d)' /\ linked'[d] /\ here(d)' = k
      BY <1>1, <2>2 DEF Safe, here
    <3>4. UpOK(t, f) /\ LocalOK(t, past[t.gen], room[t.gen])
      BY <1>1, <1>2, <1>5, <3>1, <3>3 DEF WireOK, Held, Conn, AsksOK
    <3>5. f.type \in {"Update", "Rotate"} => t.joined
      BY <3>2, <3>4 DEF UpOK
    <3>6. t.joined => past[t.gen] # <<>>
      BY <1>2, <3>4 DEF LocalOK, PlaceOK
    <3>7. f.type = "Update" => f.ops \subseteq t.doc
      BY <3>2, <3>4 DEF UpOK
    <3>8. SentOnce(d, f)'
      BY <1>1, <1>2, <1>5, <3>2, <3>5, <3>6, <3>7 DEF SentOnce, SendsOnce
    <3> QED
      BY <2>2, <3>1, <3>8
  <2> QED
    BY <1>1, <2>1, <2>2, SentParts
<1>10. /\ UNCHANGED past /\ \A g \in Gen : room'[g].moved = room[g].moved
       /\ typed \subseteq typed' /\ GrownOnce(d, t.doc, typed')
       /\ \A e \in view'[d] : e \in view[d] \/ e \in edits(t.doc)
  BY <1>1, <1>4, <1>5
<1>11. Once'
  BY <1>2, <1>5, <1>6, <1>7, <1>8, <1>9, <1>10, DeviceOnce
<1> QED
  BY <1>5, <1>6, <1>11 DEF Keeps

-----------------------------------------------------------------------------
(* The steps of a session in its room.                                      *)

(* A compaction is of what the room has.                                    *)
LEMMA CompactingOnce ==
    ASSUME NEW n \in Nat, NEW o \in OutcomeTo(n), NEW d, NEW s,
           HandlesOnce(d, s, o.session, o.out)
    PROVE  HandlesOnce(d, s, compacting(o).session, compacting(o).out)
<1> DEFINE r == o.session
           t == [r EXCEPT !.compacted = r.seq]
           f == Snapshot(r.gen, r.seq, r.doc)
           out == Append(o.out, f)
<1>1. compacting(o).session = t /\ compacting(o).out = out
  BY DEF compacting, OutcomeTo
<1>2. r \in Session /\ o.out \in Seq(FrameTo(n))
  BY SessionToIsSession DEF OutcomeTo
<1>3. Alike(r, t) /\ t.doc = r.doc /\ owed(t) = owed(r)
  BY <1>2 DEF Alike, Session, owed
<1>4. f.type = "Snapshot" /\ f.gen = r.gen
  BY DEF Snapshot
<1> HIDE DEF r, t, f
<1>5. GoesTo(d, s, t)
  BY <1>3, GoesAlike DEF HandlesOnce, r
<1>6. \A v : SendsOnce(d, r, v) => SendsOnce(d, t, v)
  BY <1>3 DEF SendsOnce, Alike
<1>7. SendsOnce(d, t, f)
  BY <1>3, <1>4 DEF SendsOnce, Alike
<1>8. \A i \in 1..Len(out) : out[i] = f \/ \E j \in 1..Len(o.out) : out[i] = o.out[j]
  BY <1>2
<1>9. \A i \in 1..Len(out) : SendsOnce(d, t, out[i])
  BY <1>6, <1>7, <1>8 DEF HandlesOnce, r
<1> QED
  BY <1>1, <1>5, <1>9 DEF HandlesOnce

(* A frame is handled.                                                      *)
LEMMA ReceiveOnce ==
    ASSUME NEW n \in Nat, TypeTo(n), TypeOK, TypeOK', Safe, Safe', Once,
           NEW d \in Device, Receive(d)
    PROVE  Once' /\ Keeps
<1> DEFINE s == session[d]
           D == down[d]
           f == Head(D)
           h == handle(d, s, f)
           m == n + 2
<1>1. UNCHANGED typed /\ D # <<>> /\ linked[d]
  BY DEF Receive, tally, Safe, WireOK
<1>2. CASE s.on /\ f.gen = s.gen
  <2>1. m \in Nat /\ TypeTo(m) /\ fresh(d) \in 0..m
    BY TypeToGrows, FreshType
  <2>2. /\ s \in SessionTo(m) /\ D \in Seq(AnswerTo(m)) /\ FilesOK /\ D \in Seq(Answer)
    BY <2>1, Parts DEF TypeTo, SessionsTo, WireTo
  <2>3. f \in AnswerTo(m)
    BY <1>1, <2>2, SeqTypes
  <2>4. f.type = "State" /\ lost(s, f) => s.gen # MaxGen
    <3>1. f.type = "State" /\ lost(s, f) => s.gen < MaxGen
      BY <1>2 DEF Receive
    <3> QED
      BY <3>1, RoomAssumption
  <2>5. h \in OutcomeTo(m)
    BY <2>1, <2>2, <2>3, <2>4, HandleType
  <2>6. DownOK(s, f, past[s.gen], room[s.gen])
    <3>1. f = D[1] /\ 1 \in 1..Len(D)
      BY <1>1, <2>2
    <3> QED
      BY <1>1, <1>2, <3>1 DEF Safe, WireOK, Held, Conn, AnswersOK
  <2>7. HandlesOnce(d, s, h.session, h.out)
    <3>1. PICK r, a, log, row : r = s /\ a = f /\ log = past[s.gen] /\ row = room[s.gen]
      OBVIOUS
    <3> HIDE DEF m
    <3>2. /\ a \in AnswerTo(m) /\ DownOK(r, a, log, row) /\ r.on /\ a.gen = r.gen
          /\ r = session[d] /\ log = past[r.gen] /\ row = room[r.gen]
      BY <1>2, <2>3, <2>6, <3>1
    <3>3. HandlesOnce(d, r, handle(d, r, a).session, handle(d, r, a).out)
      BY <2>1, <3>2, HandleOnce
    <3> QED
      BY <3>1, <3>3
  <2>8. PICK o \in {h, compacting(h)} : Commit(d, o)
    <3>1. \E p \in {h}, leads \in BOOLEAN : Commit(d, IF leads THEN compacting(p) ELSE p)
      BY <1>2 DEF Receive
    <3> HIDE DEF h
    <3> QED
      BY <3>1
  <2> HIDE DEF h
  <2>9. o \in OutcomeTo(m) /\ HandlesOnce(d, s, o.session, o.out)
    <3>1. CASE o = h
      BY <2>5, <2>7, <3>1
    <3>2. CASE o = compacting(h)
      BY <2>1, <2>5, <2>7, <3>2, CompactingType, CompactingOnce
    <3> QED
      BY <3>1, <3>2
  <2>10. o.session \in Session /\ o.out \in Seq(Frame) /\ s \in Session
    <3>1. o.session \in SessionTo(m) /\ o.out \in Seq(FrameTo(m))
      BY <2>9 DEF OutcomeTo
    <3> QED
      BY <2>1, <3>1, SessionToIsSession, FrameToIsFrame, Parts
  <2>11. PICK r, t \in Session, out \in Seq(Frame) : r = s /\ t = o.session /\ out = o.out
    BY <2>10
  <2>12. HandlesOnce(d, r, t, out) /\ r = session[d] /\ r.on
    BY <1>2, <2>9, <2>11
  <2> QED
    BY <1>1, <2>8, <2>11, <2>12, CommitOnce
<1>3. CASE ~(s.on /\ f.gen = s.gen)
  <2> DEFINE p == ends(s, <<>>)
  <2>1. p.session = s /\ p.out = <<>> /\ ~p.settles
    BY DEF ends
  <2>2. \E q \in {p}, leads \in BOOLEAN :
           /\ leads => compactionDue(q)
           /\ Commit(d, IF leads THEN compacting(q) ELSE q)
    BY <1>3 DEF Receive
  <2> HIDE DEF p
  <2>3. Commit(d, p)
    BY <2>1, <2>2 DEF compactionDue
  <2>4. s \in Session /\ <<>> \in Seq(Frame)
    BY Parts
  <2>5. CASE s.on
    <3>1. Alike(s, s)
      BY DEF Alike
    <3>2. HandlesOnce(d, s, s, <<>>)
      BY <2>5, <3>1, StaysOnce
    <3>3. PICK r \in Session, out \in Seq(Frame) : r = s /\ out = <<>>
      BY <2>4
    <3>4. HandlesOnce(d, r, r, out) /\ r = session[d] /\ r.on /\ r = p.session /\ out = p.out
      BY <2>1, <2>5, <3>2, <3>3
    <3> QED
      BY <1>1, <2>3, <3>3, <3>4, CommitOnce
  <2>6. CASE ~s.on
    <3>1. ~s.bound
      <4>1. s = Off
        BY <2>6 DEF Once, NotYet
      <4> QED
        BY <4>1 DEF Off, Opened
    <3>2. /\ session' = session /\ view' = view /\ unwritten' = unwritten
          /\ UNCHANGED <<room, past, disk, stored>> /\ Send(d, <<>>)
      BY <2>1, <2>3, <3>1 DEF Commit, hub, TypeOK
    <3>3. \A k \in Socket : up'[k] = up[k]
      <4>1. \A k \in Socket : up[k] \in Seq(Frame)
        BY Parts
      <4>2. \A k \in Socket : up[k] \o <<>> = up[k]
        BY <4>1
      <4> QED
        BY <3>2, <4>2, SendParts
    <3>4. Once'
      BY <1>1, <3>2, <3>3, QuietOnce
    <3> QED
      BY <3>2, <3>4 DEF Keeps
  <2> QED
    BY <2>5, <2>6
<1> QED
  BY <1>2, <1>3

(* The editor follows the document: what was typed since goes in.           *)
LEMMA BindOnce ==
    ASSUME NEW n \in Nat, TypeTo(n), TypeOK, TypeOK', Safe, Safe', Once,
           NEW d \in Device, Bind(d)
    PROVE  Once' /\ Keeps
<1> DEFINE s == session[d]
           a == adopt(d, s)
           t == [a EXCEPT !.bound = TRUE]
<1>1. /\ s.on /\ s.joined /\ ~s.bound /\ UNCHANGED typed /\ Commit(d, ends(t, <<>>))
  BY DEF Bind, synced, tally
<1>2. /\ s \in Session /\ s.gen \in Gen /\ view[d] \in SUBSET Edit
  BY Parts, SessionFields DEF TypeOK
<1>3. /\ past[s.gen] # <<>> /\ past[s.gen][1] \subseteq s.doc /\ OpenOnce(d, s, view[d])
  BY <1>1, JoinedHasLog DEF Once
<1>4. /\ s.from # None /\ s.from \subseteq edits(s.doc) /\ s.from \subseteq view[d]
      /\ \A o \in logged(s.gen) : o.by = d => o \in s.doc
      /\ \A o \in owed(s) : o.by = d
  BY <1>1, <1>3 DEF OpenOnce
<1>5. PICK v : /\ v \in Session /\ v.on /\ v.gen = s.gen /\ v.known = s.known /\ v.joined
               /\ v.from = s.from /\ GrownOnce(d, v.doc, typed) /\ view[d] \subseteq edits(v.doc)
               /\ s.doc \subseteq v.doc /\ \A o \in owed(v) : o.by = d
               /\ a = [v EXCEPT !.from = None]
  <2>1. CASE s.from = view[d]
    <3>1. a = [s EXCEPT !.from = None]
      BY <2>1 DEF adopt
    <3>2. GrownOnce(d, s.doc, typed)
      BY DEF GrownOnce, Fresh, edits
    <3> HIDE DEF a
    <3> QED
      BY <1>1, <1>2, <1>4, <2>1, <3>1, <3>2
  <2>2. CASE s.from # view[d]
    <3>1. PICK b, m : b = s.from /\ m = merge(d, s, s.from, view[d])
      OBVIOUS
    <3>2. a = [m EXCEPT !.from = None]
      BY <1>4, <2>2, <3>1 DEF adopt
    <3> HIDE DEF a
    <3>3. PICK r \in Session : r = s
      BY <1>2
    <3>4. /\ r = session[d] /\ r.gen = session[d].gen /\ past[r.gen] # <<>>
          /\ past[r.gen][1] \subseteq r.doc /\ \A o \in logged(r.gen) : o.by = d => o \in r.doc
      BY <1>3, <1>4, <3>3
    <3>5. /\ b \subseteq edits(r.doc) /\ b \subseteq view[d] /\ m = merge(d, r, b, view[d])
      BY <1>4, <3>1, <3>3
    <3>6. r.doc \subseteq r.doc \cup logged(r.gen)
      OBVIOUS
    <3>7. Merges(d, r, m)
      BY <3>4, <3>5, <3>6, MergeOnce
    <3> QED
      BY <1>1, <1>4, <3>2, <3>3, <3>7 DEF Merges, Alike
  <2> QED
    BY <2>1, <2>2
<1> HIDE DEF a
<1>6. /\ t \in Session /\ t.on /\ t.gen = s.gen /\ t.known = s.known /\ t.joined /\ t.bound
      /\ t.from = None /\ t.doc = v.doc /\ owed(t) = owed(v)
  BY <1>5 DEF Session, owed
<1> HIDE DEF t
<1>7. OpenOnce(d, t, edits(t.doc))
  <2>1. \A g \in Gen : g > s.gen => \A o \in logged(g) : o.by = d => o \in past[g][1]
    BY <1>3 DEF OpenOnce
  <2>2. s.gen > 0 => s.known >= 1
    BY <1>3 DEF OpenOnce
  <2>3. \A o \in logged(s.gen) : o.by = d => o \in t.doc
    BY <1>4, <1>5, <1>6
  <2> QED
    BY <1>5, <1>6, <2>1, <2>2, <2>3 DEF OpenOnce
<1>8. HandlesOnce(d, s, t, <<>>)
  BY <1>5, <1>6, <1>7 DEF HandlesOnce, GoesTo
<1>9. ends(t, <<>>).session = t /\ ends(t, <<>>).out = <<>> /\ <<>> \in Seq(Frame)
  BY DEF ends
<1>10. PICK o : o = ends(t, <<>>)
  OBVIOUS
<1>11. PICK r, u \in Session, out \in Seq(Frame) : r = s /\ u = t /\ out = <<>>
  BY <1>2, <1>6, <1>9
<1>12. /\ HandlesOnce(d, r, u, out) /\ r = session[d] /\ r.on /\ Commit(d, o)
       /\ u = o.session /\ out = o.out
  BY <1>1, <1>8, <1>9, <1>10, <1>11
<1> QED
  BY <1>1, <1>12, CommitOnce

(* A session hands out what it owes.                                        *)
LEMMA HandsSafe ==
    ASSUME TypeOK, TypeOK', Safe, Safe', Once, NEW d \in Device, NEW s, s = session[d], s.on,
           NEW r, Alike(s, r), r.doc = s.doc, owed(r) \subseteq owed(s),
           NEW o, Commit(d, o), NEW t \in Session, t = o.session,
           NEW out \in Seq(Frame), out = o.out, UNCHANGED typed, Hands(r, owed(s), t, out)
    PROVE  Once' /\ Keeps
<1>1. Alike(s, t) /\ t.doc = s.doc /\ owed(t) \subseteq owed(s)
  BY DEF Hands, Alike
<1>2. GoesTo(d, s, t)
  BY <1>1, ToldOnce
<1>3. \A v \in owed(s) : v.by = d
  BY DEF Once, OpenOnce
<1>4. \A i \in 1..Len(out) : SendsOnce(d, t, out[i])
  BY <1>3 DEF Hands, Alike, SendsOnce
<1>5. HandlesOnce(d, s, t, out)
  BY <1>2, <1>4 DEF HandlesOnce
<1> QED
  BY <1>5, CommitOnce

(* What is pending is sent.                                                 *)
LEMMA FlushOnce ==
    ASSUME NEW n \in Nat, TypeTo(n), TypeOK, TypeOK', Safe, Safe', Once,
           NEW d \in Device, Flush(d)
    PROVE  Once' /\ Keeps
<1> DEFINE s == session[d]
           r == [s EXCEPT !.pending = {}]
           p == ship(r, s.pending)
           o == ends(p.session, p.out)
<1>1. s.on /\ Commit(d, o) /\ UNCHANGED typed
  BY DEF Flush, tally
<1>2. s \in Session
  BY Parts
<1>3. /\ r \in Session /\ Alike(s, r) /\ r.doc = s.doc /\ r.pending = {}
      /\ r.unacked = s.unacked
  BY <1>2 DEF Session, Alike
<1>4. o.session = p.session /\ o.out = p.out
  BY DEF ends
<1>5. o.session \in Session /\ o.out \in Seq(Frame)
  <2>1. OwnStep(s, p.session, p.out, past[s.gen], room[s.gen])
    BY <1>1, SessionParts, FlushOK
  <2> QED
    BY <1>4, <2>1 DEF OwnStep
<1> HIDE DEF r
<1>6. owed(r) \cup s.pending \subseteq owed(s)
  BY <1>3 DEF owed
<1>7. Hands(r, owed(s), p.session, p.out)
  BY <1>3, <1>6, ShipHands
<1> HIDE DEF p
<1>8. PICK q, c, t, out : q = s /\ c = o /\ t = p.session /\ out = p.out
  OBVIOUS
<1> HIDE DEF o
<1>9. /\ q = session[d] /\ q.on /\ Alike(q, r) /\ r.doc = q.doc /\ owed(r) \subseteq owed(q)
      /\ Commit(d, c) /\ t \in Session /\ t = c.session /\ out \in Seq(Frame) /\ out = c.out
      /\ Hands(r, owed(q), t, out)
  BY <1>1, <1>3, <1>4, <1>5, <1>6, <1>7, <1>8
<1> QED
  BY <1>1, <1>9, HandsSafe

(* What is unacked is sent again.                                           *)
LEMMA ResendOnce ==
    ASSUME NEW n \in Nat, TypeTo(n), TypeOK, TypeOK', Safe, Safe', Once,
           NEW d \in Device, Resend(d)
    PROVE  Once' /\ Keeps
<1> DEFINE s == session[d]
           p == resend(s)
           o == ends(p.session, p.out)
<1>1. s.on /\ Commit(d, o) /\ UNCHANGED typed
  BY DEF Resend
<1>2. s \in Session
  BY Parts
<1>3. Alike(s, s)
  BY DEF Alike
<1>4. o.session = p.session /\ o.out = p.out
  BY DEF ends
<1>5. o.session \in Session /\ o.out \in Seq(Frame)
  <2>1. OwnStep(s, p.session, p.out, past[s.gen], room[s.gen])
    BY <1>1, SessionParts, ResendStepOK
  <2> QED
    BY <1>4, <2>1 DEF OwnStep
<1>6. Hands(s, owed(s), p.session, p.out)
  BY <1>2, ResendHands
<1> HIDE DEF p
<1>7. PICK q, c, t, out : q = s /\ c = o /\ t = p.session /\ out = p.out
  OBVIOUS
<1> HIDE DEF o
<1>8. /\ q = session[d] /\ q.on /\ Alike(q, q) /\ Commit(d, c) /\ t \in Session
      /\ t = c.session /\ out \in Seq(Frame) /\ out = c.out /\ Hands(q, owed(q), t, out)
  BY <1>1, <1>3, <1>4, <1>5, <1>6, <1>7
<1> QED
  BY <1>1, <1>8, HandsSafe

(* A rotation is asked for.                                                 *)
LEMMA AskRotateOnce ==
    ASSUME NEW n \in Nat, TypeTo(n), TypeOK, TypeOK', Safe, Safe', Once,
           NEW d \in Device, AskRotate(d)
    PROVE  Once' /\ Keeps
<1> DEFINE s == session[d]
           r == [s EXCEPT !.asked = TRUE]
           f == Rotate(s.gen, s.seq, rebuild(s.doc))
           o == ends(r, <<f>>)
<1>1. /\ s.on /\ settled(s) /\ s.online /\ Commit(d, o) /\ UNCHANGED typed
  BY DEF AskRotate, settled, synced
<1>2. s \in Session
  BY Parts
<1>3. /\ r \in Session /\ Alike(s, r) /\ r.doc = s.doc /\ owed(r) = owed(s)
  BY <1>2 DEF Session, Alike, owed
<1>4. o.session = r /\ o.out = <<f>> /\ f.type = "Rotate" /\ f.gen = s.gen
  BY DEF ends, Rotate
<1>5. o.out \in Seq(Frame)
  <2>1. /\ s \in SessionTo(n) /\ past[s.gen] \in Seq(SUBSET Op)
        /\ LocalOK(s, past[s.gen], room[s.gen])
    BY <1>1, SessionParts, Parts
  <2>2. OwnStep(s, r, <<f>>, past[s.gen], room[s.gen])
    BY <1>1, <2>1, AskRotateOK
  <2> QED
    BY <1>4, <2>2 DEF OwnStep
<1> HIDE DEF r, f
<1>6. GoesTo(d, s, r)
  BY <1>1, <1>3, ToldOnce
<1>7. SendsOnce(d, r, f)
  BY <1>3, <1>4 DEF SendsOnce, Alike
<1>8. \A i \in 1..Len(<<f>>) : <<f>>[i] = f
  OBVIOUS
<1>9. HandlesOnce(d, s, r, o.out)
  BY <1>4, <1>6, <1>7, <1>8 DEF HandlesOnce
<1> HIDE DEF o
<1>10. PICK q, c, t, out : q = s /\ c = o /\ t = r /\ out = o.out
  OBVIOUS
<1>11. /\ q = session[d] /\ q.on /\ Commit(d, c) /\ t \in Session
       /\ t = c.session /\ out \in Seq(Frame) /\ out = c.out /\ HandlesOnce(d, q, t, out)
  BY <1>1, <1>3, <1>4, <1>5, <1>9, <1>10
<1> QED
  BY <1>1, <1>11, CommitOnce

(* Somebody types.                                                          *)
LEMMA TypeOnce ==
    ASSUME TypeOK, TypeOK', Once, NEW d \in Device, NEW e \in Edit, Type(d, e)
    PROVE  Once' /\ Keeps
<1>1. PICK s \in Session : s = session[d]
  BY Parts
<1> DEFINE op == [edit |-> e, by |-> d, client |-> s.client, cut |-> FALSE]
<1>2. /\ s.on /\ e \notin typed \cup Start /\ typed' = typed \cup {e}
      /\ view' = [view EXCEPT ![d] = @ \cup {e}]
      /\ UNCHANGED <<room, past, up, disk, unwritten, stored>>
  BY <1>1 DEF Type, hub, wire
<1>3. inserts(d, s.client, {e}) = {op} /\ op \in Op
  <2>1. PICK c \in Nat : c = s.client
    BY DEF Session
  <2>2. op \in Op
    BY <2>1 DEF Op
  <2>3. inserts(d, c, {e}) = {[edit |-> e, by |-> d, client |-> c, cut |-> FALSE]}
    <3> DEFINE v == [edit |-> e, by |-> d, client |-> c, cut |-> FALSE]
               N == inserts(d, c, {e})
    <3>1. ASSUME NEW o \in N PROVE o = v
      <4>1. o \in [edit : {e}, by : {d}, client : {c}, cut : {FALSE}]
        BY DEF inserts
      <4> QED
        BY <4>1
    <3>2. v \in N
      BY DEF inserts
    <3> HIDE DEF v, N
    <3>3. N = {v}
      BY <3>1, <3>2
    <3> QED
      BY <3>3 DEF v, N
  <2> QED
    BY <2>1, <2>2, <2>3
<1>4. op.edit = e /\ op.by = d /\ ~op.cut
  OBVIOUS
<1> HIDE DEF op
<1>5. PICK t \in Session :
         /\ session' = [session EXCEPT ![d] = t] /\ t.on /\ t.gen = s.gen /\ t.known = s.known
         /\ t.joined = s.joined /\ t.bound = s.bound /\ t.from = s.from /\ t.seed = s.seed
         /\ t.doc = (IF s.bound THEN s.doc \cup {op} ELSE s.doc)
         /\ \A v \in owed(t) : v \in owed(s) \/ (s.bound /\ v = op)
  <2>1. CASE ~s.bound
    <3>1. session' = session
      BY <1>1, <2>1 DEF Type
    <3>2. session = [session EXCEPT ![d] = s]
      BY <1>1 DEF TypeOK
    <3> QED
      BY <1>2, <2>1, <3>1, <3>2
  <2>2. CASE s.bound
    <3>1. PICK doc \in SUBSET Op, pending \in SUBSET Op :
             doc = s.doc \cup {op} /\ pending = s.pending \cup {op}
      BY <1>1, <1>3, SessionFields
    <3> DEFINE t == [s EXCEPT !.doc = doc, !.pending = pending]
    <3>2. session' = [session EXCEPT ![d] = t]
      BY <1>1, <1>3, <2>2, <3>1 DEF Type, TypeOK
    <3>3. /\ t \in Session /\ Alike(s, t) /\ t.doc = doc /\ t.pending = pending
          /\ t.unacked = s.unacked
      BY DEF Session, Alike
    <3> HIDE DEF t
    <3> QED
      BY <1>2, <2>2, <3>1, <3>2, <3>3 DEF owed, Alike
  <2> QED
    BY <2>1, <2>2
<1>6. session'[d] = t /\ view'[d] = view[d] \cup {e} /\ s.gen \in Gen
  BY <1>1, <1>2, <1>5, SessionFields DEF TypeOK
<1>7. /\ OpenOnce(d, s, view[d]) /\ FileOnce(d)
      /\ \A g \in Gen : \A o \in logged(g) : o.edit # e
      /\ \A x \in Device : \A o \in session[x].doc : o.edit # e
  BY <1>1, <1>2 DEF Once, MadeOnce, Insertion
<1>8. Fresh(d, op, typed')
  BY <1>1, <1>2, <1>4, <1>6, <1>7 DEF Fresh, Sole, edits
<1>9. GrownOnce(d, t.doc, typed')
  <2>1. \A o \in t.doc : o \in s.doc \/ o = op
    BY <1>5
  <2>2. \A o \in t.doc : Fresh(d, o, typed') => o = op
    BY <1>1, <2>1 DEF Fresh, edits
  <2> QED
    BY <1>1, <1>5, <1>8, <2>1, <2>2 DEF GrownOnce
<1>10. OpenOnce(d, t, view'[d])
  <2>1. \A v \in owed(t) : v.by = d
    BY <1>4, <1>5, <1>7 DEF OpenOnce
  <2>2. t.bound => view'[d] = edits(t.doc)
    BY <1>4, <1>5, <1>6, <1>7 DEF OpenOnce, edits
  <2>3. ~t.joined => t.doc = {} /\ owed(t) = {} /\ ~t.bound
    BY <1>5, <1>7 DEF OpenOnce
  <2>4. s.doc \subseteq t.doc
    BY <1>5
  <2>5. ~t.bound => t.doc = s.doc
    BY <1>5
  <2> QED
    BY <1>5, <1>6, <1>7, <2>1, <2>2, <2>3, <2>4, <2>5 DEF OpenOnce
<1>11. FileOnce(d)'
  BY <1>1, <1>2, <1>5, <1>6, <1>7 DEF FileOnce, AgreedOnce, logged
<1>12. NotYet(d)'
  BY <1>5, <1>6 DEF NotYet
<1>13. \A x \in Device \ {d} : /\ session'[x] = session[x] /\ view'[x] = view[x]
                               /\ disk'[x] = disk[x] /\ stored'[x] = stored[x]
                               /\ unwritten'[x] = unwritten[x]
  BY <1>2, <1>5 DEF TypeOK
<1>14. \A v \in view'[d] : v \in view[d] \/ v \in typed' \ (typed \cup Start)
  BY <1>2, <1>6
<1>15. /\ UNCHANGED past /\ \A g \in Gen : room'[g].moved = room[g].moved
       /\ typed \subseteq typed' /\ view[d] \subseteq view'[d]
       /\ t.gen = s.gen /\ (s.joined => t.joined)
       /\ \A k \in Socket : \A i \in 1..Len(up'[k]) : \E j \in 1..Len(up[k]) : up'[k][i] = up[k][j]
  BY <1>2, <1>5, <1>6
<1>16. Once'
  BY <1>1, <1>6, <1>9, <1>10, <1>11, <1>12, <1>13, <1>14, <1>15, DeviceOnce
<1> QED
  BY <1>13, <1>15, <1>16 DEF Keeps

(* Files and agreed texts are written.                                      *)
LEMMA FilesOnce ==
    ASSUME TypeOK, TypeOK', Once, NEW d \in Device,
           UNCHANGED <<room, past, up, session, view, typed>>,
           \A x \in Device \ {d} : /\ disk'[x] = disk[x] /\ stored'[x] = stored[x]
                                   /\ unwritten'[x] = unwritten[x],
           FileOnce(d)', NotYet(d)'
    PROVE  Once'
<1>1. PICK s : s = session[d]
  OBVIOUS
<1>2. OpenOnce(d, s, view[d])
  BY <1>1 DEF Once
<1>3. GrownOnce(d, s.doc, typed')
  BY <1>1 DEF GrownOnce, Fresh, edits
<1> QED
  BY <1>1, <1>2, <1>3, DeviceOnce

(* A note is saved.                                                         *)
LEMMA SaveOnce ==
    ASSUME TypeOK, TypeOK', Once, NEW d \in Device, Save(d)
    PROVE  Once'
<1>1. /\ session[d].on /\ disk' = [disk EXCEPT ![d] = view[d]]
      /\ UNCHANGED <<room, past, up, session, view, typed, stored, unwritten>>
  BY DEF Save, hub, wire
<1>2. disk'[d] = view[d]
  BY <1>1 DEF TypeOK
<1>3. FileOnce(d)
  BY DEF Once
<1>4. FileOnce(d)'
  BY <1>1, <1>2, <1>3 DEF FileOnce, AgreedOnce, logged
<1>5. NotYet(d)'
  BY <1>1 DEF NotYet
<1>6. \A x \in Device \ {d} : disk'[x] = disk[x]
  BY <1>1 DEF TypeOK
<1> QED
  BY <1>1, <1>4, <1>5, <1>6, FilesOnce

(* An agreed text is kept.                                                  *)
LEMMA WriteAgreedOnce ==
    ASSUME TypeOK, TypeOK', Once, NEW d \in Device, WriteAgreed(d)
    PROVE  Once'
<1>1. /\ unwritten[d] # None /\ unwritten' = [unwritten EXCEPT ![d] = None]
      /\ stored' = IF unwritten[d].text = disk[d]
                   THEN [stored EXCEPT ![d] = unwritten[d]] ELSE stored
      /\ UNCHANGED <<room, past, up, session, view, typed, disk>>
  BY DEF WriteAgreed, hub, wire
<1>2. /\ unwritten'[d] = None
      /\ stored'[d] = stored[d] \/ (stored'[d] = unwritten[d] /\ unwritten[d].text = disk[d])
  BY <1>1 DEF TypeOK
<1>3. FileOnce(d) /\ session[d].on
  BY <1>1 DEF Once, NotYet
<1>4. FileOnce(d)'
  BY <1>1, <1>2, <1>3 DEF FileOnce, AgreedOnce, logged
<1>5. NotYet(d)'
  BY <1>1, <1>3 DEF NotYet
<1>6. \A x \in Device \ {d} : stored'[x] = stored[x] /\ unwritten'[x] = unwritten[x]
  BY <1>1 DEF TypeOK
<1> QED
  BY <1>1, <1>4, <1>5, <1>6, FilesOnce

-----------------------------------------------------------------------------
(* Sockets, sessions that start, and rooms that are left.                   *)

(* A socket is lost.                                                        *)
LEMMA DisconnectOnce ==
    ASSUME TypeOK, TypeOK', Once, NEW d \in Device, Disconnect(d) PROVE Once'
<1>1. PICK s \in Session : s = session[d]
  BY Parts
<1>2. PICK t : t = offline(s)
  OBVIOUS
<1>3. /\ session' = [session EXCEPT ![d] = t]
      /\ UNCHANGED <<room, past, view, disk, unwritten, stored, typed>>
      /\ up' = up \/ up' = [up EXCEPT ![here(d)] = <<>>]
  BY <1>1, <1>2 DEF Disconnect, Unlink, hub
<1>4. session'[d] = t
  BY <1>3 DEF TypeOK
<1>5. Alike(s, t) /\ t.doc = s.doc /\ owed(t) = owed(s)
  BY <1>1, <1>2 DEF offline, Session, Alike, owed
<1>6. OpenOnce(d, s, view[d]) /\ NotYet(d) /\ FileOnce(d)
  BY <1>1 DEF Once
<1>7. OpenOnce(d, t, view'[d])
  BY <1>3, <1>5, <1>6 DEF OpenOnce, Alike
<1>8. GrownOnce(d, t.doc, typed')
  BY <1>1, <1>5 DEF GrownOnce, Fresh, edits
<1>9. NotYet(d)'
  <2>1. s = Off => t = Off
    <3>1. s = Off => s.online = FALSE /\ s.asked = FALSE /\ s.left = None
      BY DEF Off, Opened
    <3>2. s.online = FALSE /\ s.asked = FALSE /\ s.left = None => t = s
      BY <1>2 DEF offline, Session
    <3> QED
      BY <3>1, <3>2
  <2> QED
    BY <1>1, <1>3, <1>4, <1>5, <1>6, <2>1 DEF NotYet, Alike
<1>10. FileOnce(d)'
  BY <1>1, <1>3, <1>4, <1>5, <1>6 DEF FileOnce, AgreedOnce, Alike, logged
<1>11. \A x \in Device \ {d} : session'[x] = session[x]
  BY <1>3 DEF TypeOK
<1>12. ASSUME NEW k \in Socket, NEW i \in 1..Len(up'[k])
       PROVE  \E j \in 1..Len(up[k]) : up'[k][i] = up[k][j]
  <2>1. up'[k] = up[k] \/ up'[k] = <<>>
    BY <1>3 DEF TypeOK
  <2> QED
    BY <2>1
<1> QED
  BY <1>1, <1>3, <1>4, <1>5, <1>7, <1>8, <1>9, <1>10, <1>11, <1>12, DeviceOnce DEF Alike

(* A socket is opened, and asks for the room.                               *)
LEMMA ConnectOnce ==
    ASSUME TypeOK, TypeOK', Once, NEW d \in Device, Connect(d) PROVE Once'
<1> DEFINE next == <<d, 1 - cur[d]>>
           s == session[d]
           U == IF s.on THEN <<Sub(s.gen, s.seq)>> ELSE <<>>
<1>1. /\ up' = [up EXCEPT ![next] = U]
      /\ UNCHANGED <<room, past, session, view, disk, unwritten, stored, typed>>
  BY DEF Connect, hub, file, tally
<1>2. \A i \in 1..Len(U) : U[i].type = "Sub"
  BY DEF Sub
<1> HIDE DEF U, next
<1>3. \A k \in Socket : up'[k] = up[k] \/ up'[k] = U
  BY <1>1 DEF TypeOK
<1> QED
  BY <1>1, <1>2, <1>3, QuietOnce

(* The hub gives a dead socket up.                                          *)
LEMMA SweepOnce ==
    ASSUME TypeOK, TypeOK', Once, NEW c \in Socket, Sweep(c) PROVE Once'
<1>1. /\ up' = [up EXCEPT ![c] = <<>>]
      /\ UNCHANGED <<room, past, session, view, disk, unwritten, stored, typed>>
  BY DEF Sweep, hub, file, tally
<1>2. \A k \in Socket : up'[k] = up[k] \/ up'[k] = <<>>
  BY <1>1 DEF TypeOK
<1> QED
  BY <1>1, <1>2, QuietOnce

(* A session that starts has made nothing for its room.                     *)
LEMMA StartsOnce ==
    ASSUME NEW d, NEW g, NEW known, NEW client, NEW t, t = Opened(g, known, client)
    PROVE  /\ t.on /\ t.gen = g /\ t.known = known /\ ~t.joined /\ ~t.bound /\ t.from = None
           /\ t.seed = {} /\ t.doc = {} /\ owed(t) = {} /\ t.seq = 0
<1>1. /\ t.on /\ t.gen = g /\ t.known = known /\ ~t.joined /\ ~t.bound /\ t.from = None
      /\ t.seed = {} /\ t.doc = {} /\ t.pending = {} /\ t.unacked = {} /\ t.seq = 0
  BY DEF Opened
<1>2. outgoing(t.unacked) = {}
  BY <1>1, OutgoingOf
<1> QED
  BY <1>1, <1>2 DEF owed

(* A note is opened.                                                        *)
LEMMA OpensOnce ==
    ASSUME NEW n \in Nat, TypeTo(n), TypeOK, TypeOK', Once, NEW d \in Device, Open(d)
    PROVE  Once'
<1>1. /\ session[d] = Off /\ view[d] = Start /\ stored[d] = None /\ unwritten[d] = None
      /\ OpenOnce(d, session[d], view[d]) /\ FileOnce(d)
  BY DEF Open, Once, NotYet
<1>2. /\ Begin(d, 0, 0, <<>>)
      /\ UNCHANGED <<room, past, view, disk, unwritten, stored, typed>>
  BY <1>1 DEF Open, lastAgreed, knownAt, hub, file, tally
<1>3. PICK t : /\ t = Opened(0, 0, fresh(d)) /\ session' = [session EXCEPT ![d] = t]
               /\ Send(d, Append(<<>>, Sub(0, t.seq)))
  BY <1>2 DEF Begin
<1>4. /\ t.on /\ t.gen = 0 /\ t.known = 0 /\ ~t.joined /\ ~t.bound /\ t.from = None
      /\ t.seed = {} /\ t.doc = {} /\ owed(t) = {} /\ t.seq = 0
  BY <1>3, StartsOnce
<1>5. PICK s : s = session[d] /\ s.gen = 0 /\ ~s.joined /\ s.doc = {}
  BY <1>1 DEF Off, Opened
<1>6. session'[d] = t /\ \A x \in Device \ {d} : session'[x] = session[x]
  BY <1>3 DEF TypeOK
<1>7. OpenOnce(d, t, view'[d])
  BY <1>1, <1>2, <1>4, <1>5 DEF OpenOnce
<1>8. GrownOnce(d, t.doc, typed')
  BY <1>4, <1>5 DEF GrownOnce
<1>9. NotYet(d)'
  BY <1>4, <1>6 DEF NotYet
<1>10. FileOnce(d)'
  BY <1>1, <1>2 DEF FileOnce, AgreedOnce
<1>11. ASSUME NEW k \in Socket, NEW i \in 1..Len(up'[k])
       PROVE  \/ \E j \in 1..Len(up[k]) : up'[k][i] = up[k][j]
              \/ k[1] = d /\ SentOnce(d, up[k][i])'
  <2> DEFINE f == Sub(0, t.seq)
             out == Append(<<>>, f)
  <2>1. f.type = "Sub" /\ f \in Frame
    <3>1. 0 \in Gen
      BY RoomAssumption DEF Gen
    <3> QED
      BY <1>4, <3>1 DEF Sub, Frame
  <2> HIDE DEF f
  <2>2. out \in Seq(Frame) /\ \A j \in 1..Len(out) : out[j] = f
    BY <2>1
  <2>3. Send(d, out)
    BY <1>3 DEF f
  <2> HIDE DEF out
  <2>4. \/ \E j \in 1..Len(up[k]) : up'[k][i] = up[k][j]
        \/ k[1] = d /\ \E j \in 1..Len(out) : up'[k][i] = out[j]
    BY <2>2, <2>3, SentParts
  <2>5. CASE k[1] = d /\ up'[k][i] = f
    BY <2>1, <2>5 DEF SentOnce
  <2> QED
    BY <2>2, <2>4, <2>5
<1> QED
  BY <1>2, <1>4, <1>5, <1>6, <1>7, <1>8, <1>9, <1>10, <1>11, DeviceOnce

(* What it leaves the room with is its own.                                 *)
LEMMA PartsOnce ==
    ASSUME NEW n \in Nat, NEW s \in SessionTo(n), NEW i \in 1..Len(parting(s)),
           NEW f, f = parting(s)[i], f.type # "Unsub"
    PROVE  f.type = "Update" /\ f.gen = s.gen /\ f.ops = s.pending /\ s.online
<1> DEFINE u == Update(s.gen, s.sent + 1, s.pending)
           v == Unsub(s.gen)
<1>1. u.gen = s.gen /\ u.type = "Update" /\ u.ops = s.pending /\ v.type = "Unsub"
  BY DEF Update, Unsub
<1>2. parting(s) = (IF s.pending # {} /\ s.online THEN <<u>> ELSE <<>>) \o <<v>>
  BY DEF parting
<1> HIDE DEF u, v
<1>3. CASE s.pending # {} /\ s.online
  BY <1>1, <1>2, <1>3
<1>4. CASE ~(s.pending # {} /\ s.online)
  BY <1>1, <1>2, <1>4
<1> QED
  BY <1>3, <1>4

(* A session moves on to the next generation: the room it leaves has moved, *)
(* and the one it comes to starts with all that room showed.                *)
LEMMA FollowOnce ==
    ASSUME NEW n \in Nat, TypeTo(n), TypeOK, TypeOK', Safe, Once, NEW d \in Device, Follow(d)
    PROVE  Once'
<1>1. PICK s, g, known : /\ s = session[d] /\ g = s.gen + 1
                         /\ known = IF knownAt(d, g) < 1 THEN 1 ELSE knownAt(d, g)
  OBVIOUS
<1>2. /\ s.on /\ s.moved /\ g \in Gen /\ Begin(d, g, known, parting(s))
      /\ UNCHANGED <<room, past, view, disk, unwritten, stored, typed>>
  BY <1>1 DEF Follow, hub, file, tally
<1>3. PICK t : /\ t = Opened(g, known, fresh(d)) /\ session' = [session EXCEPT ![d] = t]
               /\ Send(d, Append(parting(s), Sub(g, t.seq)))
  BY <1>2 DEF Begin
<1>4. /\ t.on /\ t.gen = g /\ t.known = known /\ ~t.joined /\ ~t.bound /\ t.from = None
      /\ t.seed = {} /\ t.doc = {} /\ owed(t) = {} /\ t.seq = 0
  BY <1>3, StartsOnce
<1>5. /\ s \in Session /\ s \in SessionTo(n) /\ s.gen \in Gen /\ s.gen \in Nat /\ g \in Nat
      /\ s.gen < g /\ \A h \in Gen : h >= g => h > s.gen
  <2>1. s \in SessionTo(n)
    BY <1>1 DEF TypeTo, SessionsTo
  <2> QED
    BY <1>1, <2>1, Parts, SessionFields DEF Gen
<1>6. session'[d] = t /\ \A x \in Device \ {d} : session'[x] = session[x]
  BY <1>3 DEF TypeOK
<1>7. LocalOK(s, past[s.gen], room[s.gen]) /\ room[s.gen].moved
  BY <1>1, <1>2 DEF Safe, SessionOK, LocalOK, PlaceOK
<1>8. known >= 1
  <2>1. knownAt(d, g) \in Nat
    BY <1>2, KnownIsRoom
  <2> QED
    BY <1>1, <2>1
<1>9. /\ OpenOnce(d, s, view[d]) /\ FileOnce(d) /\ KnowsOnce(d)
  BY <1>1 DEF Once
<1>10. OpenOnce(d, session[d], view[d])' /\ NotYet(d)'
  <2>1. \A h \in Gen : h >= g => \A o \in logged(h) : o.by = d => o \in past[h][1]
    BY <1>5, <1>9 DEF OpenOnce
  <2>2. OpenOnce(d, t, view[d])
    BY <1>4, <1>5, <1>8, <2>1 DEF OpenOnce, Gen
  <2> QED
    BY <1>2, <1>4, <1>6, <2>2 DEF OpenOnce, NotYet, logged
<1>11. FileOnce(d)'
  <2>1. /\ stored[d] \in Agreed \cup {None} /\ unwritten[d] \in Agreed \cup {None}
    BY Parts
  <2>2. \A v \in Agreed : v.gen <= s.gen => v.gen <= g /\ v.gen # g
    BY <1>1, <1>5 DEF Agreed, Gen
  <2>3. AgreedOnce(d, stored[d])' /\ AgreedOnce(d, unwritten[d])'
    BY <1>1, <1>2, <1>4, <1>6, <1>9, <2>1, <2>2 DEF FileOnce, AgreedOnce, logged
  <2> QED
    BY <1>2, <1>9, <2>3 DEF FileOnce
<1>12. ASSUME NEW x \in Device
       PROVE  OpenOnce(x, session[x], view[x])' /\ NotYet(x)' /\ FileOnce(x)'
  <2>1. CASE x = d
    BY <1>10, <1>11, <2>1
  <2>2. CASE x # d
    BY <1>2, <1>6, <2>2, OthersOnce
  <2> QED
    BY <2>1, <2>2
<1>13. ASSUME NEW x \in Device, NEW f \in Frame, SentOnce(x, f) PROVE SentOnce(x, f)'
  <2>1. CASE x = d
    BY <1>1, <1>2, <1>7, <1>13, <2>1 DEF SentOnce
  <2>2. CASE x # d
    BY <1>2, <1>6, <1>13, <2>2, OthersOnce
  <2> QED
    BY <2>1, <2>2
<1>14. MadeOnce' /\ SharedOnce' /\ \A j \in Gen : RoomOnce(j)' /\ Distinct(Pool(j))'
  <2>1. \A x \in Device : session'[x].doc \subseteq session[x].doc
    BY <1>4, <1>6
  <2>2. MadeOnce'
    BY <1>2, <2>1 DEF Once, MadeOnce, Insertion, logged
  <2>3. SharedOnce'
    BY <1>2 DEF Once, SharedOnce, Shown, logged
  <2>4. \A j \in Gen : RoomOnce(j)'
    BY <1>2 DEF Once, RoomsOnce, RoomOnce, logged
  <2>5. ASSUME NEW j \in Gen PROVE Distinct(Pool(j))'
    <3>1. ASSUME NEW o \in Pool(j)' PROVE o \in Pool(j)
      <4>1. o \in logged(j)' \/ \E x \in Device : session'[x].gen = j /\ o \in session'[x].doc
        BY Zenon DEF Pool
      <4>2. o \in logged(j) \/ \E x \in Device : session[x].gen = j /\ o \in session[x].doc
        BY <1>2, <1>4, <1>6, <4>1 DEF logged
      <4> QED
        BY <4>2, PoolIs
    <3>2. Distinct(Pool(j))
      BY DEF Once, RoomsOnce
    <3> QED
      BY <3>1, <3>2 DEF Distinct
  <2> QED
    BY <2>2, <2>3, <2>4, <2>5
<1>15. ASSUME NEW x \in Device PROVE KnowsOnce(x)'
  <2>1. \A v \in Edit : Sole(x, v) => Sole(x, v)'
    BY <1>2, <1>4, <1>6 DEF Sole, logged
  <2>2. \A v \in Edit, h \in Gen : Older(h, v) => Older(h, v)'
    BY <1>2 DEF Older, logged
  <2>3. view[x] \in SUBSET Edit /\ \A o \in session[x].doc : o.edit \in Edit
    BY Parts, SessionFields DEF TypeOK, Op
  <2>4. CASE x # d
    <3>1. PICK r \in Session, h \in Gen : r = session[x] /\ h = session[x].gen
      BY Parts
    <3>2. session'[x] = r /\ view'[x] = view[x]
      BY <1>2, <1>6, <2>4, <3>1
    <3>3. \A v \in view[x] : v \in Start \/ v \in edits(r.doc) \/ Older(h, v)' \/ Sole(x, v)'
      BY <2>1, <2>2, <2>3, <3>1 DEF Once, KnowsOnce
    <3>4. \A o \in r.doc : o \in logged(h)' \/ Sole(x, o.edit)'
      BY <1>2, <2>1, <2>3, <3>1 DEF Once, KnowsOnce, logged
    <3> QED
      BY <3>1, <3>2, <3>3, <3>4 DEF KnowsOnce
  <2>5. CASE x = d
    <3>1. ASSUME NEW v \in view[d] PROVE v \in Start \/ Older(g, v) \/ Sole(d, v)
      <4>1. v \in Start \/ v \in edits(s.doc) \/ Older(s.gen, v) \/ Sole(d, v)
        BY <1>1, <1>9 DEF KnowsOnce
      <4>2. Older(s.gen, v) => Older(g, v)
        BY <1>5 DEF Older, Gen
      <4>3. CASE v \in edits(s.doc)
        <5>1. PICK o \in s.doc : o.edit = v
          BY <4>3 DEF edits
        <5>2. o \in logged(s.gen) => Older(g, v)
          BY <1>5, <5>1 DEF Older, edits
        <5> QED
          BY <1>1, <1>9, <5>1, <5>2 DEF KnowsOnce
      <4> QED
        BY <4>1, <4>2, <4>3
    <3> QED
      BY <1>2, <1>4, <1>6, <2>1, <2>2, <2>3, <2>5, <3>1 DEF KnowsOnce
  <2> QED
    BY <2>4, <2>5
<1>16. ASSUME NEW k \in Socket, NEW i \in 1..Len(up'[k]) PROVE SentOnce(k[1], up[k][i])'
  <2> DEFINE c == Sub(g, t.seq)
             out == Append(parting(s), c)
  <2>1. parting(s) \in Seq(Frame) /\ c \in Frame /\ c.type = "Sub"
    BY <1>2, <1>4, <1>5, PartingParts DEF Sub, Frame
  <2> HIDE DEF c
  <2>2. /\ out \in Seq(Frame)
        /\ \A j \in 1..Len(out) : out[j] = c \/ \E h \in 1..Len(parting(s)) : out[j] = parting(s)[h]
    BY <2>1
  <2>3. Send(d, out)
    BY <1>3 DEF c
  <2> HIDE DEF out
  <2>4. \/ \E j \in 1..Len(up[k]) : up'[k][i] = up[k][j]
        \/ k[1] = d /\ \E j \in 1..Len(out) : up'[k][i] = out[j]
    BY <2>2, <2>3, SentParts
  <2>5. ASSUME NEW j \in 1..Len(up[k]), up'[k][i] = up[k][j] PROVE SentOnce(k[1], up[k][i])'
    <3>1. up[k][j] \in Frame /\ k[1] \in Device
      BY Parts, ElementOfSeq DEF Socket
    <3>2. PICK f \in Frame : f = up[k][j] /\ SentOnce(k[1], f)
      BY <3>1 DEF Once, WireOnce
    <3>3. SentOnce(k[1], f)'
      BY <1>13, <3>1, <3>2
    <3> QED
      BY <2>5, <3>2, <3>3
  <2>6. CASE k[1] = d /\ up'[k][i] = c
    BY <2>1, <2>6 DEF SentOnce
  <2>7. ASSUME k[1] = d, NEW h \in 1..Len(parting(s)), up'[k][i] = parting(s)[h]
        PROVE  SentOnce(k[1], up[k][i])'
    <3>1. PICK f : f = parting(s)[h] /\ f = up'[k][i]
      BY <2>7
    <3>2. f.type # "Unsub" =>
             f.type = "Update" /\ f.gen = s.gen /\ f.ops = s.pending /\ s.online
      BY <1>5, <3>1, PartsOnce
    <3>3. s.online => past[s.gen] # <<>>
      <4>1. past[s.gen] \in Seq(SUBSET Op) /\ s.seq \in Nat
        BY <1>5, Parts, SessionFields
      <4> QED
        BY <1>7, <4>1 DEF LocalOK, PlaceOK
    <3>4. \A o \in s.pending : o.by = d
      BY <1>9 DEF OpenOnce, owed
    <3>5. SentOnce(d, f)'
      BY <1>2, <1>7, <3>2, <3>3, <3>4 DEF SentOnce
    <3> QED
      BY <2>7, <3>1, <3>5
  <2> QED
    BY <2>2, <2>4, <2>5, <2>6, <2>7
<1> QED
  BY <1>12, <1>14, <1>15, <1>16 DEF Once, RoomsOnce, WireOnce

-----------------------------------------------------------------------------
(* Every step, from the first state on.                                     *)

(* Nobody has written anything yet.                                         *)
LEMMA InitOnce == ASSUME Init PROVE Once
<1>1. \A g \in Gen : past[g] = <<>> /\ logged(g) = {}
  BY NothingMerged DEF Init, logged
<1>2. \A d \in Device : /\ session[d] = Off /\ view[d] = Start /\ disk[d] = Start
                        /\ unwritten[d] = None /\ stored[d] = None
  BY DEF Init
<1>3. \A k \in Socket : up[k] = <<>>
  BY DEF Init
<1>4. PICK s : s = Off
  OBVIOUS
<1>5. /\ ~s.on /\ s.gen = 0 /\ ~s.joined /\ ~s.bound /\ s.from = None
      /\ s.seed = {} /\ s.doc = {} /\ s.pending = {} /\ s.unacked = {}
  BY <1>4 DEF Off, Opened
<1>6. owed(s) = {}
  <2>1. outgoing(s.unacked) = {}
    BY <1>5, OutgoingOf
  <2> QED
    BY <1>5, <2>1 DEF owed
<1>7. ASSUME NEW d \in Device
      PROVE  OpenOnce(d, session[d], view[d]) /\ NotYet(d) /\ FileOnce(d) /\ KnowsOnce(d)
  <2>1. OpenOnce(d, s, Start)
    BY <1>1, <1>5, <1>6 DEF OpenOnce
  <2>2. FileOnce(d) /\ NotYet(d)
    BY <1>2 DEF FileOnce, AgreedOnce, NotYet
  <2>3. KnowsOnce(d)
    BY <1>2, <1>4, <1>5 DEF KnowsOnce
  <2> QED
    BY <1>2, <1>4, <2>1, <2>2, <2>3
<1>8. WireOnce /\ SharedOnce
  BY <1>2, <1>3 DEF WireOnce, SharedOnce
<1>9. MadeOnce
  BY <1>1, <1>2, <1>4, <1>5 DEF MadeOnce
<1>10. RoomsOnce
  <2>1. \A g \in Gen : \A o : o \notin Pool(g)
    BY <1>1, <1>2, <1>4, <1>5, PoolIs
  <2> QED
    BY <1>1, <2>1 DEF RoomsOnce, RoomOnce, Distinct
<1> QED
  BY <1>7, <1>8, <1>9, <1>10 DEF Once

(* While sessions stay, it is inductive.                                    *)
LEMMA NextOnce ==
    ASSUME Steady, NEW n \in Nat, TypeTo(n), TypeTo(n + 2)', TypeOK, TypeOK', Safe, Safe',
           Once, [Next]_vars
    PROVE  Once' /\ Keeps
<1>1. UNCHANGED view => Keeps
  BY DEF Keeps
<1>2. ASSUME NEW k \in Socket, HubStep(k) \/ HubOver(k) \/ Sweep(k) PROVE Once' /\ Keeps
  <2>1. CASE HubStep(k) \/ HubOver(k)
    <3>1. UNCHANGED view
      BY <2>1 DEF HubStep, HubSub, HubUnsub, HubIgnores, HubSendsMoved, HubSeed, HubUpdate,
                  HubSnapshot, HubRotate, HubOver, TakesLive, Takes, file
    <3> QED
      BY <1>1, <2>1, <3>1, HubOnce
  <2>2. CASE Sweep(k)
    <3>1. UNCHANGED view
      BY <2>2 DEF Sweep, file
    <3> QED
      BY <1>1, <2>2, <3>1, SweepOnce
  <2> QED
    BY <1>2, <2>1, <2>2
<1>3. ASSUME NEW d \in Device, Act(d) \/ EarlyAckTimeout(d) PROVE Once' /\ Keeps
  <2>1. CASE Receive(d)
    BY <2>1, ReceiveOnce
  <2>2. CASE Open(d)
    <3>1. UNCHANGED view
      BY <2>2 DEF Open, file
    <3> QED
      BY <1>1, <2>2, <3>1, OpensOnce
  <2>3. CASE Bind(d)
    BY <2>3, BindOnce
  <2>4. CASE Flush(d)
    BY <2>4, FlushOnce
  <2>5. CASE Resend(d)
    BY <2>5, ResendOnce
  <2>6. CASE Follow(d)
    <3>1. UNCHANGED view
      BY <2>6 DEF Follow, file
    <3> QED
      BY <1>1, <2>6, <3>1, FollowOnce
  <2>7. CASE Connect(d)
    <3>1. UNCHANGED view
      BY <2>7 DEF Connect, file
    <3> QED
      BY <1>1, <2>7, <3>1, ConnectOnce
  <2> QED
    BY <1>3, <2>1, <2>2, <2>3, <2>4, <2>5, <2>6, <2>7 DEF Act, AckTimeout, EarlyAckTimeout
<1>4. ASSUME NEW d \in Device, Save(d) \/ WriteAgreed(d) \/ Disconnect(d) PROVE Once' /\ Keeps
  <2>1. UNCHANGED view
    BY <1>4 DEF Save, WriteAgreed, Disconnect
  <2> QED
    BY <1>1, <1>4, <2>1, SaveOnce, WriteAgreedOnce, DisconnectOnce
<1>5. ASSUME NEW d \in Device, AskRotate(d) \/ \E e \in Edit : Type(d, e) PROVE Once' /\ Keeps
  BY <1>5, AskRotateOnce, TypeOnce
<1>6. ~Wipe /\ \A d \in Device : ~Crash(d) /\ ~Close(d)
  BY DEF Steady, Wipe, Crash, Close, fault
<1>7. CASE UNCHANGED vars
  <2>1. UNCHANGED <<room, past, up, session, view, stored, unwritten, disk, typed>>
    BY <1>7 DEF vars, hub, wire, file, tally
  <2> QED
    BY <1>1, <2>1, QuietOnce
<1> QED
  BY <1>2, <1>3, <1>4, <1>5, <1>6, <1>7 DEF Next

(* So it holds with the types and the logs, from the first state on, and    *)
(* every step keeps what is shown.                                          *)
LEMMA OnceHolds == ASSUME Steady PROVE Spec => []Once /\ [][Keeps]_vars
<1>1. Kept
  BY DEF Steady, Kept
<1>2. Spec => [](TypeOK /\ Safe)
  BY <1>1, SafeHolds
<1>3. TypeInv /\ TypeOK /\ TypeOK' /\ Safe /\ Safe' /\ Once /\ [Next]_vars => Once' /\ Keeps
  <2> SUFFICES ASSUME TypeInv, TypeOK, TypeOK', Safe, Safe', Once, [Next]_vars
               PROVE  Once' /\ Keeps
    OBVIOUS
  <2>1. PICK n \in Nat : TypeTo(n)
    BY DEF TypeInv
  <2>2. TypeTo(n + 2)'
    BY <2>1, NextType
  <2> QED
    BY <2>1, <2>2, NextOnce
<1>4. Init => Once
  BY InitOnce
<1> QED
  BY <1>2, <1>3, <1>4, TypesBounded, PTL DEF Spec

(* While notes stay open, no room shows an edit twice: not through seeds by *)
(* several devices at once, resends, joins with text typed meanwhile,       *)
(* rotations, dead sockets and late frames, for any devices, edits and      *)
(* generations (docs.ts seed: concurrent seeds would double the text).      *)
THEOREM NothingIsDoubled == ASSUME Steady PROVE Spec => []NoDoubling
<1>1. Once => NoDoubling
  <2> SUFFICES ASSUME Once, NEW g \in Gen, NEW o \in live(merged(past[g])),
                      NEW p \in live(merged(past[g])), o.edit = p.edit
               PROVE  o = p
    BY DEF NoDoubling
  <2>1. o \in logged(g) /\ p \in logged(g)
    BY DEF live, logged
  <2>2. o \in Pool(g) /\ p \in Pool(g)
    BY <2>1, PoolIs
  <2> QED
    BY <2>2 DEF Once, RoomsOnce, Distinct
<1> QED
  BY <1>1, OnceHolds, PTL

(* Nor does a merge take out what nobody deleted: the base an open merges   *)
(* from is in the room (agreed-texts.ts base).                              *)
THEOREM NothingIsUndone == ASSUME Steady PROVE Spec => []NothingUndone
<1>1. Once => NothingUndone
  BY DEF Once, MadeOnce, Insertion, NothingUndone, logged
<1> QED
  BY <1>1, OnceHolds, PTL

(* And an open note's text loses nothing: not when the room is joined,      *)
(* bound, or followed to its successor (session.ts join, bind, follow).     *)
THEOREM TextIsKept == ASSUME Steady PROVE Spec => ViewKeeps
<1>1. [Keeps]_vars =>
         [\A d \in Device : session[d].on /\ session'[d].on => view[d] \subseteq view'[d]]_vars
  BY DEF Keeps
<1> QED
  BY <1>1, OnceHolds, PTL DEF ViewKeeps
=============================================================================
