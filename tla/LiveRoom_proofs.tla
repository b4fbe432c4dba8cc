---------------------------- MODULE LiveRoom_proofs ----------------------------
(***************************************************************************)
(* LiveRoom's variables keep their types, whatever faults happen.  Then,   *)
(* while no log is lost and a note is opened again only once its last      *)
(* session has left the wire: agreed texts are the room's, rooms keep what *)
(* they logged, and a device still owes its room what that does not have.  *)
(* The first half is of one session, the frames on their way to and from   *)
(* it and the log of its room: what a frame more, a frame less, a longer   *)
(* log or a later session leaves of each.  The second is the system's.     *)
(***************************************************************************)
EXTENDS LiveRoom, TLAPS, SequenceTheorems, FiniteSetTheorems

-----------------------------------------------------------------------------
(* Client ids are drawn fresh, so their type needs a bound on those already *)
(* drawn: the types again, with every client id at most `n`.                *)

OpTo(n) == [edit : Edit, by : Device, client : 0..n, cut : BOOLEAN]

RowTo(n) == [log : Nat, deltas : Seq(SUBSET OpTo(n)), snap : SUBSET OpTo(n), snapSeq : Nat,
             moved : BOOLEAN]

(* A rotation is asked of a generation that has a next one.                 *)
FrameTo(n) ==
    [type : {"Sub"}, gen : Gen, since : Nat]
    \cup [type : {"Unsub"}, gen : Gen]
    \cup [type : {"Seed"}, gen : Gen, ops : SUBSET OpTo(n)]
    \cup [type : {"Update"}, gen : Gen, n : Nat, ops : SUBSET OpTo(n)]
    \cup [type : {"Snapshot"}, gen : Gen, upto : Nat, ops : SUBSET OpTo(n)]
    \cup [type : {"Rotate"}, gen : Gen \ {MaxGen}, upto : Nat, ops : SUBSET OpTo(n)]

(* No more deltas than the log is long.                                     *)
StateTo(n) ==
    {f \in [type : {"State"}, gen : Gen, head : Nat, log : Nat, whole : BOOLEAN,
            count : Nat, ops : SUBSET OpTo(n)] : f.count <= f.head}

AnswerTo(n) ==
    StateTo(n)
    \cup [type : {"Fanout"}, gen : Gen, seq : Nat, ops : SUBSET OpTo(n)]
    \cup [type : {"Echo"}, gen : Gen, seq : Nat, n : Nat]
    \cup [type : {"Moved"}, gen : Gen]

OutgoingTo(n) == [n : Nat, ops : SUBSET OpTo(n)]

SessionTo(n) ==
    [on : BOOLEAN, gen : Gen, client : 0..n, joined : BOOLEAN, online : BOOLEAN,
     moved : BOOLEAN, bound : BOOLEAN, asked : BOOLEAN, from : (SUBSET Edit) \cup {None},
     seed : SUBSET (SUBSET OpTo(n)), doc : SUBSET OpTo(n), pending : SUBSET OpTo(n),
     unacked : SUBSET OutgoingTo(n), sent : Nat, seq : Nat, compacted : Nat, name : Nat,
     known : Nat, left : Left \cup {None}]

HubTo(n) ==
    /\ room \in [Gen -> RowTo(n)] /\ names \in Nat
    /\ past \in [Gen -> Seq(SUBSET OpTo(n))]

WireTo(n) ==
    /\ up \in [Socket -> Seq(FrameTo(n))] /\ down \in [Device -> Seq(AnswerTo(n))]
    /\ cur \in [Device -> {0, 1}] /\ linked \in [Device -> BOOLEAN]
    /\ follows \in [Socket -> SUBSET Gen]

SessionsTo(n) == session \in [Device -> SessionTo(n)]

FilesOK ==
    /\ view \in [Device -> SUBSET Edit] /\ disk \in [Device -> SUBSET Edit]
    /\ unwritten \in [Device -> Agreed \cup {None}]
    /\ stored \in [Device -> Agreed \cup {None}]

CountsOK ==
    /\ typed \subseteq Edit /\ rotations \in 0..MaxRotations
    /\ saves \in 0..MaxSaves /\ faults \in 0..MaxFaults

TypeTo(n) == HubTo(n) /\ WireTo(n) /\ SessionsTo(n) /\ FilesOK /\ CountsOK

TypeInv == \E n \in Nat : TypeTo(n)

-----------------------------------------------------------------------------
(* A larger bound allows more.                                              *)

(* Operations under a larger bound.                                         *)
LEMMA OpToGrows == ASSUME NEW n \in Nat, NEW m \in Nat, n <= m PROVE OpTo(n) \subseteq OpTo(m)
BY DEF OpTo

(* A bounded operation is one.                                              *)
LEMMA OpToIsOp == ASSUME NEW n \in Nat PROVE OpTo(n) \subseteq Op
BY DEF OpTo, Op

(* The hub's rows, likewise.                                                *)
LEMMA RowToGrows == ASSUME NEW n \in Nat, NEW m \in Nat, n <= m PROVE RowTo(n) \subseteq RowTo(m)
<1>1. OpTo(n) \subseteq OpTo(m)
  BY OpToGrows
<1>2. ASSUME NEW q \in Seq(SUBSET OpTo(n)) PROVE q \in Seq(SUBSET OpTo(m))
  BY <1>1, SeqMonotonic
<1> QED
  BY <1>1, <1>2 DEF RowTo

(* A bounded row is one.                                                    *)
LEMMA RowToIsRow == ASSUME NEW n \in Nat PROVE RowTo(n) \subseteq Row
<1>1. OpTo(n) \subseteq Op
  BY OpToIsOp
<1>2. ASSUME NEW q \in Seq(SUBSET OpTo(n)) PROVE q \in Seq(SUBSET Op)
  BY <1>1, SeqMonotonic
<1> QED
  BY <1>1, <1>2 DEF RowTo, Row

(* Frames on their way to the hub.                                          *)
LEMMA FrameToGrows ==
    ASSUME NEW n \in Nat, NEW m \in Nat, n <= m PROVE FrameTo(n) \subseteq FrameTo(m)
<1>1. OpTo(n) \subseteq OpTo(m)
  BY OpToGrows
<1> QED
  BY <1>1 DEF FrameTo

(* A bounded frame is one.                                                  *)
LEMMA FrameToIsFrame == ASSUME NEW n \in Nat PROVE FrameTo(n) \subseteq Frame
<1>1. OpTo(n) \subseteq Op
  BY OpToIsOp
<1> QED
  BY <1>1 DEF FrameTo, Frame

(* Frames on their way to a device.                                         *)
LEMMA AnswerToGrows ==
    ASSUME NEW n \in Nat, NEW m \in Nat, n <= m PROVE AnswerTo(n) \subseteq AnswerTo(m)
<1>1. OpTo(n) \subseteq OpTo(m)
  BY OpToGrows
<1> QED
  BY <1>1 DEF AnswerTo, StateTo

(* A bounded answer is one.                                                 *)
LEMMA AnswerToIsAnswer == ASSUME NEW n \in Nat PROVE AnswerTo(n) \subseteq Answer
<1>1. OpTo(n) \subseteq Op
  BY OpToIsOp
<1> QED
  BY <1>1 DEF AnswerTo, StateTo, Answer, StateFrame

(* Sessions.                                                                *)
LEMMA SessionToGrows ==
    ASSUME NEW n \in Nat, NEW m \in Nat, n <= m PROVE SessionTo(n) \subseteq SessionTo(m)
<1>1. OpTo(n) \subseteq OpTo(m)
  BY OpToGrows
<1>2. OutgoingTo(n) \subseteq OutgoingTo(m)
  BY <1>1 DEF OutgoingTo
<1>3. 0..n \subseteq 0..m
  OBVIOUS
<1> QED
  BY <1>1, <1>2, <1>3 DEF SessionTo

(* A bounded session is one.                                                *)
LEMMA SessionToIsSession == ASSUME NEW n \in Nat PROVE SessionTo(n) \subseteq Session
<1>1. OpTo(n) \subseteq Op
  BY OpToIsOp
<1>2. OutgoingTo(n) \subseteq Outgoing
  BY <1>1 DEF OutgoingTo, Outgoing
<1> QED
  BY <1>1, <1>2 DEF SessionTo, Session

(* The whole state under a larger bound.                                    *)
LEMMA TypeToGrows ==
    ASSUME NEW n \in Nat, NEW m \in Nat, n <= m, TypeTo(n) PROVE TypeTo(m)
<1>1. HubTo(m)
  <2>1. ASSUME NEW q \in Seq(SUBSET OpTo(n)) PROVE q \in Seq(SUBSET OpTo(m))
    BY OpToGrows, SeqMonotonic
  <2> QED
    BY <2>1, RowToGrows DEF TypeTo, HubTo
<1>2. WireTo(m)
  <2>1. ASSUME NEW q \in Seq(FrameTo(n)) PROVE q \in Seq(FrameTo(m))
    BY FrameToGrows, SeqMonotonic
  <2>2. ASSUME NEW q \in Seq(AnswerTo(n)) PROVE q \in Seq(AnswerTo(m))
    BY AnswerToGrows, SeqMonotonic
  <2> QED
    BY <2>1, <2>2 DEF TypeTo, WireTo
<1>3. SessionsTo(m)
  BY SessionToGrows DEF TypeTo, SessionsTo
<1> QED
  BY <1>1, <1>2, <1>3 DEF TypeTo

(* The bounded types imply the type invariant, whatever the bound.          *)
LEMMA TypeToImpliesTypeOK == ASSUME NEW n \in Nat, TypeTo(n) PROVE TypeOK
<1>1. room \in [Gen -> Row] /\ names \in Nat
  BY RowToIsRow DEF TypeTo, HubTo
<1>2. past \in [Gen -> Seq(SUBSET Op)]
  <2>1. ASSUME NEW q \in Seq(SUBSET OpTo(n)) PROVE q \in Seq(SUBSET Op)
    BY OpToIsOp, SeqMonotonic
  <2> QED
    BY <2>1 DEF TypeTo, HubTo
<1>3. up \in [Socket -> Seq(Frame)]
  <2>1. ASSUME NEW q \in Seq(FrameTo(n)) PROVE q \in Seq(Frame)
    BY FrameToIsFrame, SeqMonotonic
  <2> QED
    BY <2>1 DEF TypeTo, WireTo
<1>4. down \in [Device -> Seq(Answer)]
  <2>1. ASSUME NEW q \in Seq(AnswerTo(n)) PROVE q \in Seq(Answer)
    BY AnswerToIsAnswer, SeqMonotonic
  <2> QED
    BY <2>1 DEF TypeTo, WireTo
<1>5. session \in [Device -> Session]
  BY SessionToIsSession DEF TypeTo, SessionsTo
<1> QED
  BY <1>1, <1>2, <1>3, <1>4, <1>5 DEF TypeTo, WireTo, FilesOK, CountsOK, TypeOK

-----------------------------------------------------------------------------
(* Operators of RoomStore.                                                  *)

(* A text's edits, and its operations, are those of the document.           *)
LEMMA TextType ==
    ASSUME NEW n \in Nat, NEW ops \in SUBSET OpTo(n)
    PROVE  Text(ops) \subseteq Edit /\ live(ops) \subseteq ops /\ rebuild(ops) \subseteq OpTo(n)
BY DEF Text, live, rebuild, OpTo

(* Merging adds nothing of its own.                                         *)
LEMMA MergedType ==
    ASSUME NEW X, NEW updates \in Seq(SUBSET X) PROVE merged(updates) \subseteq X
<1>1. \A i \in DOMAIN updates : updates[i] \in SUBSET X
  BY ElementOfSeq, LenProperties
<1> QED
  BY <1>1 DEF merged

(* A slice holds what the sequence does.                                    *)
LEMMA SubSeqType ==
    ASSUME NEW X, NEW q \in Seq(X), NEW i \in Nat \ {0}, NEW j \in Nat, j <= Len(q)
    PROVE  SubSeq(q, i, j) \in Seq(X)
<1>1. \A k \in i..j : q[k] \in X
  BY ElementOfSeq
<1> QED
  BY <1>1, SubSeqProperties

(* A document that was never written is a row.                              *)
LEMMA NoRowType == ASSUME NEW n \in Nat PROVE NoRow \in RowTo(n)
BY EmptySeq DEF NoRow, RowTo

(* insert keeps the row's type.                                             *)
LEMMA InsertType ==
    ASSUME NEW n \in Nat, NEW row \in RowTo(n), NEW ops \in SUBSET OpTo(n), NEW name \in Nat
    PROVE  insert(row, ops, name) \in RowTo(n)
<1>1. Append(row.deltas, ops) \in Seq(SUBSET OpTo(n))
  BY AppendProperties DEF RowTo
<1> QED
  BY <1>1 DEF insert, RowTo

(* markMoved keeps the row's type.                                          *)
LEMMA MarkMovedType ==
    ASSUME NEW n \in Nat, NEW row \in RowTo(n) PROVE markMoved(row) \in RowTo(n)
BY EmptySeq DEF markMoved, RowTo

(* A room's head is a natural number.                                       *)
LEMMA HeadType == ASSUME NEW n \in Nat, NEW row \in RowTo(n) PROVE head(row) \in Nat
<1>1. Len(row.deltas) \in Nat
  BY LenProperties DEF RowTo
<1> QED
  BY <1>1 DEF head, RowTo

(* compact keeps the row's type, whatever `upto` it is given.               *)
LEMMA CompactType ==
    ASSUME NEW n \in Nat, NEW row \in RowTo(n), NEW upto \in Nat, NEW ops \in SUBSET OpTo(n)
    PROVE  compact(row, upto, ops) \in RowTo(n)
<1> DEFINE covered == IF upto < head(row) THEN upto ELSE head(row)
<1>1. head(row) \in Nat /\ row.snapSeq \in Nat /\ Len(row.deltas) \in Nat
  BY HeadType, LenProperties DEF RowTo
<1>2. CASE covered <= row.snapSeq
  BY <1>2 DEF compact
<1>3. CASE ~(covered <= row.snapSeq)
  <2>1. covered \in Nat /\ covered - row.snapSeq + 1 \in Nat \ {0}
    BY <1>1, <1>3
  <2>2. SubSeq(row.deltas, covered - row.snapSeq + 1, Len(row.deltas)) \in Seq(SUBSET OpTo(n))
    BY <1>1, <2>1, SubSeqType DEF RowTo
  <2> QED
    BY <1>3, <2>1, <2>2 DEF compact, RowTo
<1> QED
  BY <1>2, <1>3

(* What a room answers: no more deltas than the log is long.                *)
LEMMA StateType ==
    ASSUME NEW n \in Nat, NEW row \in RowTo(n), NEW since \in Nat
    PROVE  LET answer == state(row, since)
           IN  /\ answer.head \in Nat /\ answer.log \in Nat /\ answer.whole \in BOOLEAN
               /\ answer.count \in Nat /\ answer.count <= answer.head
               /\ answer.ops \in SUBSET OpTo(n)
<1> DEFINE whole == since < row.snapSeq
           from  == IF whole THEN row.snapSeq ELSE since
           tail  == SubSeq(row.deltas, from - row.snapSeq + 1, Len(row.deltas))
<1>1. head(row) \in Nat /\ row.snapSeq \in Nat /\ Len(row.deltas) \in Nat
  BY HeadType, LenProperties DEF RowTo
<1>2. from \in Nat /\ from - row.snapSeq + 1 \in Nat \ {0}
  BY <1>1
<1>3. tail \in Seq(SUBSET OpTo(n))
  BY <1>1, <1>2, SubSeqType DEF RowTo
<1>4. merged(tail) \subseteq OpTo(n)
  BY <1>3, MergedType
<1>5. row.log \in Nat /\ row.snap \in SUBSET OpTo(n)
  BY DEF RowTo
<1> QED
  BY <1>1, <1>2, <1>4, <1>5 DEF state

-----------------------------------------------------------------------------
(* A fresh client id is one more than the ids drawn, at the most.           *)

(* Frames carry operations within the bound.                                *)
LEMMA CarriedType ==
    ASSUME NEW n \in Nat, NEW q,
           q \in Seq(FrameTo(n)) \/ q \in Seq(AnswerTo(n))
    PROVE  carried(q) \subseteq OpTo(n)
<1>1. ASSUME NEW f \in FrameTo(n), "ops" \in DOMAIN f PROVE f.ops \subseteq OpTo(n)
  BY <1>1 DEF FrameTo
<1>2. ASSUME NEW f \in AnswerTo(n), "ops" \in DOMAIN f PROVE f.ops \subseteq OpTo(n)
  BY <1>2 DEF AnswerTo, StateTo
<1>3. \A i \in DOMAIN q : q[i] \in FrameTo(n) \/ q[i] \in AnswerTo(n)
  BY ElementOfSeq, LenProperties
<1> QED
  BY <1>1, <1>2, <1>3 DEF carried

(* A new document's client id is at most two over the bound.                *)
LEMMA FreshType ==
    ASSUME NEW n \in Nat, TypeTo(n), NEW d \in Device PROVE fresh(d) \in 0..(n + 2)
<1> DEFINE ops == (UNION {merged(past[g]) : g \in Gen})
                  \cup (UNION {session[x].doc : x \in Device})
                  \cup (UNION {UNION session[x].seed : x \in Device})
                  \cup (UNION {carried(up[s]) : s \in Socket})
                  \cup (UNION {carried(down[x]) : x \in Device})
           drawn == {session[d].client} \cup {o.client : o \in {p \in ops : p.by = d}}
           next == CHOOSE k \in 1..(Cardinality(drawn) + 1) : k \notin drawn
<1>1. ops \subseteq OpTo(n)
  <2>1. \A g \in Gen : merged(past[g]) \subseteq OpTo(n)
    BY MergedType DEF TypeTo, HubTo
  <2>2. \A s \in Socket : carried(up[s]) \subseteq OpTo(n)
    BY CarriedType DEF TypeTo, WireTo
  <2>3. \A x \in Device : carried(down[x]) \subseteq OpTo(n)
    BY CarriedType DEF TypeTo, WireTo
  <2>4. \A x \in Device : session[x].doc \subseteq OpTo(n)
    BY DEF TypeTo, SessionsTo, SessionTo
  <2>5. \A x \in Device : UNION session[x].seed \subseteq OpTo(n)
    BY DEF TypeTo, SessionsTo, SessionTo
  <2> QED
    BY <2>1, <2>2, <2>3, <2>4, <2>5
<1>2. drawn \subseteq 0..n
  <2> HIDE DEF ops
  <2>1. session[d].client \in 0..n
    BY DEF TypeTo, SessionsTo, SessionTo
  <2>2. \A p \in ops : p.client \in 0..n
    BY <1>1 DEF OpTo
  <2> QED
    BY <2>1, <2>2
<1>3. IsFiniteSet(drawn) /\ Cardinality(drawn) \in Nat /\ Cardinality(drawn) <= n + 1
  <2> HIDE DEF drawn
  <2>1. IsFiniteSet(0..n) /\ Cardinality(0..n) = n + 1
    BY FS_Interval
  <2>2. IsFiniteSet(drawn) /\ Cardinality(drawn) <= Cardinality(0..n)
    BY <1>2, <2>1, FS_Subset
  <2>3. Cardinality(drawn) \in Nat
    BY <2>2, FS_CardinalityType
  <2> QED
    BY <2>1, <2>2, <2>3
<1>4. \E k \in 1..(Cardinality(drawn) + 1) : k \notin drawn
  <2>1. SUFFICES ASSUME 1..(Cardinality(drawn) + 1) \subseteq drawn PROVE FALSE
    OBVIOUS
  <2> HIDE DEF drawn
  <2>2. Cardinality(1..(Cardinality(drawn) + 1)) = Cardinality(drawn) + 1
    BY <1>3, FS_Interval
  <2>3. Cardinality(1..(Cardinality(drawn) + 1)) <= Cardinality(drawn)
    BY <1>3, <2>1, FS_Subset
  <2> QED
    BY <1>3, <2>2, <2>3
<1>5. next \in 1..(Cardinality(drawn) + 1)
  <2> HIDE DEF drawn
  <2> QED
    BY <1>4
<1>6. fresh(d) = next
  BY DEF fresh
<1> QED
  BY <1>3, <1>5, <1>6

-----------------------------------------------------------------------------
(* What a session does to itself, and the outcome of a step.                *)

OutcomeTo(n) == [session : SessionTo(n), out : Seq(FrameTo(n)), settles : BOOLEAN]

(* What a device inserts bears its own client id.                           *)
LEMMA InsertsType ==
    ASSUME NEW n \in Nat, NEW d \in Device, NEW client \in 0..n, NEW edits \in SUBSET Edit
    PROVE  inserts(d, client, edits) \subseteq OpTo(n)
BY DEF inserts, OpTo

(* A session that starts is at 0 in its room.                               *)
LEMMA OpenedType ==
    ASSUME NEW n \in Nat, NEW g \in Gen, NEW known \in Nat, NEW client \in 0..n
    PROVE  /\ Opened(g, known, client) \in SessionTo(n)
           /\ Opened(g, known, client).seq = 0 /\ Opened(g, known, client).gen = g
BY DEF Opened, SessionTo

(* The state of a note that is closed.                                      *)
LEMMA OffType == ASSUME NEW n \in Nat PROVE Off \in SessionTo(n)
<1>1. 0 \in Gen /\ 0 \in 0..n
  BY RoomAssumption DEF Gen
<1> DEFINE o == Opened(0, 0, 0)
<1>2. o \in SessionTo(n)
  BY <1>1, OpenedType
<1>3. Off = [o EXCEPT !.on = FALSE]
  BY DEF Off
<1> HIDE DEF o
<1> QED
  BY <1>2, <1>3 DEF SessionTo

(* What is unacked is operations.                                           *)
LEMMA OutgoingType ==
    ASSUME NEW n \in Nat, NEW unacked \in SUBSET OutgoingTo(n)
    PROVE  outgoing(unacked) \subseteq OpTo(n)
BY DEF outgoing, OutgoingTo

(* Each frame a device sends; a rotation needs a next generation.           *)
LEMMA FrameTypes ==
    ASSUME NEW n \in Nat, NEW g \in Gen, NEW k \in Nat, NEW ops \in SUBSET OpTo(n)
    PROVE  /\ Sub(g, k) \in FrameTo(n) /\ Unsub(g) \in FrameTo(n)
           /\ Seed(g, ops) \in FrameTo(n) /\ Update(g, k, ops) \in FrameTo(n)
           /\ Snapshot(g, k, ops) \in FrameTo(n)
           /\ g # MaxGen => Rotate(g, k, ops) \in FrameTo(n)
BY DEF Sub, Unsub, Seed, Update, Snapshot, Rotate, FrameTo

(* Sequences built from typed parts are typed.                              *)
LEMMA SeqTypes ==
    ASSUME NEW X, NEW q \in Seq(X), NEW r \in Seq(X), NEW x \in X
    PROVE  /\ <<>> \in Seq(X) /\ <<x>> \in Seq(X) /\ Append(q, x) \in Seq(X)
           /\ q \o r \in Seq(X)
           /\ q # <<>> => Head(q) \in X /\ Tail(q) \in Seq(X)
<1>1. <<>> \in Seq(X) /\ Append(q, x) \in Seq(X) /\ q \o r \in Seq(X)
  BY EmptySeq, AppendProperties, ConcatProperties
<1>2. <<x>> \in Seq(X)
  OBVIOUS
<1>3. q # <<>> => Head(q) \in X /\ Tail(q) \in Seq(X)
  BY HeadTailProperties
<1> QED
  BY <1>1, <1>2, <1>3

(* sendUpdate keeps the session's type and sends frames.                    *)
LEMMA ShipType ==
    ASSUME NEW n \in Nat, NEW s \in SessionTo(n), NEW ops \in SUBSET OpTo(n)
    PROVE  /\ ship(s, ops).session \in SessionTo(n)
           /\ ship(s, ops).out \in Seq(FrameTo(n))
<1> DEFINE k == s.sent + 1
           o == ship(s, ops)
<1>1. s.gen \in Gen /\ k \in Nat /\ s.unacked \in SUBSET OutgoingTo(n)
  BY DEF SessionTo
<1>2. [n |-> k, ops |-> ops] \in OutgoingTo(n)
  BY <1>1 DEF OutgoingTo
<1>3. o.session \in SessionTo(n)
  BY <1>1, <1>2 DEF ship, SessionTo
<1>4. Update(s.gen, k, ops) \in FrameTo(n)
  BY <1>1, FrameTypes
<1>5. o.out \in Seq(FrameTo(n))
  BY <1>4, SeqTypes, EmptySeq DEF ship
<1> QED
  BY <1>3, <1>5

(* Sending everything unacked again, likewise.                              *)
LEMMA ResendType ==
    ASSUME NEW n \in Nat, NEW s \in SessionTo(n)
    PROVE  /\ resend(s).session \in SessionTo(n)
           /\ resend(s).out \in Seq(FrameTo(n))
<1> DEFINE r == [s EXCEPT !.unacked = {}]
<1>1. CASE s.unacked = {}
  BY <1>1, EmptySeq DEF resend
<1>2. CASE s.unacked # {}
  <2>1. r \in SessionTo(n)
    BY DEF SessionTo
  <2>2. outgoing(s.unacked) \in SUBSET OpTo(n)
    BY OutgoingType DEF SessionTo
  <2>3. resend(s) = ship(r, outgoing(s.unacked))
    BY <1>2 DEF resend
  <2> HIDE DEF r
  <2> QED
    BY <2>1, <2>2, <2>3, ShipType
<1> QED
  BY <1>1, <1>2

(* Going online, likewise.                                                  *)
LEMMA GoOnlineType ==
    ASSUME NEW n \in Nat, NEW s \in SessionTo(n)
    PROVE  /\ goOnline(s).session \in SessionTo(n)
           /\ goOnline(s).out \in Seq(FrameTo(n))
<1>1. [s EXCEPT !.online = TRUE] \in SessionTo(n)
  BY DEF SessionTo
<1> QED
  BY <1>1, ResendType DEF goOnline

(* An ack, likewise.                                                        *)
LEMMA AckType ==
    ASSUME NEW n \in Nat, NEW s \in SessionTo(n), NEW k \in Nat
    PROVE  /\ ack(s, k).session \in SessionTo(n)
           /\ ack(s, k).out \in Seq(FrameTo(n))
<1> DEFINE dropped == {u \in s.unacked : u.n < k}
           rest == [s EXCEPT !.unacked = {u \in @ : u.n > k}]
<1>1. rest \in SessionTo(n)
  BY DEF SessionTo
<1>2. outgoing(dropped) \in SUBSET OpTo(n)
  BY OutgoingType DEF SessionTo
<1>3. \/ ack(s, k) = [session |-> s, out |-> <<>>]
      \/ ack(s, k) = [session |-> rest, out |-> <<>>]
      \/ ack(s, k) = ship(rest, outgoing(dropped))
  BY DEF ack
<1> HIDE DEF rest, dropped
<1>4. /\ ship(rest, outgoing(dropped)).session \in SessionTo(n)
      /\ ship(rest, outgoing(dropped)).out \in Seq(FrameTo(n))
  BY <1>1, <1>2, ShipType
<1>5. <<>> \in Seq(FrameTo(n))
  BY EmptySeq
<1>6. CASE ack(s, k) = [session |-> s, out |-> <<>>]
  BY <1>5, <1>6
<1>7. CASE ack(s, k) = [session |-> rest, out |-> <<>>]
  BY <1>1, <1>5, <1>7
<1>8. CASE ack(s, k) = ship(rest, outgoing(dropped))
  BY <1>4, <1>8
<1> QED
  BY <1>3, <1>6, <1>7, <1>8

(* The three-way merge stays in the session's room.                         *)
LEMMA MergeType ==
    ASSUME NEW n \in Nat, NEW d \in Device, NEW s \in SessionTo(n),
           NEW b, NEW incoming \in SUBSET Edit
    PROVE  /\ merge(d, s, b, incoming) \in SessionTo(n)
           /\ merge(d, s, b, incoming).gen = s.gen
<1> DEFINE mine == incoming \ (b \cup Text(s.doc))
           undone == {o \in live(s.doc) : o.edit \in b \ incoming}
           ops == inserts(d, s.client, mine) \cup {[o EXCEPT !.cut = TRUE] : o \in undone}
<1>1. inserts(d, s.client, mine) \subseteq OpTo(n)
  BY InsertsType DEF SessionTo
<1>2. \A o \in undone : [o EXCEPT !.cut = TRUE] \in OpTo(n)
  <2>1. live(s.doc) \subseteq OpTo(n)
    BY TextType DEF SessionTo
  <2>2. \A o \in OpTo(n) : [o EXCEPT !.cut = TRUE] \in OpTo(n)
    BY DEF OpTo
  <2> QED
    BY <2>1, <2>2
<1>3. ops \in SUBSET OpTo(n)
  BY <1>1, <1>2
<1>4. merge(d, s, b, incoming) = [s EXCEPT !.doc = @ \cup ops, !.pending = @ \cup ops]
  BY DEF merge
<1> HIDE DEF ops
<1>5. s.doc \cup ops \in SUBSET OpTo(n) /\ s.pending \cup ops \in SUBSET OpTo(n)
  BY <1>3 DEF SessionTo
<1> DEFINE doc == s.doc \cup ops
           pending == s.pending \cup ops
<1>6. merge(d, s, b, incoming) = [s EXCEPT !.doc = doc, !.pending = pending]
  BY <1>4 DEF SessionTo
<1> HIDE DEF doc, pending
<1>7. [s EXCEPT !.doc = doc, !.pending = pending] \in SessionTo(n)
  <2>1. doc \in SUBSET OpTo(n) /\ pending \in SUBSET OpTo(n)
    BY <1>5 DEF doc, pending
  <2> QED
    BY <2>1 DEF SessionTo
<1>8. [s EXCEPT !.doc = doc, !.pending = pending].gen = s.gen
  BY DEF SessionTo
<1> QED
  BY <1>6, <1>7, <1>8

(* A text as a document of its own.                                         *)
LEMMA ScratchType ==
    ASSUME NEW n \in Nat, NEW d \in Device, FilesOK, fresh(d) \in 0..n
    PROVE  scratch(d) \in SUBSET OpTo(n)
BY InsertsType DEF scratch, FilesOK

(* What is known of a generation is a place in a log.                       *)
LEMMA KnownAtType ==
    ASSUME FilesOK, NEW d \in Device, NEW g
    PROVE  knownAt(d, g) \in Nat /\ (lastAgreed(d) # None => lastAgreed(d).gen \in Gen)
BY DEF FilesOK, Agreed, knownAt, lastAgreed

(* A session that took in the room's answer.                                *)
LEMMA ReachedType ==
    ASSUME NEW n \in Nat, NEW s \in SessionTo(n), NEW f \in StateTo(n)
    PROVE  reached(s, f) \in SessionTo(n)
<1> DEFINE doc == s.doc \cup f.ops
           name == IF f.log # 0 THEN f.log ELSE s.name
           compacted == IF f.whole \/ s.seq = 0 THEN f.head - f.count ELSE s.compacted
<1>1. doc \in SUBSET OpTo(n) /\ name \in Nat
  BY DEF SessionTo, StateTo
<1>2. f.head \in Nat /\ f.count \in Nat /\ f.count <= f.head /\ s.compacted \in Nat
  BY DEF SessionTo, StateTo
<1>3. compacted \in Nat
  BY <1>2
<1>4. reached(s, f) =
        [s EXCEPT !.doc = doc, !.seq = f.head, !.name = name, !.compacted = compacted]
  BY DEF reached
<1> HIDE DEF doc, name, compacted
<1> QED
  BY <1>1, <1>2, <1>3, <1>4, ZenonT(40) DEF SessionTo

-----------------------------------------------------------------------------
(* Handlers.                                                                *)

(* An outcome has the parts it was given.                                   *)
LEMMA EndsType ==
    ASSUME NEW n \in Nat, NEW s \in SessionTo(n), NEW out \in Seq(FrameTo(n))
    PROVE  ends(s, out) \in OutcomeTo(n) /\ settles(s, out) \in OutcomeTo(n)
BY DEF ends, settles, OutcomeTo

(* A lost log: the session asks for the next generation, if any.            *)
LEMMA MoveOnType ==
    ASSUME NEW n \in Nat, NEW d \in Device, NEW s \in SessionTo(n), NEW f \in StateTo(n),
           FilesOK, fresh(d) \in 0..n, s.gen # MaxGen
    PROVE  moveOn(d, s, f) \in OutcomeTo(n)
<1> DEFINE left == [upto |-> f.head, log |-> f.log]
           content == IF s.joined THEN rebuild(s.doc) ELSE scratch(d)
           away == [s EXCEPT !.online = FALSE, !.moved = TRUE, !.asked = FALSE]
           asks == [s EXCEPT !.online = FALSE, !.left = left]
<1>1. f.head \in Nat /\ left \in Left
  BY DEF StateTo, Left
<1>2. content \in SUBSET OpTo(n)
  BY TextType, ScratchType DEF SessionTo
<1>3. away \in SessionTo(n)
  BY DEF SessionTo
<1>4. asks \in SessionTo(n)
  <2> HIDE DEF left
  <2> QED
    BY <1>1 DEF SessionTo
<1>5. Rotate(s.gen, f.head, content) \in FrameTo(n)
  <2> HIDE DEF content
  <2> QED
    BY <1>1, <1>2, FrameTypes DEF SessionTo
<1>6. <<>> \in Seq(FrameTo(n)) /\ <<Rotate(s.gen, f.head, content)>> \in Seq(FrameTo(n))
  BY <1>5, EmptySeq
<1>7. \/ moveOn(d, s, f) = ends(away, <<>>)
      \/ moveOn(d, s, f) = ends(asks, <<Rotate(s.gen, f.head, content)>>)
  BY DEF moveOn
<1> HIDE DEF away, asks, content
<1> QED
  BY <1>3, <1>4, <1>6, <1>7, EndsType

(* The room's answer is handled.                                            *)
LEMMA OnStateType ==
    ASSUME NEW n \in Nat, NEW d \in Device, NEW s \in SessionTo(n), NEW f \in StateTo(n),
           FilesOK, fresh(d) \in 0..n, lost(s, f) => s.gen # MaxGen
    PROVE  onState(d, s, f) \in OutcomeTo(n)
<1> DEFINE read == reached(s, f)
           joined == IF s.joined THEN read ELSE reconcile(d, read)
           asked == [joined EXCEPT !.asked = FALSE]
           online == goOnline(joined)
           text == scratch(d)
           offer == [read EXCEPT !.seed = {text}, !.from = view[d]]
<1>1. CASE lost(s, f)
  BY <1>1, MoveOnType DEF onState
<1>2. CASE ~lost(s, f)
  <2>1. read \in SessionTo(n)
    BY ReachedType
  <2>2. view[d] \in SUBSET Edit
    BY DEF FilesOK
  <2>3. joined \in SessionTo(n)
    <3> HIDE DEF read
    <3> DEFINE m == merge(d, read, base(d), view[d])
    <3>1. m \in SessionTo(n)
      BY <2>1, <2>2, MergeType
    <3>2. reconcile(d, read) = [m EXCEPT !.seed = {}, !.from = view[d], !.joined = TRUE]
      BY DEF reconcile
    <3> HIDE DEF m
    <3>3. reconcile(d, read) \in SessionTo(n)
      BY <2>2, <3>1, <3>2, ZenonT(60) DEF SessionTo
    <3> QED
      BY <2>1, <3>3
  <2>4. CASE ~s.joined /\ f.head = 0
    <3> HIDE DEF read
    <3>1. text \in SUBSET OpTo(n)
      BY ScratchType
    <3>2. offer \in SessionTo(n)
      <4> HIDE DEF text
      <4> QED
        BY <2>1, <2>2, <3>1 DEF SessionTo
    <3>3. <<Seed(read.gen, text)>> \in Seq(FrameTo(n))
      BY <2>1, <3>1, FrameTypes DEF SessionTo
    <3>4. onState(d, s, f) = ends(offer, <<Seed(read.gen, text)>>)
      BY <1>2, <2>4 DEF onState, offerSeed, With, read
    <3> HIDE DEF offer, text
    <3> QED
      BY <3>2, <3>3, <3>4, EndsType
  <2>5. CASE ~(~s.joined /\ f.head = 0) /\ s.online
    <3>1. onState(d, s, f) = settles(asked, <<>>)
      BY <1>2, <2>5 DEF onState, With
    <3> HIDE DEF joined
    <3>2. asked \in SessionTo(n)
      BY <2>3 DEF SessionTo
    <3> HIDE DEF asked
    <3> QED
      BY <3>1, <3>2, EndsType, EmptySeq
  <2>6. CASE ~(~s.joined /\ f.head = 0) /\ ~s.online
    <3>1. onState(d, s, f) = settles(online.session, online.out)
      BY <1>2, <2>6 DEF onState, With
    <3> HIDE DEF joined
    <3>2. online.session \in SessionTo(n) /\ online.out \in Seq(FrameTo(n))
      BY <2>3, GoOnlineType
    <3> HIDE DEF online
    <3> QED
      BY <3>1, <3>2, EndsType
  <2> QED
    BY <2>4, <2>5, <2>6
<1> QED
  BY <1>1, <1>2

(* Another device's update is handled.                                      *)
LEMMA OnFanoutType ==
    ASSUME NEW n \in Nat, NEW s \in SessionTo(n),
           NEW f \in [type : {"Fanout"}, gen : Gen, seq : Nat, ops : SUBSET OpTo(n)]
    PROVE  onFanout(s, f) \in OutcomeTo(n)
<1> DEFINE more == [s EXCEPT !.doc = @ \cup f.ops, !.seq = f.seq]
<1>1. more \in SessionTo(n)
  BY DEF SessionTo
<1>2. onFanout(s, f) = ends(s, <<>>) \/ onFanout(s, f) = settles(more, <<>>)
  BY DEF onFanout
<1> HIDE DEF more
<1> QED
  BY <1>1, <1>2, EndsType, EmptySeq, ZenonT(40)

(* The echo of an own update is handled.                                    *)
LEMMA OnEchoType ==
    ASSUME NEW n \in Nat, NEW s \in SessionTo(n),
           NEW f \in [type : {"Echo"}, gen : Gen, seq : Nat, n : Nat]
    PROVE  onEcho(s, f) \in OutcomeTo(n)
<1> DEFINE at == [s EXCEPT !.seq = f.seq]
           seeded == [at EXCEPT !.doc = @ \cup UNION s.seed, !.seed = {}, !.joined = TRUE]
           acked == ack(at, f.n)
           taken == goOnline(seeded)
<1>1. at \in SessionTo(n) /\ f.n \in Nat
  BY DEF SessionTo
<1>2. CASE s.joined
  <2>1. onEcho(s, f) = settles(acked.session, acked.out)
    BY <1>2 DEF onEcho, With
  <2> HIDE DEF at
  <2>2. acked.session \in SessionTo(n) /\ acked.out \in Seq(FrameTo(n))
    BY <1>1, AckType
  <2> QED
    BY <2>1, <2>2, EndsType
<1>3. CASE ~s.joined /\ s.seed # {}
  <2>1. onEcho(s, f) = settles(taken.session, taken.out)
    BY <1>3 DEF onEcho, With
  <2>2. seeded \in SessionTo(n)
    <3> HIDE DEF at
    <3>1. UNION s.seed \in SUBSET OpTo(n)
      BY <1>3 DEF SessionTo
    <3> QED
      BY <1>1, <3>1 DEF SessionTo
  <2> HIDE DEF seeded
  <2>3. taken.session \in SessionTo(n) /\ taken.out \in Seq(FrameTo(n))
    BY <2>2, GoOnlineType
  <2> QED
    BY <2>1, <2>3, EndsType
<1>4. CASE ~s.joined /\ s.seed = {}
  <2>1. onEcho(s, f) = settles(at, <<>>)
    BY <1>4 DEF onEcho
  <2> HIDE DEF at
  <2> QED
    BY <1>1, <2>1, EndsType, EmptySeq
<1> QED
  BY <1>2, <1>3, <1>4

(* Whatever arrives is handled.                                             *)
LEMMA HandleType ==
    ASSUME NEW n \in Nat, NEW d \in Device, NEW s \in SessionTo(n), NEW f \in AnswerTo(n),
           FilesOK, fresh(d) \in 0..n, f.type = "State" /\ lost(s, f) => s.gen # MaxGen
    PROVE  handle(d, s, f) \in OutcomeTo(n)
<1>1. CASE f \in StateTo(n)
  <2>1. f.type = "State"
    BY <1>1 DEF StateTo
  <2> QED
    BY <1>1, <2>1, OnStateType DEF handle
<1>2. CASE f \in [type : {"Fanout"}, gen : Gen, seq : Nat, ops : SUBSET OpTo(n)]
  BY <1>2, OnFanoutType DEF handle
<1>3. CASE f \in [type : {"Echo"}, gen : Gen, seq : Nat, n : Nat]
  BY <1>3, OnEchoType DEF handle
<1>4. CASE f \in [type : {"Moved"}, gen : Gen]
  <2> DEFINE gone == [s EXCEPT !.moved = TRUE, !.asked = FALSE]
  <2>1. gone \in SessionTo(n)
    BY DEF SessionTo
  <2>2. handle(d, s, f) = ends(gone, <<>>)
    BY <1>4 DEF handle, onMoved
  <2> HIDE DEF gone
  <2> QED
    BY <2>1, <2>2, EndsType, EmptySeq
<1> QED
  BY <1>1, <1>2, <1>3, <1>4 DEF AnswerTo

(* Compaction appends a snapshot to what is sent.                           *)
LEMMA CompactingType ==
    ASSUME NEW n \in Nat, NEW o \in OutcomeTo(n)
    PROVE  compacting(o) \in OutcomeTo(n)
<1> DEFINE s == o.session
           folded == [s EXCEPT !.compacted = s.seq]
           out == Append(o.out, Snapshot(s.gen, s.seq, s.doc))
<1>1. s \in SessionTo(n)
  BY DEF OutcomeTo
<1>2. folded \in SessionTo(n)
  <2> HIDE DEF s
  <2> QED
    BY <1>1 DEF SessionTo
<1>3. s.gen \in Gen /\ s.seq \in Nat /\ s.doc \in SUBSET OpTo(n)
  <2> HIDE DEF s
  <2> QED
    BY <1>1 DEF SessionTo
<1>4. Snapshot(s.gen, s.seq, s.doc) \in FrameTo(n)
  BY <1>3, FrameTypes
<1>5. out \in Seq(FrameTo(n))
  BY <1>4, SeqTypes DEF OutcomeTo
<1>6. compacting(o) = [o EXCEPT !.session = folded, !.out = out]
  BY DEF compacting, OutcomeTo
<1> HIDE DEF folded, out
<1> QED
  BY <1>2, <1>5, <1>6 DEF OutcomeTo

(* Frames appended to a device's socket.                                    *)
LEMMA SendType ==
    ASSUME NEW n \in Nat, WireTo(n), NEW d \in Device, NEW out \in Seq(FrameTo(n)), Send(d, out)
    PROVE  up' \in [Socket -> Seq(FrameTo(n))]
<1>1. here(d) \in Socket
  BY DEF here, Socket, WireTo
<1>2. up[here(d)] \o out \in Seq(FrameTo(n))
  BY <1>1, ConcatProperties DEF WireTo
<1> QED
  BY <1>1, <1>2 DEF Send, WireTo

(* An outcome takes effect on the device and its socket alone.              *)
LEMMA CommitType ==
    ASSUME NEW n \in Nat, TypeTo(n), NEW d \in Device, NEW o,
           o.session \in SessionTo(n), o.out \in Seq(FrameTo(n)), Commit(d, o)
    PROVE  /\ HubTo(n)' /\ SessionsTo(n)' /\ FilesOK'
           /\ up' \in [Socket -> Seq(FrameTo(n))]
           /\ UNCHANGED <<cur, linked, follows>>
<1> DEFINE s == o.session
           agreed == [text |-> Text(s.doc), gen |-> s.gen, seq |-> s.seq]
<1>1. Text(s.doc) \in SUBSET Edit
  BY TextType DEF SessionTo
<1>2. agreed \in Agreed
  BY <1>1 DEF SessionTo, Agreed
<1>3. UNCHANGED <<room, names, past, cur, linked, follows, disk, stored>>
  BY DEF Commit, hub
<1>4. HubTo(n)'
  BY <1>3 DEF HubTo, TypeTo
<1>5. SessionsTo(n)'
  BY DEF Commit, SessionsTo, TypeTo
<1>6. FilesOK'
  <2>1. view' \in [Device -> SUBSET Edit]
    BY <1>1 DEF Commit, FilesOK, TypeTo
  <2>2. unwritten' \in [Device -> Agreed \cup {None}]
    <3> HIDE DEF agreed
    <3>1. unwritten' = unwritten \/ unwritten' = [unwritten EXCEPT ![d] = agreed]
      BY DEF Commit, agreed
    <3> QED
      BY <1>2, <3>1 DEF FilesOK, TypeTo
  <2> QED
    BY <1>3, <2>1, <2>2 DEF FilesOK, TypeTo
<1>7. up' \in [Socket -> Seq(FrameTo(n))]
  BY SendType DEF Commit, TypeTo
<1> QED
  BY <1>3, <1>4, <1>5, <1>6, <1>7

-----------------------------------------------------------------------------
(* The hub's steps.                                                         *)

(* The hub takes a frame off a socket.                                      *)
LEMMA TakesType ==
    ASSUME NEW n \in Nat, TypeTo(n), NEW s \in Socket, NEW types, Takes(s, types)
    PROVE  /\ Head(up[s]) \in FrameTo(n) /\ Head(up[s]).gen \in Gen
           /\ up' \in [Socket -> Seq(FrameTo(n))]
           /\ SessionsTo(n)' /\ FilesOK'
           /\ UNCHANGED <<cur, linked, typed, rotations, saves>>
<1>1. up[s] \in Seq(FrameTo(n)) /\ up[s] # <<>>
  BY DEF TypeTo, WireTo, Takes
<1>2. Head(up[s]) \in FrameTo(n) /\ Tail(up[s]) \in Seq(FrameTo(n))
  BY <1>1, HeadTailProperties
<1>3. Head(up[s]).gen \in Gen
  BY <1>2 DEF FrameTo
<1>4. up' \in [Socket -> Seq(FrameTo(n))]
  BY <1>2 DEF Takes, TypeTo, WireTo
<1>5. SessionsTo(n)' /\ FilesOK'
  BY DEF Takes, file, TypeTo, SessionsTo, FilesOK
<1> QED
  BY <1>2, <1>3, <1>4, <1>5 DEF Takes

(* The hub's answers and what it forwards.                                  *)
LEMMA DeliverType ==
    ASSUME NEW n \in Nat, TypeTo(n), NEW s \in Socket, NEW g,
           NEW answers \in Seq(AnswerTo(n)), NEW fanout \in Seq(AnswerTo(n)),
           Deliver(s, answers, g, fanout)
    PROVE  down' \in [Device -> Seq(AnswerTo(n))]
<1>1. \A d \in Device : /\ down[d] \in Seq(AnswerTo(n))
                        /\ down[d] \o answers \in Seq(AnswerTo(n))
                        /\ down[d] \o fanout \in Seq(AnswerTo(n))
  BY ConcatProperties DEF TypeTo, WireTo
<1> QED
  BY <1>1 DEF Deliver

(* Each frame the hub sends.                                                *)
LEMMA AnswerTypes ==
    ASSUME NEW n \in Nat, HubTo(n), NEW g \in Gen, NEW k \in Nat, NEW seq \in Nat,
           NEW ops \in SUBSET OpTo(n)
    PROVE  /\ <<Moved(g)>> \in Seq(AnswerTo(n)) /\ <<State(g, k)>> \in Seq(AnswerTo(n))
           /\ <<Fanout(g, seq, ops)>> \in Seq(AnswerTo(n))
           /\ <<Echo(g, seq, k)>> \in Seq(AnswerTo(n)) /\ <<>> \in Seq(AnswerTo(n))
<1>1. Moved(g) \in AnswerTo(n) /\ Fanout(g, seq, ops) \in AnswerTo(n) /\ Echo(g, seq, k) \in AnswerTo(n)
  BY DEF Moved, Fanout, Echo, AnswerTo
<1>2. State(g, k) \in AnswerTo(n)
  <2> DEFINE answer == state(room[g], k)
  <2>1. /\ answer.head \in Nat /\ answer.log \in Nat /\ answer.whole \in BOOLEAN
        /\ answer.count \in Nat /\ answer.count <= answer.head
        /\ answer.ops \in SUBSET OpTo(n)
    BY StateType DEF HubTo
  <2>2. State(g, k) = [type |-> "State", gen |-> g, head |-> answer.head, log |-> answer.log,
                       whole |-> answer.whole, count |-> answer.count, ops |-> answer.ops]
    BY DEF State
  <2> HIDE DEF answer
  <2>3. State(g, k) \in StateTo(n)
    BY <2>1, <2>2 DEF StateTo
  <2> QED
    BY <2>3 DEF AnswerTo
<1> QED
  BY <1>1, <1>2, EmptySeq

(* One more update in a room.                                               *)
LEMMA LogType ==
    ASSUME NEW n \in Nat, HubTo(n), NEW g \in Gen, NEW ops \in SUBSET OpTo(n), Log(g, ops)
    PROVE  HubTo(n)'
<1>1. insert(room[g], ops, names + 1) \in RowTo(n)
  BY InsertType DEF HubTo
<1>2. Append(past[g], ops) \in Seq(SUBSET OpTo(n))
  BY AppendProperties DEF HubTo
<1>3. room' \in [Gen -> RowTo(n)]
  BY <1>1 DEF Log, HubTo
<1>4. past' \in [Gen -> Seq(SUBSET OpTo(n))]
  BY <1>2 DEF Log, HubTo
<1>5. names' \in Nat
  <2>1. names \in Nat
    BY DEF HubTo
  <2>2. names' = names \/ names' = names + 1
    BY DEF Log
  <2> QED
    BY <2>1, <2>2
<1> QED
  BY <1>3, <1>4, <1>5 DEF HubTo

(* One more update in a room, echoed and forwarded.                         *)
LEMMA LoggedType ==
    ASSUME NEW n \in Nat, TypeTo(n), NEW s \in Socket, NEW g \in Gen, NEW k \in Nat,
           NEW ops \in SUBSET OpTo(n), Logged(s, g, k, ops)
    PROVE  HubTo(n)' /\ down' \in [Device -> Seq(AnswerTo(n))]
<1>1. head(room[g]) + 1 \in Nat
  BY HeadType DEF TypeTo, HubTo
<1>2. HubTo(n)'
  BY LogType DEF Logged, TypeTo
<1>3. /\ <<Fanout(g, head(room[g]) + 1, ops)>> \in Seq(AnswerTo(n))
      /\ <<Echo(g, head(room[g]) + 1, k)>> \in Seq(AnswerTo(n))
  BY <1>1, AnswerTypes DEF TypeTo
<1> QED
  BY <1>2, <1>3, DeliverType DEF Logged

(* The hub's steps keep the bound: it draws no client id.                   *)
LEMMA HubStepType ==
    ASSUME NEW n \in Nat, TypeTo(n), NEW s \in Socket, HubStep(s)
    PROVE  TypeTo(n)'
<1> DEFINE f == Head(up[s])
           g == f.gen
<1> USE DEF TypeTo
<1>1. CASE HubSub(s)
  <2>1. /\ f \in FrameTo(n) /\ g \in Gen /\ f.type = "Sub"
        /\ up' \in [Socket -> Seq(FrameTo(n))] /\ SessionsTo(n)' /\ FilesOK'
        /\ UNCHANGED <<cur, linked, typed, rotations, saves>>
    BY <1>1, TakesType DEF HubSub, Takes
  <2>2. f.since \in Nat
    BY <2>1 DEF FrameTo
  <2>3. <<IF room[g].moved THEN Moved(g) ELSE State(g, f.since)>> \in Seq(AnswerTo(n))
    BY <2>1, <2>2, AnswerTypes
  <2>4. down' \in [Device -> Seq(AnswerTo(n))]
    BY <1>1, <2>3, DeliverType, EmptySeq DEF HubSub
  <2>5. follows' \in [Socket -> SUBSET Gen]
    BY <1>1, <2>1 DEF HubSub, WireTo
  <2>6. HubTo(n)' /\ UNCHANGED faults
    BY <1>1 DEF HubSub, hub, HubTo
  <2> QED
    BY <2>1, <2>4, <2>5, <2>6 DEF WireTo, CountsOK
<1>2. CASE HubUnsub(s)
  <2>1. /\ up' \in [Socket -> Seq(FrameTo(n))] /\ SessionsTo(n)' /\ FilesOK'
        /\ UNCHANGED <<cur, linked, typed, rotations, saves>>
    BY <1>2, TakesType DEF HubUnsub
  <2>2. follows' \in [Socket -> SUBSET Gen]
    BY <1>2 DEF HubUnsub, WireTo
  <2>3. HubTo(n)' /\ UNCHANGED <<down, faults>>
    BY <1>2 DEF HubUnsub, hub, HubTo
  <2> QED
    BY <2>1, <2>2, <2>3 DEF WireTo, CountsOK
<1>3. CASE HubIgnores(s)
  <2>1. /\ up' \in [Socket -> Seq(FrameTo(n))] /\ SessionsTo(n)' /\ FilesOK'
        /\ UNCHANGED <<cur, linked, typed, rotations, saves>>
    BY <1>3, TakesType DEF HubIgnores
  <2>2. HubTo(n)' /\ UNCHANGED <<down, follows, faults>>
    BY <1>3 DEF HubIgnores, hub, HubTo
  <2> QED
    BY <2>1, <2>2 DEF WireTo, CountsOK
<1>4. CASE HubSendsMoved(s)
  <2>1. /\ up' \in [Socket -> Seq(FrameTo(n))] /\ SessionsTo(n)' /\ FilesOK' /\ g \in Gen
        /\ UNCHANGED <<cur, linked, typed, rotations, saves>>
    BY <1>4, TakesType DEF HubSendsMoved
  <2>2. HubTo(n)' /\ UNCHANGED <<follows, faults>>
    BY <1>4 DEF HubSendsMoved, hub, HubTo
  <2>3. down' \in [Device -> Seq(AnswerTo(n))]
    BY <1>4, <2>1, DeliverType, AnswerTypes, EmptySeq DEF HubSendsMoved
  <2> QED
    BY <2>1, <2>2, <2>3 DEF WireTo, CountsOK
<1>5. CASE HubSeed(s)
  <2>1. /\ f \in FrameTo(n) /\ g \in Gen /\ f.type = "Seed"
        /\ up' \in [Socket -> Seq(FrameTo(n))] /\ SessionsTo(n)' /\ FilesOK'
        /\ UNCHANGED <<cur, linked, typed, rotations, saves, follows, faults>>
    BY <1>5, TakesType DEF HubSeed, TakesLive, Takes
  <2>2. f.ops \in SUBSET OpTo(n)
    BY <2>1 DEF FrameTo
  <2>3. CASE seeds(room[g])
    BY <1>5, <2>1, <2>2, <2>3, LoggedType DEF HubSeed, WireTo, CountsOK
  <2>4. CASE ~seeds(room[g])
    <3>1. Deliver(s, <<State(g, 0)>>, g, <<>>) /\ UNCHANGED hub
      BY <1>5, <2>4 DEF HubSeed
    <3>2. HubTo(n)'
      BY <3>1 DEF hub, HubTo
    <3>3. down' \in [Device -> Seq(AnswerTo(n))]
      BY <2>1, <3>1, DeliverType, AnswerTypes, EmptySeq
    <3> QED
      BY <2>1, <3>2, <3>3 DEF WireTo, CountsOK
  <2> QED
    BY <2>3, <2>4
<1>6. CASE HubUpdate(s)
  <2>1. /\ f \in FrameTo(n) /\ g \in Gen /\ f.type = "Update"
        /\ up' \in [Socket -> Seq(FrameTo(n))] /\ SessionsTo(n)' /\ FilesOK'
        /\ UNCHANGED <<cur, linked, typed, rotations, saves, follows, faults>>
    BY <1>6, TakesType DEF HubUpdate, TakesLive, Takes
  <2>2. f.ops \in SUBSET OpTo(n) /\ f.n \in Nat
    BY <2>1 DEF FrameTo
  <2>3. HubTo(n)' /\ down' \in [Device -> Seq(AnswerTo(n))]
    BY <1>6, <2>1, <2>2, LoggedType DEF HubUpdate
  <2> QED
    BY <2>1, <2>3 DEF WireTo, CountsOK
<1>7. CASE HubSnapshot(s)
  <2>1. /\ f \in FrameTo(n) /\ g \in Gen /\ f.type = "Snapshot"
        /\ up' \in [Socket -> Seq(FrameTo(n))] /\ SessionsTo(n)' /\ FilesOK'
        /\ UNCHANGED <<cur, linked, typed, rotations, saves, follows, faults>>
    BY <1>7, TakesType DEF HubSnapshot, TakesLive, Takes
  <2>2. f.ops \in SUBSET OpTo(n) /\ f.upto \in Nat
    BY <2>1 DEF FrameTo
  <2>3. compact(room[g], f.upto, f.ops) \in RowTo(n)
    BY <2>1, <2>2, CompactType DEF HubTo
  <2>4. HubTo(n)' /\ UNCHANGED down
    BY <1>7, <2>1, <2>3 DEF HubSnapshot, HubTo
  <2> QED
    BY <2>1, <2>4 DEF WireTo, CountsOK
<1>8. CASE HubRotate(s)
  <2>1. /\ f \in FrameTo(n) /\ g \in Gen /\ f.type = "Rotate"
        /\ up' \in [Socket -> Seq(FrameTo(n))] /\ SessionsTo(n)' /\ FilesOK'
        /\ UNCHANGED <<cur, linked, typed, rotations, saves, follows, faults>>
    BY <1>8, TakesType DEF HubRotate, TakesLive, Takes
  <2>2. f.ops \in SUBSET OpTo(n) /\ f.upto \in Nat /\ g # MaxGen
    BY <2>1 DEF FrameTo
  <2>3. g + 1 \in Gen
    BY <2>1, <2>2, RoomAssumption, SMTT(30) DEF Gen
  <2>4. CASE rotates(room[g], room[g + 1], f.upto)
    <3>1. /\ room' = [room EXCEPT ![g] = markMoved(@), ![g + 1] = insert(@, f.ops, names + 1)]
          /\ names' = names + 1
          /\ past' = [past EXCEPT ![g + 1] = Append(@, f.ops)]
          /\ Deliver(s, <<Moved(g)>>, g, <<Moved(g)>>)
      BY <1>8, <2>4 DEF HubRotate
    <3>2. markMoved(room[g]) \in RowTo(n) /\ room[g + 1] \in RowTo(n)
      BY <2>1, <2>3, MarkMovedType DEF HubTo
    <3>3. insert(room[g + 1], f.ops, names + 1) \in RowTo(n)
      BY <2>2, <3>2, InsertType DEF HubTo
    <3>4. g # g + 1
      BY <2>1 DEF Gen
    <3>5. room' \in [Gen -> RowTo(n)]
      BY <2>1, <2>3, <3>1, <3>2, <3>3, <3>4 DEF HubTo
    <3>6. past' \in [Gen -> Seq(SUBSET OpTo(n))]
      BY <2>2, <2>3, <3>1, AppendProperties DEF HubTo
    <3>7. names' \in Nat
      BY <3>1 DEF HubTo
    <3>8. down' \in [Device -> Seq(AnswerTo(n))]
      BY <2>1, <3>1, DeliverType, AnswerTypes
    <3> QED
      BY <2>1, <3>5, <3>6, <3>7, <3>8 DEF HubTo, WireTo, CountsOK
  <2>5. CASE ~rotates(room[g], room[g + 1], f.upto)
    <3>1. Deliver(s, <<State(g, f.upto)>>, g, <<>>) /\ UNCHANGED hub
      BY <1>8, <2>5 DEF HubRotate
    <3>2. HubTo(n)'
      BY <3>1 DEF hub, HubTo
    <3>3. down' \in [Device -> Seq(AnswerTo(n))]
      BY <2>1, <2>2, <3>1, DeliverType, AnswerTypes, EmptySeq
    <3> QED
      BY <2>1, <3>2, <3>3 DEF WireTo, CountsOK
  <2> QED
    BY <2>4, <2>5
<1> QED
  BY <1>1, <1>2, <1>3, <1>4, <1>5, <1>6, <1>7, <1>8 DEF HubStep

-----------------------------------------------------------------------------
(* A device's steps.                                                        *)

(* A frame is handled, perhaps with a new document.                         *)
LEMMA ReceiveType ==
    ASSUME NEW n \in Nat, TypeTo(n), NEW d \in Device, fresh(d) \in 0..n, Receive(d)
    PROVE  TypeTo(n)'
<1> DEFINE s == session[d]
           f == Head(down[d])
           mine == s.on /\ f.gen = s.gen
           step == IF mine THEN handle(d, s, f) ELSE ends(s, <<>>)
<1>1. s \in SessionTo(n)
  BY DEF TypeTo, SessionsTo
<1>2. f \in AnswerTo(n) /\ Tail(down[d]) \in Seq(AnswerTo(n))
  BY HeadTailProperties DEF Receive, TypeTo, WireTo
<1>3. step \in OutcomeTo(n)
  <2>1. ends(s, <<>>) \in OutcomeTo(n)
    BY <1>1, EndsType, EmptySeq
  <2>2. mine /\ f.type = "State" /\ lost(s, f) => s.gen # MaxGen
    BY <1>1, RoomAssumption DEF Receive, Gen, SessionTo
  <2>3. mine => handle(d, s, f) \in OutcomeTo(n)
    BY <1>1, <1>2, <2>2, HandleType DEF TypeTo
  <2> QED
    BY <2>1, <2>3
<1>4. PICK leads \in BOOLEAN : Commit(d, IF leads THEN compacting(step) ELSE step)
  BY DEF Receive
<1> DEFINE o == IF leads THEN compacting(step) ELSE step
<1>5. o \in OutcomeTo(n)
  BY <1>3, CompactingType
<1>6. o.session \in SessionTo(n) /\ o.out \in Seq(FrameTo(n)) /\ Commit(d, o)
  BY <1>4, <1>5 DEF OutcomeTo
<1>7. /\ HubTo(n)' /\ SessionsTo(n)' /\ FilesOK'
      /\ up' \in [Socket -> Seq(FrameTo(n))]
      /\ UNCHANGED <<cur, linked, follows>>
  <2> HIDE DEF o
  <2> QED
    BY <1>6, CommitType
<1>8. down' = [down EXCEPT ![d] = Tail(@)] /\ UNCHANGED tally
  BY DEF Receive
<1>9. down' \in [Device -> Seq(AnswerTo(n))]
  BY <1>2, <1>8 DEF TypeTo, WireTo
<1> QED
  BY <1>7, <1>8, <1>9 DEF TypeTo, WireTo, CountsOK, tally

(* A session starts.                                                        *)
LEMMA BeginType ==
    ASSUME NEW n \in Nat, TypeTo(n), NEW d \in Device, fresh(d) \in 0..n, NEW g \in Gen,
           NEW known \in Nat, NEW frames \in Seq(FrameTo(n)), Begin(d, g, known, frames)
    PROVE  SessionsTo(n)' /\ up' \in [Socket -> Seq(FrameTo(n))]
<1> DEFINE s == Opened(g, known, fresh(d))
<1>1. s \in SessionTo(n) /\ s.seq \in Nat
  BY OpenedType
<1>2. Append(frames, Sub(g, s.seq)) \in Seq(FrameTo(n))
  BY <1>1, FrameTypes, AppendProperties
<1> HIDE DEF s
<1>3. session' = [session EXCEPT ![d] = s] /\ Send(d, Append(frames, Sub(g, s.seq)))
  BY DEF Begin, s
<1>4. SessionsTo(n)'
  BY <1>1, <1>3 DEF TypeTo, SessionsTo
<1> QED
  BY <1>2, <1>3, <1>4, SendType DEF TypeTo

(* What a session sends as it ends.                                         *)
LEMMA PartingType ==
    ASSUME NEW n \in Nat, NEW s \in SessionTo(n)
    PROVE  parting(s) \in Seq(FrameTo(n))
<1>1. /\ Update(s.gen, s.sent + 1, s.pending) \in FrameTo(n) /\ Unsub(s.gen) \in FrameTo(n)
  BY FrameTypes DEF SessionTo
<1> QED
  BY <1>1, EmptySeq, ConcatProperties DEF parting

(* Steps that only commit an outcome.                                       *)
LEMMA CommitsType ==
    ASSUME NEW n \in Nat, TypeTo(n), NEW d \in Device, NEW s \in SessionTo(n),
           NEW out \in Seq(FrameTo(n)), Commit(d, ends(s, out)), UNCHANGED down, CountsOK'
    PROVE  TypeTo(n)'
<1>1. ends(s, out).session = s /\ ends(s, out).out = out
  BY DEF ends
<1>2. /\ HubTo(n)' /\ SessionsTo(n)' /\ FilesOK'
      /\ up' \in [Socket -> Seq(FrameTo(n))]
      /\ UNCHANGED <<cur, linked, follows>>
  BY <1>1, CommitType
<1> QED
  BY <1>2 DEF TypeTo, WireTo

(* A socket is lost.                                                        *)
LEMMA UnlinkType ==
    ASSUME NEW n \in Nat, TypeTo(n), NEW d \in Device, Unlink(d)
    PROVE  /\ HubTo(n)' /\ WireTo(n)'
           /\ UNCHANGED <<stored, typed, rotations, saves>>
<1>1. HubTo(n)' /\ UNCHANGED <<cur, follows, stored, typed, rotations, saves>>
  BY DEF Unlink, hub, TypeTo, HubTo
<1>2. linked' \in [Device -> BOOLEAN] /\ down' \in [Device -> Seq(AnswerTo(n))]
  BY EmptySeq DEF Unlink, TypeTo, WireTo
<1>3. up' \in [Socket -> Seq(FrameTo(n))]
  BY EmptySeq DEF Unlink, TypeTo, WireTo
<1> QED
  BY <1>1, <1>2, <1>3 DEF TypeTo, WireTo

(* A fault is counted, up to the bound.                                     *)
LEMMA FaultType == ASSUME CountsOK, NEW kind, fault(kind) PROVE faults' \in 0..MaxFaults
BY RoomAssumption DEF CountsOK, fault

(* A session without a socket.                                              *)
LEMMA OfflineType ==
    ASSUME NEW n \in Nat, NEW s \in SessionTo(n) PROVE offline(s) \in SessionTo(n)
BY DEF offline, SessionTo

(* A device's steps draw at most the id `fresh` gives them.                 *)
LEMMA DeviceStepType ==
    ASSUME NEW n \in Nat, TypeTo(n), NEW d \in Device, fresh(d) \in 0..n,
           \/ Act(d) \/ EarlyAckTimeout(d) \/ AskRotate(d) \/ Save(d) \/ WriteAgreed(d)
           \/ Disconnect(d) \/ Crash(d) \/ Close(d)
           \/ \E e \in Edit : Type(d, e)
    PROVE  TypeTo(n)'
<1> DEFINE s == session[d]
<1> USE DEF TypeTo
<1>1. s \in SessionTo(n) /\ here(d) \in Socket
  BY DEF SessionsTo, here, Socket, WireTo
<1>2. CASE Receive(d)
  BY <1>2, ReceiveType
<1>3. CASE Open(d)
  <2> DEFINE g == IF lastAgreed(d) # None THEN lastAgreed(d).gen ELSE 0
  <2>1. g \in Gen /\ knownAt(d, g) \in Nat
    BY KnownAtType, RoomAssumption DEF Gen
  <2>2. SessionsTo(n)' /\ up' \in [Socket -> Seq(FrameTo(n))]
    BY <1>3, <2>1, BeginType, EmptySeq DEF Open
  <2>3. UNCHANGED <<hub, down, cur, linked, follows, file, tally>>
    BY <1>3 DEF Open
  <2>4. HubTo(n)' /\ FilesOK' /\ CountsOK'
    BY <2>3 DEF hub, file, tally, HubTo, FilesOK, CountsOK
  <2> QED
    BY <2>2, <2>3, <2>4 DEF WireTo
<1>4. CASE Bind(d)
  <2> DEFINE m == merge(d, s, s.from, view[d])
             a == adopt(d, s)
             bound == [a EXCEPT !.bound = TRUE]
  <2>1. m \in SessionTo(n)
    BY <1>1, MergeType DEF FilesOK
  <2>2. a \in SessionTo(n)
    <3>1. [s EXCEPT !.from = None] \in SessionTo(n)
      BY <1>1 DEF SessionTo
    <3>2. [m EXCEPT !.from = None] \in SessionTo(n)
      <4> HIDE DEF m
      <4> QED
        BY <2>1 DEF SessionTo
    <3> QED
      BY <3>1, <3>2 DEF adopt
  <2>3. bound \in SessionTo(n)
    <3> HIDE DEF a
    <3> QED
      BY <2>2 DEF SessionTo
  <2>4. Commit(d, ends(bound, <<>>)) /\ UNCHANGED <<down, tally>>
    BY <1>4 DEF Bind
  <2>5. CountsOK'
    BY <2>4 DEF CountsOK, tally
  <2> HIDE DEF bound
  <2> QED
    BY <2>3, <2>4, <2>5, CommitsType, EmptySeq
<1>5. CASE Flush(d)
  <2> DEFINE calm == [s EXCEPT !.pending = {}]
             o == ship(calm, s.pending)
  <2>1. calm \in SessionTo(n) /\ s.pending \in SUBSET OpTo(n)
    BY <1>1 DEF SessionTo
  <2>2. Commit(d, ends(o.session, o.out)) /\ UNCHANGED <<down, tally>>
    BY <1>5 DEF Flush
  <2>3. o.session \in SessionTo(n) /\ o.out \in Seq(FrameTo(n))
    <3> HIDE DEF calm
    <3> QED
      BY <2>1, ShipType
  <2>4. CountsOK'
    BY <2>2 DEF CountsOK, tally
  <2> HIDE DEF o
  <2> QED
    BY <2>2, <2>3, <2>4, CommitsType
<1>6. CASE AckTimeout(d) \/ EarlyAckTimeout(d)
  <2> DEFINE o == resend(s)
  <2>1. Commit(d, ends(o.session, o.out)) /\ UNCHANGED <<down, typed, rotations, saves>>
    BY <1>6 DEF AckTimeout, EarlyAckTimeout, Resend
  <2>2. o.session \in SessionTo(n) /\ o.out \in Seq(FrameTo(n))
    BY <1>1, ResendType
  <2>3. faults' \in 0..MaxFaults
    BY <1>6, RoomAssumption DEF AckTimeout, EarlyAckTimeout, CountsOK
  <2>4. CountsOK'
    BY <2>1, <2>3 DEF CountsOK
  <2> HIDE DEF o
  <2> QED
    BY <2>1, <2>2, <2>4, CommitsType
<1>7. CASE Follow(d)
  <2> DEFINE g == s.gen + 1
             known == IF knownAt(d, g) < 1 THEN 1 ELSE knownAt(d, g)
  <2>1. g \in Gen /\ known \in Nat
    BY <1>7, KnownAtType DEF Follow
  <2>2. parting(s) \in Seq(FrameTo(n))
    BY <1>1, PartingType
  <2>3. Begin(d, g, known, parting(s)) /\ UNCHANGED <<hub, down, cur, linked, follows, file, tally>>
    BY <1>7 DEF Follow
  <2>4. SessionsTo(n)' /\ up' \in [Socket -> Seq(FrameTo(n))]
    <3> HIDE DEF g, known
    <3> QED
      BY <2>1, <2>2, <2>3, BeginType
  <2>5. HubTo(n)' /\ FilesOK' /\ CountsOK'
    BY <2>3 DEF hub, file, tally, HubTo, FilesOK, CountsOK
  <2> QED
    BY <2>3, <2>4, <2>5 DEF WireTo
<1>8. CASE Connect(d)
  <2> DEFINE next == <<d, 1 - cur[d]>>
             frames == IF s.on THEN <<Sub(s.gen, s.seq)>> ELSE <<>>
  <2>1. next \in Socket /\ 1 - cur[d] \in {0, 1}
    <3>1. cur[d] \in {0, 1}
      BY DEF WireTo
    <3>2. 1 - cur[d] \in {0, 1}
      BY <3>1
    <3> QED
      BY <3>2 DEF Socket
  <2>2. frames \in Seq(FrameTo(n))
    <3>1. s.gen \in Gen /\ s.seq \in Nat
      BY <1>1 DEF SessionTo
    <3>2. Sub(s.gen, s.seq) \in FrameTo(n)
      BY <3>1 DEF Sub, FrameTo
    <3> QED
      BY <3>2, EmptySeq
  <2> HIDE DEF next, frames
  <2>3. /\ linked' = [linked EXCEPT ![d] = TRUE] /\ cur' = [cur EXCEPT ![d] = 1 - @]
        /\ follows' = [follows EXCEPT ![next] = {}] /\ up' = [up EXCEPT ![next] = frames]
        /\ UNCHANGED <<hub, down, session, file, tally>>
    BY <1>8 DEF Connect, next, frames
  <2>4. WireTo(n)'
    BY <2>1, <2>2, <2>3 DEF WireTo
  <2>5. HubTo(n)' /\ SessionsTo(n)' /\ FilesOK' /\ CountsOK'
    BY <2>3 DEF hub, file, tally, HubTo, SessionsTo, FilesOK, CountsOK
  <2> QED
    BY <2>4, <2>5
<1>9. CASE AskRotate(d)
  <2> DEFINE asks == [s EXCEPT !.asked = TRUE]
             frame == Rotate(s.gen, s.seq, rebuild(s.doc))
  <2>1. asks \in SessionTo(n)
    BY <1>1 DEF SessionTo
  <2>2. /\ s.gen \in Gen /\ s.gen # MaxGen /\ s.seq \in Nat /\ rebuild(s.doc) \in SUBSET OpTo(n)
    BY <1>1, <1>9, TextType, RoomAssumption DEF AskRotate, SessionTo, Gen
  <2>3. <<frame>> \in Seq(FrameTo(n))
    BY <2>2, FrameTypes
  <2>4. /\ Commit(d, ends(asks, <<frame>>)) /\ UNCHANGED <<down, typed, saves, faults>>
    BY <1>9 DEF AskRotate
  <2>5. CountsOK'
    BY <1>9, <2>4, RoomAssumption DEF AskRotate, CountsOK
  <2> HIDE DEF asks, frame
  <2> QED
    BY <2>1, <2>3, <2>4, <2>5, CommitsType
<1>10. CASE Save(d)
  <2>1. /\ disk' = [disk EXCEPT ![d] = view[d]] /\ saves < MaxSaves /\ saves' = saves + 1
        /\ UNCHANGED <<hub, wire, session, view, unwritten, stored, typed, rotations, faults>>
    BY <1>10 DEF Save
  <2>2. HubTo(n)' /\ WireTo(n)' /\ SessionsTo(n)'
    BY <2>1 DEF hub, wire, HubTo, WireTo, SessionsTo
  <2>3. FilesOK' /\ CountsOK'
    BY <2>1, RoomAssumption DEF FilesOK, CountsOK
  <2> QED
    BY <2>2, <2>3
<1>11. CASE WriteAgreed(d)
  <2>1. /\ saves < MaxSaves /\ saves' = saves + 1
        /\ unwritten' = [unwritten EXCEPT ![d] = None]
        /\ stored' = stored \/ stored' = [stored EXCEPT ![d] = unwritten[d]]
        /\ UNCHANGED <<hub, wire, session, view, disk, typed, rotations, faults>>
    BY <1>11 DEF WriteAgreed
  <2>2. HubTo(n)' /\ WireTo(n)' /\ SessionsTo(n)'
    BY <2>1 DEF hub, wire, HubTo, WireTo, SessionsTo
  <2>3. FilesOK' /\ CountsOK'
    BY <2>1, RoomAssumption DEF FilesOK, CountsOK
  <2> QED
    BY <2>2, <2>3
<1>12. CASE Disconnect(d)
  <2>1. HubTo(n)' /\ WireTo(n)' /\ UNCHANGED <<stored, typed, rotations, saves>>
    BY <1>12, UnlinkType DEF Disconnect
  <2>2. SessionsTo(n)'
    BY <1>1, <1>12, OfflineType DEF Disconnect, SessionsTo
  <2>3. FilesOK' /\ CountsOK'
    BY <1>12, <2>1, FaultType DEF Disconnect, FilesOK, CountsOK
  <2> QED
    BY <2>1, <2>2, <2>3
<1>13. CASE Crash(d)
  <2>1. HubTo(n)' /\ WireTo(n)' /\ UNCHANGED <<stored, typed, rotations, saves>>
    BY <1>13, UnlinkType DEF Crash
  <2>2. SessionsTo(n)'
    BY <1>13, OffType DEF Crash, SessionsTo
  <2>3. CountsOK'
    BY <1>13, <2>1, FaultType DEF Crash, CountsOK
  <2>4. FilesOK'
    BY <1>13, <2>1 DEF Crash, FilesOK
  <2> QED
    BY <2>1, <2>2, <2>3, <2>4
<1>14. CASE Close(d)
  <2>1. /\ fault("close") /\ Send(d, parting(s)) /\ session' = [session EXCEPT ![d] = Off]
        /\ disk' = [disk EXCEPT ![d] = view[d]]
        /\ UNCHANGED <<hub, down, cur, linked, follows, view, unwritten, stored, typed,
                       rotations, saves>>
    BY <1>14 DEF Close
  <2>2. up' \in [Socket -> Seq(FrameTo(n))]
    BY <1>1, <2>1, PartingType, SendType
  <2>3. HubTo(n)' /\ SessionsTo(n)'
    BY <2>1, OffType DEF hub, HubTo, SessionsTo
  <2>4. FilesOK' /\ CountsOK'
    BY <2>1, FaultType DEF FilesOK, CountsOK
  <2> QED
    BY <2>1, <2>2, <2>3, <2>4 DEF WireTo
<1>15. CASE \E e \in Edit : Type(d, e)
  <2>1. PICK e \in Edit : Type(d, e)
    BY <1>15
  <2> DEFINE ops == inserts(d, s.client, {e})
             more == [s EXCEPT !.doc = @ \cup ops, !.pending = @ \cup ops]
  <2>2. ops \in SUBSET OpTo(n)
    BY <1>1, InsertsType DEF SessionTo
  <2>3. more \in SessionTo(n)
    <3> HIDE DEF ops
    <3> QED
      BY <1>1, <2>2 DEF SessionTo
  <2>4. session' = session \/ session' = [session EXCEPT ![d] = more]
    BY <1>1, <2>1 DEF Type, SessionTo, SessionsTo
  <2>5. SessionsTo(n)'
    <3> HIDE DEF more
    <3> QED
      BY <2>3, <2>4 DEF SessionsTo
  <2>6. HubTo(n)' /\ WireTo(n)'
    BY <2>1 DEF Type, hub, wire, HubTo, WireTo
  <2>7. FilesOK' /\ CountsOK'
    BY <2>1 DEF Type, FilesOK, CountsOK
  <2> QED
    BY <2>5, <2>6, <2>7
<1> QED
  BY <1>2, <1>3, <1>4, <1>5, <1>6, <1>7, <1>8, <1>9, <1>10, <1>11, <1>12, <1>13, <1>14, <1>15
     DEF Act

-----------------------------------------------------------------------------
(* The theorem.                                                             *)

(* At first no client id is drawn.                                          *)
LEMMA InitType == Init => TypeTo(0)
<1> SUFFICES ASSUME Init PROVE TypeTo(0)
  OBVIOUS
<1>1. Off \in SessionTo(0) /\ NoRow \in RowTo(0)
  BY OffType, NoRowType
<1>2. HubTo(0) /\ WireTo(0) /\ SessionsTo(0)
  BY <1>1, EmptySeq DEF Init, HubTo, WireTo, SessionsTo
<1>3. FilesOK /\ CountsOK
  BY RoomAssumption DEF Init, FilesOK, CountsOK
<1> QED
  BY <1>2, <1>3 DEF TypeTo

(* Steps that draw no client id: drops, sweeps, a wiped hub.                *)
LEMMA OtherStepType ==
    ASSUME NEW n \in Nat, TypeTo(n),
           \/ \E s \in Socket : HubOver(s) \/ Sweep(s)
           \/ Wipe
           \/ UNCHANGED vars
    PROVE  TypeTo(n)'
<1> USE DEF TypeTo
<1>1. CASE \E s \in Socket : HubOver(s)
  <2>1. PICK s \in Socket : HubOver(s)
    BY <1>1
  <2>2. /\ up' \in [Socket -> Seq(FrameTo(n))] /\ SessionsTo(n)' /\ FilesOK'
        /\ UNCHANGED <<cur, linked, typed, rotations, saves>>
    BY <2>1, TakesType DEF HubOver
  <2>3. HubTo(n)' /\ UNCHANGED <<down, follows>> /\ faults' \in 0..MaxFaults
    BY <2>1, FaultType DEF HubOver, hub, HubTo
  <2> QED
    BY <2>2, <2>3 DEF WireTo, CountsOK
<1>2. CASE \E s \in Socket : Sweep(s)
  <2>1. PICK s \in Socket : Sweep(s)
    BY <1>2
  <2>2. /\ up' = [up EXCEPT ![s] = <<>>] /\ follows' = [follows EXCEPT ![s] = {}]
        /\ UNCHANGED <<hub, down, cur, linked, session, file, tally>>
    BY <2>1 DEF Sweep
  <2>3. WireTo(n)'
    BY <2>2, EmptySeq DEF WireTo
  <2>4. HubTo(n)' /\ SessionsTo(n)' /\ FilesOK' /\ CountsOK'
    BY <2>2 DEF hub, file, tally, HubTo, SessionsTo, FilesOK, CountsOK
  <2> QED
    BY <2>3, <2>4
<1>3. CASE Wipe
  <2>1. HubTo(n)'
    BY <1>3, NoRowType, EmptySeq DEF Wipe, HubTo
  <2>2. WireTo(n)'
    BY <1>3, EmptySeq DEF Wipe, WireTo
  <2>3. SessionsTo(n)'
    BY <1>3, OfflineType DEF Wipe, SessionsTo
  <2>4. FilesOK' /\ CountsOK'
    BY <1>3, FaultType DEF Wipe, file, FilesOK, CountsOK
  <2> QED
    BY <2>1, <2>2, <2>3, <2>4
<1>4. CASE UNCHANGED vars
  <2>1. HubTo(n)' /\ WireTo(n)' /\ SessionsTo(n)'
    BY <1>4 DEF vars, hub, wire, HubTo, WireTo, SessionsTo
  <2>2. FilesOK' /\ CountsOK'
    BY <1>4 DEF vars, file, tally, FilesOK, CountsOK
  <2> QED
    BY <2>1, <2>2
<1> QED
  BY <1>1, <1>2, <1>3, <1>4

(* The id a step draws is at most two over the bound.                       *)
LEMMA NextType ==
    ASSUME NEW n \in Nat, TypeTo(n), [Next]_vars PROVE TypeTo(n + 2)'
<1>1. TypeTo(n + 2)
  BY TypeToGrows
<1>2. \A d \in Device : fresh(d) \in 0..(n + 2)
  BY FreshType
<1>3. CASE \E s \in Socket : HubStep(s)
  BY <1>1, <1>3, HubStepType
<1>4. CASE \E d \in Device :
              \/ Act(d) \/ EarlyAckTimeout(d) \/ AskRotate(d) \/ Save(d) \/ WriteAgreed(d)
              \/ Disconnect(d) \/ Crash(d) \/ Close(d)
              \/ \E e \in Edit : Type(d, e)
  <2>1. PICK d \in Device :
              \/ Act(d) \/ EarlyAckTimeout(d) \/ AskRotate(d) \/ Save(d) \/ WriteAgreed(d)
              \/ Disconnect(d) \/ Crash(d) \/ Close(d)
              \/ \E e \in Edit : Type(d, e)
    BY <1>4
  <2>2. n + 2 \in Nat /\ fresh(d) \in 0..(n + 2)
    BY <1>2
  <2> QED
    BY <1>1, <2>1, <2>2, DeviceStepType
<1>5. CASE (\E s \in Socket : HubOver(s) \/ Sweep(s)) \/ Wipe \/ UNCHANGED vars
  BY <1>1, <1>5, OtherStepType
<1> QED
  BY <1>3, <1>4, <1>5 DEF Next

(* With some bound on the client ids drawn so far.                          *)
LEMMA TypesBounded == Spec => []TypeInv
<1>1. Init => TypeInv
  BY InitType DEF TypeInv
<1>2. TypeInv /\ [Next]_vars => TypeInv'
  <2> SUFFICES ASSUME TypeInv, [Next]_vars PROVE TypeInv'
    OBVIOUS
  <2>1. PICK n \in Nat : TypeTo(n)
    BY DEF TypeInv
  <2>2. TypeTo(n + 2)' /\ n + 2 \in Nat
    BY <2>1, NextType
  <2> QED
    BY <2>2 DEF TypeInv
<1> QED
  BY <1>1, <1>2, PTL DEF Spec

(* Every variable keeps its type, whatever faults happen and however many   *)
(* devices there are: in particular a client id, a sequence number or a     *)
(* count of deltas (docs.ts, room-log.ts) never leaves the naturals and a   *)
(* rotation is never asked past the last generation.                        *)
THEOREM TypesHold == Spec => []TypeOK
<1>1. TypeInv => TypeOK
  BY TypeToImpliesTypeOK DEF TypeInv
<1> QED
  BY <1>1, TypesBounded, PTL

-----------------------------------------------------------------------------
(* A log, and a log that goes on from it.                                   *)

first(log, k)   == UNION {log[i] : i \in 1..k}
part(log, j, k) == UNION {log[i] : i \in (j + 1)..k}

Grows(log, longer) ==
    Len(log) <= Len(longer) /\ \A i \in 1..Len(log) : longer[i] = log[i]

(* A room's row is its log: the snapshot its first updates, the deltas the  *)
(* rest, and its name drawn with the first.                                 *)
RowIsLog(row, log) ==
    /\ row.snapSeq <= Len(log)
    /\ row.snap = first(log, row.snapSeq)
    /\ row.deltas = SubSeq(log, row.snapSeq + 1, Len(log))
    /\ row.log = 0 <=> log = <<>>

(* A longer log starts with the same updates.                               *)
LEMMA FirstGrows ==
    ASSUME NEW X, NEW log \in Seq(X), NEW longer \in Seq(X), Grows(log, longer),
           NEW k \in 0..Len(log)
    PROVE  first(longer, k) = first(log, k)
BY DEF Grows, first

(* More of a log's updates include fewer of them.                           *)
LEMMA FirstIncludes ==
    ASSUME NEW log, NEW j \in Nat, NEW k \in Nat, j <= k
    PROVE  first(log, j) \subseteq first(log, k) /\ (j > 0 => log[j] \subseteq first(log, k))
BY DEF first

(* A log's first updates, one more at a time.                               *)
LEMMA FirstNext ==
    ASSUME NEW log, NEW k \in Nat
    PROVE  /\ first(log, 0) = {}
           /\ first(log, k + 1) = first(log, k) \cup log[k + 1]
<1>1. 1..(k + 1) = 1..k \cup {k + 1}
  OBVIOUS
<1> QED
  BY <1>1 DEF first

(* A whole log merged is all its updates.                                   *)
LEMMA MergedIsFirst ==
    ASSUME NEW X, NEW log \in Seq(X) PROVE merged(log) = first(log, Len(log))
<1>1. DOMAIN log = 1..Len(log)
  BY LenProperties
<1> QED
  BY <1>1 DEF merged, first

(* A slice of a sequence.                                                   *)
LEMMA Slice ==
    ASSUME NEW X, NEW log \in Seq(X), NEW i \in Nat, NEW j \in Nat, i <= j, j <= Len(log)
    PROVE  /\ SubSeq(log, i + 1, j) \in Seq(X)
           /\ Len(SubSeq(log, i + 1, j)) = j - i
           /\ \A k \in 1..(j - i) : SubSeq(log, i + 1, j)[k] = log[i + k]
<1> DEFINE m == i + 1
           slice == SubSeq(log, m, j)
<1>1. m \in Int /\ j \in Int /\ Len(log) \in Nat /\ m \in Nat \ {0}
  BY LenProperties
<1>2. \A k \in m..j : log[k] \in X
  BY <1>1, ElementOfSeq
<1>3. /\ slice \in Seq(X) /\ Len(slice) = (IF m <= j THEN j - m + 1 ELSE 0)
      /\ \A k \in 1..(j - m + 1) : slice[k] = log[m + k - 1]
  <2> HIDE DEF m
  <2> QED
    BY <1>1, <1>2, SubSeqProperties
<1> HIDE DEF slice
<1>4. j - m + 1 = j - i /\ \A k \in 1..(j - i) : m + k - 1 = i + k
  OBVIOUS
<1>5. Len(slice) = j - i
  BY <1>3, <1>4
<1>6. \A k \in 1..(j - i) : slice[k] = log[i + k]
  <2> TAKE k \in 1..(j - i)
  <2>1. slice[k] = log[m + k - 1] /\ m + k - 1 = i + k
    <3> HIDE DEF m
    <3> QED
      BY <1>3, <1>4
  <2> QED
    BY <2>1
<1> QED
  BY <1>3, <1>5, <1>6 DEF slice

(* The updates of a slice of the log.                                       *)
LEMMA SliceMerged ==
    ASSUME NEW X, NEW log \in Seq(X), NEW i \in Nat, NEW j \in Nat, i <= j, j <= Len(log)
    PROVE  merged(SubSeq(log, i + 1, j)) = part(log, i, j)
<1> DEFINE slice == SubSeq(log, i + 1, j)
<1>1. /\ slice \in Seq(X) /\ Len(slice) = j - i
      /\ \A k \in 1..(j - i) : slice[k] = log[i + k]
  BY Slice
<1>2. DOMAIN slice = 1..(j - i)
  BY <1>1, LenProperties
<1> HIDE DEF slice
<1>3. ASSUME NEW k \in DOMAIN slice PROVE i + k \in (i + 1)..j /\ slice[k] = log[i + k]
  BY <1>1, <1>2
<1>4. ASSUME NEW k \in (i + 1)..j PROVE k - i \in DOMAIN slice /\ slice[k - i] = log[k]
  BY <1>1, <1>2
<1>5. merged(slice) \subseteq part(log, i, j)
  BY <1>3 DEF merged, part
<1>6. part(log, i, j) \subseteq merged(slice)
  BY <1>4 DEF merged, part
<1> QED
  BY <1>5, <1>6 DEF slice

(* The rest of a log.                                                       *)
LEMMA SliceToEnd ==
    ASSUME NEW X, NEW log \in Seq(X), NEW i \in Nat, i <= Len(log)
    PROVE  /\ SubSeq(log, i + 1, Len(log)) \in Seq(X)
           /\ Len(SubSeq(log, i + 1, Len(log))) = Len(log) - i
           /\ \A k \in 1..(Len(log) - i) : SubSeq(log, i + 1, Len(log))[k] = log[i + k]
<1> DEFINE end == Len(log)
<1>1. end \in Nat /\ i <= end /\ end <= Len(log)
  BY LenProperties
<1>2. end = Len(log)
  OBVIOUS
<1> HIDE DEF end
<1>3. /\ SubSeq(log, i + 1, end) \in Seq(X)
      /\ Len(SubSeq(log, i + 1, end)) = end - i
      /\ \A k \in 1..(end - i) : SubSeq(log, i + 1, end)[k] = log[i + k]
  BY <1>1, Slice
<1> QED
  BY <1>2, <1>3

(* The rest of a log merged.                                                *)
LEMMA SliceMergedToEnd ==
    ASSUME NEW X, NEW log \in Seq(SUBSET X), NEW i \in Nat, i <= Len(log)
    PROVE  merged(SubSeq(log, i + 1, Len(log))) = part(log, i, Len(log))
<1> DEFINE end == Len(log)
<1>1. end \in Nat /\ i <= end /\ end <= Len(log)
  BY LenProperties
<1>2. end = Len(log)
  OBVIOUS
<1> HIDE DEF end
<1>3. merged(SubSeq(log, i + 1, end)) = part(log, i, end)
  BY <1>1, SliceMerged
<1> QED
  BY <1>2, <1>3

(* The room at `k` is its log's first k updates.                            *)
LEMMA UpToIsFirst ==
    ASSUME TypeOK, NEW g \in Gen, NEW k \in 0..Len(past[g])
    PROVE  upTo(g, k) = first(past[g], k)
<1>1. past[g] \in Seq(SUBSET Op)
  BY DEF TypeOK
<1>2. k \in Nat /\ k <= Len(past[g])
  BY <1>1, LenProperties
<1>3. merged(SubSeq(past[g], 0 + 1, k)) = part(past[g], 0, k)
  BY <1>1, <1>2, SliceMerged
<1> QED
  BY <1>3 DEF upTo, first, part

(* The parts of a row that is its log: its head is the log's length.        *)
LEMMA RowFields ==
    ASSUME NEW row \in Row, NEW log \in Seq(SUBSET Op), RowIsLog(row, log)
    PROVE  /\ row.snapSeq \in Nat /\ row.log \in Nat /\ Len(log) \in Nat
           /\ row.snapSeq <= Len(log) /\ head(row) = Len(log)
           /\ row.snap = first(log, row.snapSeq) /\ (row.log = 0 <=> log = <<>>)
           /\ row.deltas = SubSeq(log, row.snapSeq + 1, Len(log))
           /\ row.deltas \in Seq(SUBSET Op) /\ Len(row.deltas) = Len(log) - row.snapSeq
<1>1. /\ row.snapSeq <= Len(log)
      /\ row.snap = first(log, row.snapSeq) /\ (row.log = 0 <=> log = <<>>)
      /\ row.deltas = SubSeq(log, row.snapSeq + 1, Len(log))
  BY DEF RowIsLog
<1>2. row.snapSeq \in Nat /\ row.log \in Nat /\ Len(log) \in Nat
  BY LenProperties DEF Row
<1>3. /\ SubSeq(log, row.snapSeq + 1, Len(log)) \in Seq(SUBSET Op)
      /\ Len(SubSeq(log, row.snapSeq + 1, Len(log))) = Len(log) - row.snapSeq
  BY <1>1, <1>2, SliceToEnd
<1>4. head(row) = Len(log)
  BY <1>1, <1>2, <1>3, SMTT(30) DEF head
<1> QED
  BY <1>1, <1>2, <1>3, <1>4

(* Snapshot and deltas together are the whole log.                          *)
LEMMA RowText ==
    ASSUME NEW row \in Row, NEW log \in Seq(SUBSET Op), RowIsLog(row, log)
    PROVE  row.snap \cup merged(row.deltas) = first(log, Len(log))
<1>1. /\ row.snapSeq \in Nat /\ Len(log) \in Nat /\ row.snapSeq <= Len(log)
      /\ row.snap = first(log, row.snapSeq)
      /\ row.deltas = SubSeq(log, row.snapSeq + 1, Len(log))
  BY RowFields
<1>2. merged(row.deltas) = part(log, row.snapSeq, Len(log))
  BY <1>1, SliceMergedToEnd
<1>3. 1..Len(log) = 1..row.snapSeq \cup (row.snapSeq + 1)..Len(log)
  BY <1>1
<1> QED
  BY <1>1, <1>2, <1>3 DEF first, part

(* An empty log shows nothing.                                              *)
LEMMA NothingMerged == merged(<<>>) = {}
<1>1. <<>> \in Seq({}) /\ Len(<<>>) = 0
  BY EmptySeq
<1> QED
  BY <1>1, LenProperties DEF merged

(* One update more is logged: the row stays the log.                        *)
LEMMA RowInsert ==
    ASSUME NEW row \in Row, NEW log \in Seq(SUBSET Op), RowIsLog(row, log), ~row.moved,
           NEW ops \in SUBSET Op, NEW name \in Nat \ {0}
    PROVE  RowIsLog(insert(row, ops, name), Append(log, ops))
<1> DEFINE longer == Append(log, ops)
           more == insert(row, ops, name)
<1>1. row.snapSeq \in Nat /\ Len(log) \in Nat /\ row.snapSeq <= Len(log) /\ row.log \in Nat
  BY LenProperties DEF Row, RowIsLog
<1>2. /\ longer \in Seq(SUBSET Op) /\ Len(longer) = Len(log) + 1 /\ Grows(log, longer)
      /\ longer # <<>> /\ longer[Len(log) + 1] = ops
  BY AppendProperties DEF Grows
<1>3. /\ more.snapSeq = row.snapSeq /\ more.snap = row.snap
      /\ more.deltas = Append(row.deltas, ops)
      /\ more.log = IF exists(row) THEN row.log ELSE name
  BY DEF insert, Row
<1>4. more.snap = first(longer, row.snapSeq)
  <2>1. row.snap = first(log, row.snapSeq) /\ row.snapSeq \in 0..Len(log)
    BY <1>1 DEF RowIsLog
  <2> HIDE DEF longer, more
  <2> QED
    BY <1>2, <1>3, <2>1, FirstGrows
<1>5. more.deltas = SubSeq(longer, row.snapSeq + 1, Len(longer))
  <2> DEFINE slice == SubSeq(longer, row.snapSeq + 1, Len(log) + 1)
             deltas == Append(row.deltas, ops)
             n == Len(log) - row.snapSeq
  <2>1. /\ row.deltas \in Seq(SUBSET Op) /\ Len(row.deltas) = n
        /\ \A i \in 1..n : row.deltas[i] = log[row.snapSeq + i]
    <3>1. row.deltas = SubSeq(log, row.snapSeq + 1, Len(log))
      BY DEF RowIsLog
    <3> QED
      BY <1>1, <3>1, Slice
  <2>2. /\ slice \in Seq(SUBSET Op) /\ Len(slice) = Len(log) + 1 - row.snapSeq
        /\ \A i \in 1..(Len(log) + 1 - row.snapSeq) : slice[i] = longer[row.snapSeq + i]
    <3> DEFINE end == Len(log) + 1
    <3>1. end \in Nat /\ row.snapSeq <= end /\ end <= Len(longer) /\ longer \in Seq(SUBSET Op)
      BY <1>1, <1>2
    <3> HIDE DEF longer, end, slice
    <3>2. /\ SubSeq(longer, row.snapSeq + 1, end) \in Seq(SUBSET Op)
          /\ Len(SubSeq(longer, row.snapSeq + 1, end)) = end - row.snapSeq
          /\ \A i \in 1..(end - row.snapSeq) :
                SubSeq(longer, row.snapSeq + 1, end)[i] = longer[row.snapSeq + i]
      BY <1>1, <3>1, Slice, SMTT(30)
    <3> QED
      BY <1>1, <3>2, SMTT(30) DEF end, slice
  <2>3. n \in Nat /\ Len(log) + 1 - row.snapSeq = n + 1
    BY <1>1
  <2>4. /\ deltas \in Seq(SUBSET Op) /\ Len(deltas) = n + 1
        /\ \A i \in 1..n : deltas[i] = row.deltas[i]
        /\ deltas[n + 1] = ops
    BY <2>1, AppendProperties
  <2>5. \A i \in 1..(n + 1) : deltas[i] = longer[row.snapSeq + i]
    <3> TAKE i \in 1..(n + 1)
    <3>1. CASE i \in 1..n
      <4>1. row.snapSeq + i \in 1..Len(log)
        BY <1>1, <3>1
      <4> HIDE DEF deltas, longer
      <4> QED
        BY <1>2, <2>1, <2>4, <3>1, <4>1 DEF Grows
    <3>2. CASE i = n + 1
      <4>1. row.snapSeq + i = Len(log) + 1
        BY <1>1, <3>2
      <4> HIDE DEF deltas, longer, n
      <4> QED
        BY <1>2, <2>4, <3>2, <4>1
    <3>3. i \in 1..n \/ i = n + 1
      <4> HIDE DEF n
      <4> QED
        BY <2>3
    <3> QED
      BY <3>1, <3>2, <3>3
  <2> HIDE DEF slice, deltas, n, longer
  <2>6. slice = deltas
    BY <2>2, <2>3, <2>4, <2>5, SeqEqual
  <2> QED
    BY <1>2, <1>3, <2>6 DEF slice, deltas
<1>6. more.log # 0
  BY <1>1, <1>3 DEF exists
<1> HIDE DEF more, longer
<1>7. more.snapSeq <= Len(longer)
  BY <1>1, <1>2, <1>3
<1> QED
  BY <1>2, <1>3, <1>4, <1>5, <1>6, <1>7 DEF RowIsLog, more, longer

(* Deltas compacted further are a later slice of the log.                   *)
LEMMA SliceOfSlice ==
    ASSUME NEW X, NEW log \in Seq(X), NEW i \in Nat, NEW j \in Nat, i <= j, j <= Len(log)
    PROVE  SubSeq(SubSeq(log, i + 1, Len(log)), j - i + 1, Len(log) - i)
               = SubSeq(log, j + 1, Len(log))
<1> DEFINE outer == SubSeq(log, i + 1, Len(log))
           k == j - i
           m == Len(log) - i
           inner == SubSeq(outer, k + 1, m)
           slice == SubSeq(log, j + 1, Len(log))
<1>1. /\ Len(log) \in Nat /\ k \in Nat /\ m \in Nat /\ k <= m /\ m - k = Len(log) - j
      /\ i <= Len(log)
  BY LenProperties, SMTT(30)
<1>2. outer \in Seq(X) /\ Len(outer) = m /\ \A n \in 1..m : outer[n] = log[i + n]
  BY <1>1, SliceToEnd, ZenonT(40)
<1>3. slice \in Seq(X) /\ Len(slice) = m - k /\ \A n \in 1..(m - k) : slice[n] = log[j + n]
  <2>1. /\ slice \in Seq(X) /\ Len(slice) = Len(log) - j
        /\ \A n \in 1..(Len(log) - j) : slice[n] = log[j + n]
    BY <1>1, SliceToEnd
  <2> HIDE DEF k, m, slice
  <2> QED
    BY <1>1, <2>1
<1>4. inner \in Seq(X) /\ Len(inner) = m - k /\ \A n \in 1..(m - k) : inner[n] = outer[k + n]
  <2> HIDE DEF k, m, outer
  <2> QED
    BY <1>1, <1>2, Slice
<1>5. \A n \in 1..(m - k) : inner[n] = slice[n]
  <2> TAKE n \in 1..(m - k)
  <2>1. k + n \in 1..m /\ i + (k + n) = j + n
    BY <1>1
  <2> HIDE DEF k, m, inner, outer, slice
  <2>2. inner[n] = log[i + (k + n)]
    BY <1>2, <1>4, <2>1
  <2> QED
    BY <1>3, <2>1, <2>2
<1> HIDE DEF k, m, inner, slice
<1>6. inner = slice
  BY <1>3, <1>4, <1>5, SeqEqual
<1>7. SubSeq(outer, j - i + 1, Len(log) - i) = inner
  BY DEF inner, k, m
<1> QED
  BY <1>6, <1>7 DEF slice

(* A snapshot of the log's first updates may replace them.                  *)
LEMMA RowCompact ==
    ASSUME NEW row \in Row, NEW log \in Seq(SUBSET Op), RowIsLog(row, log),
           NEW upto \in 0..Len(log)
    PROVE  RowIsLog(compact(row, upto, first(log, upto)), log)
<1> DEFINE ops == first(log, upto)
           deltas == SubSeq(row.deltas, upto - row.snapSeq + 1, Len(row.deltas))
<1>1. /\ row.snapSeq \in Nat /\ Len(log) \in Nat /\ row.snapSeq <= Len(log) /\ row.log \in Nat
      /\ head(row) = Len(log) /\ Len(row.deltas) = Len(log) - row.snapSeq
      /\ row.deltas = SubSeq(log, row.snapSeq + 1, Len(log))
  BY RowFields
<1> DEFINE covered == IF upto < head(row) THEN upto ELSE head(row)
<1>2. upto \in Nat /\ upto <= Len(log) /\ covered = upto
  BY <1>1
<1>3. compact(row, upto, ops) =
        IF upto <= row.snapSeq THEN row
        ELSE [row EXCEPT !.snap = ops, !.snapSeq = upto, !.deltas = deltas]
  BY <1>2 DEF compact
<1>4. CASE upto <= row.snapSeq
  BY <1>3, <1>4
<1>5. CASE ~(upto <= row.snapSeq)
  <2>1. compact(row, upto, ops) = [row EXCEPT !.snap = ops, !.snapSeq = upto, !.deltas = deltas]
    BY <1>3, <1>5
  <2>2. SubSeq(SubSeq(log, row.snapSeq + 1, Len(log)), upto - row.snapSeq + 1,
               Len(log) - row.snapSeq) = SubSeq(log, upto + 1, Len(log))
    <3> DEFINE i == row.snapSeq
    <3>1. i \in Nat /\ i <= upto
      BY <1>1, <1>2, <1>5
    <3> HIDE DEF i
    <3>2. SubSeq(SubSeq(log, i + 1, Len(log)), upto - i + 1, Len(log) - i)
              = SubSeq(log, upto + 1, Len(log))
      BY <1>2, <3>1, SliceOfSlice
    <3> QED
      BY <3>2 DEF i
  <2>3. deltas = SubSeq(log, upto + 1, Len(log))
    BY <1>1, <2>2
  <2> HIDE DEF ops, deltas
  <2> DEFINE folded == [row EXCEPT !.snap = ops, !.snapSeq = upto, !.deltas = deltas]
  <2>5. /\ folded.snap = ops /\ folded.snapSeq = upto /\ folded.deltas = deltas
        /\ folded.log = row.log
    BY DEF Row
  <2> HIDE DEF folded
  <2>6. row.log = 0 <=> log = <<>>
    BY DEF RowIsLog
  <2>7. RowIsLog(folded, log)
    BY <1>2, <2>3, <2>5, <2>6 DEF RowIsLog, ops
  <2> QED
    BY <2>1, <2>7 DEF folded, ops
<1> QED
  BY <1>4, <1>5

(* What a room answers: with it and the log's first updates up to `since`,  *)
(* a reader has the whole log, and nothing else.                            *)
LEMMA StateIsLog ==
    ASSUME NEW row \in Row, NEW log \in Seq(SUBSET Op), RowIsLog(row, log),
           NEW since \in Nat, NEW seq \in Nat, since <= seq
    PROVE  /\ state(row, since).head = Len(log) /\ state(row, since).log = row.log
           /\ state(row, since).ops \subseteq first(log, Len(log))
           /\ first(log, Len(log)) \subseteq state(row, since).ops \cup first(log, seq)
<1> DEFINE ops == state(row, since).ops
           whole == since < row.snapSeq
           from  == IF whole THEN row.snapSeq ELSE since
           tail  == SubSeq(row.deltas, from - row.snapSeq + 1, Len(row.deltas))
<1>1. /\ row.snapSeq \in Nat /\ Len(log) \in Nat /\ row.snapSeq <= Len(log)
      /\ head(row) = Len(log)
      /\ row.deltas = SubSeq(log, row.snapSeq + 1, Len(log))
      /\ row.deltas \in Seq(SUBSET Op) /\ Len(row.deltas) = Len(log) - row.snapSeq
  BY RowFields
<1>2. /\ state(row, since).head = Len(log) /\ state(row, since).log = row.log
      /\ ops = (IF whole THEN row.snap ELSE {}) \cup merged(tail)
  BY <1>1 DEF state
<1> HIDE DEF ops
<1>3. CASE whole
  <2>1. tail = SubSeq(row.deltas, 1, Len(row.deltas))
    <3>1. from - row.snapSeq + 1 = 1
      BY <1>1, <1>3
    <3> HIDE DEF from
    <3> QED
      BY <3>1
  <2>2. tail = row.deltas
    BY <1>1, <2>1, SubSeqFull
  <2>3. ops = first(log, Len(log))
    BY <1>2, <1>3, <2>2, RowText
  <2> QED
    BY <1>2, <2>3 DEF ops
<1>4. CASE ~whole /\ since <= Len(log)
  <2>1. tail = SubSeq(log, since + 1, Len(log))
    <3>1. SubSeq(SubSeq(log, row.snapSeq + 1, Len(log)), since - row.snapSeq + 1,
                 Len(log) - row.snapSeq) = SubSeq(log, since + 1, Len(log))
      <4> DEFINE i == row.snapSeq
      <4>1. i \in Nat /\ i <= since
        BY <1>1, <1>4
      <4> HIDE DEF i
      <4>2. SubSeq(SubSeq(log, i + 1, Len(log)), since - i + 1, Len(log) - i)
                = SubSeq(log, since + 1, Len(log))
        BY <1>4, <4>1, SliceOfSlice
      <4> QED
        BY <4>2 DEF i
    <3>2. from = since
      BY <1>4
    <3> QED
      BY <1>1, <3>1, <3>2
  <2>2. merged(tail) = part(log, since, Len(log))
    BY <1>1, <1>4, <2>1, SliceMergedToEnd
  <2>3. ops = part(log, since, Len(log))
    BY <1>2, <1>4, <2>2
  <2>4. first(log, Len(log)) = first(log, since) \cup part(log, since, Len(log))
    BY <1>1, <1>4, SMTT(30) DEF first, part
  <2>5. first(log, since) \subseteq first(log, seq)
    BY FirstIncludes
  <2> QED
    BY <1>2, <2>3, <2>4, <2>5 DEF ops
<1>5. CASE ~whole /\ ~(since <= Len(log))
  <2>1. tail = <<>>
    <3>1. /\ from = since /\ since - row.snapSeq + 1 \in Int
          /\ since - row.snapSeq + 1 > Len(row.deltas)
      BY <1>1, <1>5
    <3> DEFINE m == since - row.snapSeq + 1
               n == Len(row.deltas)
    <3>2. m \in Int /\ n \in Int /\ n < m
      BY <1>1, <3>1
    <3> HIDE DEF m, n
    <3>3. SubSeq(row.deltas, m, n) = <<>>
      BY <3>2, SubSeqEmpty
    <3> QED
      BY <3>1, <3>3 DEF m, n
  <2>2. merged(tail) = {}
    BY <2>1, NothingMerged
  <2>3. first(log, Len(log)) \subseteq first(log, seq)
    BY <1>1, <1>5, FirstIncludes
  <2> QED
    BY <1>2, <1>5, <2>2, <2>3 DEF ops
<1> QED
  BY <1>3, <1>4, <1>5

(* A rebuilt document shows the same text.                                  *)
LEMMA RebuildText == ASSUME NEW ops \in SUBSET Op PROVE Text(rebuild(ops)) = Text(ops)
<1>1. \A o \in Op : [o EXCEPT !.cut = TRUE].cut
  BY DEF Op
<1>2. live(live(ops)) = live(ops)
  BY <1>1 DEF live
<1> QED
  BY <1>2 DEF Text, rebuild

-----------------------------------------------------------------------------
(* A session and the frames of its room.                                    *)

(* What tells a device where its room is, and what counts as an answer to   *)
(* what it asked.                                                           *)
isNews(s, f)   == f.gen = s.gen /\ f.type \in {"State", "Echo", "Fanout"}
isAnswer(s, f) == f.gen = s.gen /\ f.type \in {"State", "Echo"}
pos(f)         == IF f.type = "State" THEN f.head ELSE f.seq

(* Where a session that is on is in its room's log.                         *)
PlaceOK(s, log, row) ==
    /\ s.seq <= Len(log) /\ s.known <= Len(log)
    /\ s.left = None
    /\ s.name \in {0, row.log}
    /\ s.moved => row.moved
    /\ s.joined => s.seq >= 1 /\ first(log, s.seq) \subseteq s.doc
    /\ ~s.joined => s.seq = 0 /\ ~s.online

(* What it shows and the room has not told it, it still owes the room;      *)
(* `ops` is about to be sent.                                               *)
OwesOK(s, ops, log) ==
    /\ s.doc \subseteq first(log, s.seq) \cup s.pending \cup outgoing(s.unacked) \cup ops
    /\ s.pending \cup outgoing(s.unacked) \cup ops \subseteq s.doc
    /\ \A u \in s.unacked : u.n <= s.sent

LocalOK(s, log, row) == PlaceOK(s, log, row) /\ OwesOK(s, {}, log)

(* What a session's socket carries to the hub.                              *)
UpOK(s, f) ==
    /\ f.gen <= s.gen
    /\ f.gen = s.gen =>
        /\ f.type # "Unsub"
        /\ ~s.joined => f.type \in {"Sub", "Seed"}
        /\ f.type = "Sub" => f.since <= s.seq /\ ~s.online
        /\ f.type = "Seed" => ~s.joined /\ s.seed = {f.ops}
        /\ f.type = "Rotate" => f.upto <= s.seq
        /\ f.type = "Update" =>
              /\ f.ops \subseteq s.doc /\ f.n <= s.sent
              /\ \A u \in s.unacked : u.n = f.n => u.ops \subseteq f.ops

Alone(s, U, i) == \A j \in 1..Len(U) : U[j].gen = s.gen => j = i

(* A device that asks to follow its room has nothing else in it; one that   *)
(* offers a seed waits for nothing else.                                    *)
AsksOK(s, U, D, F) ==
    /\ \A i \in 1..Len(U) : UpOK(s, U[i])
    /\ \A i \in 1..Len(U) : U[i].gen = s.gen /\ U[i].type = "Sub" =>
          /\ Alone(s, U, i)
          /\ \A j \in 1..Len(D) : D[j].gen # s.gen
          /\ s.gen \notin F
    /\ ~s.joined => \A i \in 1..Len(U) : U[i].gen = s.gen /\ U[i].type = "Seed" =>
          /\ Alone(s, U, i)
          /\ \A j \in 1..Len(D) : ~isAnswer(s, D[j])

(* What is on its way to a session.                                         *)
DownOK(s, f, log, row) ==
    /\ f.gen <= s.gen
    /\ f.gen = s.gen /\ f.type = "Moved" => row.moved
    /\ isNews(s, f) => pos(f) >= s.seq /\ pos(f) <= Len(log)
    /\ f.gen = s.gen /\ f.type = "State" =>
          /\ f.ops \subseteq first(log, f.head)
          /\ first(log, f.head) \subseteq f.ops \cup first(log, s.seq)
          /\ f.head >= s.known
          /\ f.log \in {0, row.log}
    /\ f.gen = s.gen /\ f.type = "Fanout" => f.seq >= 1 /\ f.ops = log[f.seq]
    /\ f.gen = s.gen /\ f.type = "Echo" =>
          /\ f.seq >= 1
          /\ s.joined => /\ log[f.seq] \subseteq s.doc /\ f.n <= s.sent
                         /\ \A u \in s.unacked : u.n = f.n => u.ops \subseteq log[f.seq]
          /\ ~s.joined => f.seq = 1 /\ s.seed = {log[1]}

(* A room's frames come in the order of its log, and none is skipped: the   *)
(* one before an update is on its way, or was handled.                      *)
NextOK(s, D, i) ==
    \/ \E j \in 1..(i - 1) : isNews(s, D[j]) /\ pos(D[j]) >= D[i].seq - 1
    \/ s.joined /\ s.seq >= D[i].seq - 1
    \/ ~s.joined /\ (D[i].seq <= 1 \/ \A j \in 1..(i - 1) : ~isAnswer(s, D[j]))

AnswersOK(s, D, log, row) ==
    /\ \A i \in 1..Len(D) : DownOK(s, D[i], log, row)
    /\ \A i \in 1..Len(D), j \in 1..Len(D) :
          i < j /\ isNews(s, D[i]) /\ isNews(s, D[j]) => pos(D[i]) <= pos(D[j])
    /\ ~s.joined => \A i \in 1..Len(D), j \in 1..Len(D) :
          isAnswer(s, D[i]) /\ isAnswer(s, D[j]) => i = j
    /\ \A i \in 1..Len(D) : isNews(s, D[i]) /\ D[i].type # "State" => NextOK(s, D, i)

(* A device the hub forwards to has the log's last update, or it is on its  *)
(* way, or the device still has to join.                                    *)
TipOK(s, D, log) ==
    \/ \E j \in 1..Len(D) : isNews(s, D[j]) /\ pos(D[j]) = Len(log)
    \/ s.joined /\ s.seq = Len(log)
    \/ ~s.joined /\ (log = <<>> \/ \A j \in 1..Len(D) : ~isAnswer(s, D[j]))

(* A socket the device is done with is told so.                             *)
LeavesOK(s, U, F) ==
    /\ \A g \in F : (s.on /\ g = s.gen) \/ \E i \in 1..Len(U) : U[i] = Unsub(g)
    /\ \A i \in 1..Len(U) : U[i].type = "Sub" =>
          (s.on /\ U[i].gen = s.gen) \/ \E j \in 1..Len(U) : j > i /\ U[j] = Unsub(U[i].gen)

-----------------------------------------------------------------------------
(* A frame less on the way to the hub.                                      *)

(* A queue without its first frame.                                         *)
LEMMA TailAt ==
    ASSUME NEW X, NEW q \in Seq(X), q # <<>>
    PROVE  /\ Len(q) \in Nat /\ Len(q) >= 1 /\ Len(Tail(q)) = Len(q) - 1 /\ Head(q) = q[1]
           /\ \A i \in 1..Len(Tail(q)) : Tail(q)[i] = q[i + 1] /\ i + 1 \in 1..Len(q)
           /\ \A i \in 1..Len(q) : i = 1 \/ (i - 1 \in 1..Len(Tail(q)) /\ Tail(q)[i - 1] = q[i])
<1>1. Len(q) \in Nat /\ Len(q) >= 1
  BY EmptySeq
<1>2. Len(Tail(q)) = Len(q) - 1 /\ \A i \in 1..Len(Tail(q)) : Tail(q)[i] = q[i + 1]
  BY HeadTailProperties
<1>3. Head(q) = q[1]
  OBVIOUS
<1> QED
  BY <1>1, <1>2, <1>3

(* A queue with one frame more.                                             *)
LEMMA AppendAt ==
    ASSUME NEW X, NEW q \in Seq(X), NEW x \in X
    PROVE  /\ q \o <<x>> \in Seq(X) /\ Len(q) \in Nat
           /\ Len(q \o <<x>>) = Len(q) + 1 /\ (q \o <<x>>)[Len(q) + 1] = x
           /\ \A i \in 1..Len(q) : (q \o <<x>>)[i] = q[i]
<1>1. q \o <<x>> = Append(q, x)
  BY AppendIsConcat
<1> QED
  BY <1>1, AppendProperties, LenProperties

(* The hub took a frame: what is left was in order before.                  *)
LEMMA AsksTail ==
    ASSUME NEW s, NEW U \in Seq(Frame), NEW D, NEW F, NEW F2, U # <<>>,
           AsksOK(s, U, D, F), s.gen \in F2 => s.gen \in F
    PROVE  AsksOK(s, Tail(U), D, F2)
<1> DEFINE V == Tail(U)
<1>1. \A i \in 1..Len(V) : V[i] = U[i + 1] /\ i + 1 \in 1..Len(U)
  BY TailAt
<1>2. Len(V) \in Nat
  BY HeadTailProperties, LenProperties
<1> HIDE DEF V
<1>3. \A i \in 1..Len(V) : UpOK(s, V[i])
  BY <1>1 DEF AsksOK
<1>4. ASSUME NEW i \in 1..Len(V), Alone(s, U, i + 1) PROVE Alone(s, V, i)
  <2> SUFFICES ASSUME NEW j \in 1..Len(V), V[j].gen = s.gen PROVE j = i
    BY DEF Alone
  <2>1. U[j + 1].gen = s.gen /\ j + 1 \in 1..Len(U)
    BY <1>1
  <2>2. j + 1 = i + 1
    BY <1>4, <2>1 DEF Alone
  <2> QED
    BY <1>2, <2>2
<1>5. ASSUME NEW i \in 1..Len(V), V[i].gen = s.gen, V[i].type = "Sub"
      PROVE  /\ Alone(s, V, i) /\ s.gen \notin F2
             /\ \A j \in 1..Len(D) : D[j].gen # s.gen
  BY <1>1, <1>4, <1>5 DEF AsksOK
<1>6. ASSUME NEW i \in 1..Len(V), V[i].gen = s.gen, V[i].type = "Seed", ~s.joined
      PROVE  Alone(s, V, i) /\ \A j \in 1..Len(D) : ~isAnswer(s, D[j])
  BY <1>1, <1>4, <1>6 DEF AsksOK
<1>7. AsksOK(s, V, D, F2)
  BY <1>3, <1>5, <1>6 DEF AsksOK
<1> QED
  BY <1>7 DEF V

(* The hub has taken a frame of this room: nothing else was asked.          *)
LEMMA AsksTaken ==
    ASSUME NEW s, NEW U \in Seq(Frame), NEW D, NEW F, NEW D2, NEW F2, U # <<>>,
           AsksOK(s, U, D, F), Head(U).gen = s.gen
    PROVE  AsksOK(s, Tail(U), D2, F2)
<1> DEFINE V == Tail(U)
<1>1. \A i \in 1..Len(V) : V[i] = U[i + 1] /\ i + 1 \in 1..Len(U)
  BY TailAt
<1>2. Len(V) \in Nat /\ Len(U) \in Nat /\ 1 \in 1..Len(U) /\ U[1].gen = s.gen
  BY TailAt, HeadTailProperties, LenProperties
<1> HIDE DEF V
<1>3. \A i \in 1..Len(V) : UpOK(s, V[i])
  BY <1>1 DEF AsksOK
<1>4. ASSUME NEW i \in 1..Len(V), Alone(s, U, i + 1) PROVE FALSE
  BY <1>1, <1>2, <1>4 DEF Alone
<1>5. ASSUME NEW i \in 1..Len(V), V[i].gen = s.gen, V[i].type = "Sub" PROVE FALSE
  BY <1>1, <1>4, <1>5 DEF AsksOK
<1>6. ASSUME NEW i \in 1..Len(V), V[i].gen = s.gen, V[i].type = "Seed", ~s.joined PROVE FALSE
  BY <1>1, <1>4, <1>6 DEF AsksOK
<1>7. AsksOK(s, V, D2, F2)
  BY <1>3, <1>5, <1>6 DEF AsksOK
<1> QED
  BY <1>7 DEF V

(* What the room's other devices did reaches this one.                      *)
LEMMA AsksTold ==
    ASSUME NEW s, NEW U, NEW D \in Seq(Answer), NEW F, NEW a \in Answer,
           AsksOK(s, U, D, F), ~isAnswer(s, a), a.gen = s.gen => s.gen \in F
    PROVE  AsksOK(s, U, D \o <<a>>, F)
<1> DEFINE E == D \o <<a>>
<1>1. /\ Len(D) \in Nat /\ Len(E) = Len(D) + 1 /\ E[Len(D) + 1] = a
      /\ \A i \in 1..Len(D) : E[i] = D[i]
  BY AppendAt
<1> HIDE DEF E
<1>2. \A j \in 1..Len(E) : j \in 1..Len(D) \/ j = Len(D) + 1
  BY <1>1
<1>3. ASSUME NEW i \in 1..Len(U), U[i].gen = s.gen, U[i].type = "Sub"
      PROVE  Alone(s, U, i) /\ s.gen \notin F /\ \A j \in 1..Len(E) : E[j].gen # s.gen
  BY <1>1, <1>2, <1>3 DEF AsksOK
<1>4. ASSUME NEW i \in 1..Len(U), U[i].gen = s.gen, U[i].type = "Seed", ~s.joined
      PROVE  Alone(s, U, i) /\ \A j \in 1..Len(E) : ~isAnswer(s, E[j])
  BY <1>1, <1>2, <1>4 DEF AsksOK
<1>5. AsksOK(s, U, E, F)
  BY <1>3, <1>4 DEF AsksOK
<1> QED
  BY <1>5 DEF E

-----------------------------------------------------------------------------
(* The room goes on.                                                        *)

(* The fields a frame to a device has, by its type.                         *)
LEMMA AnswerFields ==
    ASSUME NEW f \in Answer
    PROVE  /\ f.gen \in Gen /\ f.type \in {"State", "Fanout", "Echo", "Moved"}
           /\ f.type = "State" => f.head \in Nat /\ f.log \in Nat /\ f.ops \in SUBSET Op
           /\ f.type = "Fanout" => f.seq \in Nat /\ f.ops \in SUBSET Op
           /\ f.type = "Echo" => f.seq \in Nat /\ f.n \in Nat
           /\ f.type \in {"State", "Echo", "Fanout"} => pos(f) \in Nat
BY DEF Answer, StateFrame, pos

(* The fields of a session.                                                 *)
LEMMA SessionFields ==
    ASSUME NEW s \in Session
    PROVE  /\ s.on \in BOOLEAN /\ s.gen \in Gen /\ s.gen \in Nat /\ s.joined \in BOOLEAN
           /\ s.online \in BOOLEAN
           /\ s.doc \in SUBSET Op /\ s.pending \in SUBSET Op /\ s.unacked \in SUBSET Outgoing
           /\ s.seed \in SUBSET (SUBSET Op)
           /\ s.sent \in Nat /\ s.seq \in Nat /\ s.name \in Nat /\ s.known \in Nat
           /\ \A u \in s.unacked : u.n \in Nat /\ u.ops \in SUBSET Op
BY DEF Session, Outgoing, Gen

(* A room that goes on keeps its log, its name and the pointer it leaves.   *)
GoesOn(log, row, longer, later) ==
    /\ Grows(log, longer)
    /\ row.log \in {0, later.log}
    /\ row.moved => later.moved

(* A session stays in place as its room goes on.                            *)
LEMMA LocalGrows ==
    ASSUME NEW s \in Session, NEW log \in Seq(SUBSET Op), NEW longer \in Seq(SUBSET Op),
           NEW row, NEW later, GoesOn(log, row, longer, later), LocalOK(s, log, row)
    PROVE  LocalOK(s, longer, later)
<1>1. s.seq \in 0..Len(log) /\ Len(log) \in Nat /\ Len(longer) \in Nat /\ s.known \in Nat
  BY SessionFields, LenProperties DEF LocalOK, PlaceOK
<1>2. first(longer, s.seq) = first(log, s.seq)
  BY <1>1, FirstGrows DEF GoesOn
<1>3. s.seq <= Len(longer) /\ s.known <= Len(longer)
  BY <1>1 DEF LocalOK, PlaceOK, GoesOn, Grows
<1> QED
  BY <1>2, <1>3 DEF LocalOK, PlaceOK, OwesOK, GoesOn

(* A frame on its way stays in order as its room goes on.                   *)
LEMMA DownGrows ==
    ASSUME NEW s \in Session, NEW f \in Answer,
           NEW log \in Seq(SUBSET Op), NEW longer \in Seq(SUBSET Op),
           NEW row, NEW later, GoesOn(log, row, longer, later), s.seq <= Len(log),
           DownOK(s, f, log, row)
    PROVE  DownOK(s, f, longer, later)
<1>1. s.seq \in 0..Len(log) /\ Len(log) \in Nat /\ Len(longer) \in Nat /\ Len(log) <= Len(longer)
  BY SessionFields, LenProperties DEF GoesOn, Grows
<1>2. first(longer, s.seq) = first(log, s.seq)
  BY <1>1, FirstGrows DEF GoesOn
<1>3. isNews(s, f) => pos(f) \in Nat /\ pos(f) <= Len(log)
  BY AnswerFields DEF isNews, DownOK
<1>4. isNews(s, f) => pos(f) >= s.seq /\ pos(f) <= Len(longer)
  BY <1>1, <1>3 DEF DownOK
<1>5. f.gen = s.gen /\ f.type = "State" => first(longer, f.head) = first(log, f.head)
  BY <1>1, <1>3, FirstGrows DEF GoesOn, isNews, pos
<1>6. f.gen = s.gen /\ f.type \in {"Fanout", "Echo"} /\ f.seq >= 1 => longer[f.seq] = log[f.seq]
  <2>1. f.gen = s.gen /\ f.type \in {"Fanout", "Echo"} => pos(f) = f.seq /\ isNews(s, f)
    BY DEF isNews, pos
  <2>2. f.gen = s.gen /\ f.type \in {"Fanout", "Echo"} /\ f.seq >= 1 => f.seq \in 1..Len(log)
    BY <1>1, <1>3, <2>1
  <2> QED
    BY <2>2 DEF GoesOn, Grows
<1>7. f.gen <= s.gen
  BY DEF DownOK
<1>8. f.gen = s.gen /\ f.type = "Moved" => later.moved
  BY DEF DownOK, GoesOn
<1>9. f.gen = s.gen /\ f.type = "State" =>
          /\ f.ops \subseteq first(longer, f.head)
          /\ first(longer, f.head) \subseteq f.ops \cup first(longer, s.seq)
          /\ f.head >= s.known
          /\ f.log \in {0, later.log}
  BY <1>2, <1>5 DEF DownOK, GoesOn
<1>10. f.gen = s.gen /\ f.type = "Fanout" => f.seq >= 1 /\ f.ops = longer[f.seq]
  BY <1>6 DEF DownOK
<1>11. f.gen = s.gen /\ f.type = "Echo" =>
          /\ f.seq >= 1
          /\ s.joined => /\ longer[f.seq] \subseteq s.doc /\ f.n <= s.sent
                         /\ \A u \in s.unacked : u.n = f.n => u.ops \subseteq longer[f.seq]
          /\ ~s.joined => f.seq = 1 /\ s.seed = {longer[1]}
  BY <1>6 DEF DownOK
<1> QED
  BY <1>4, <1>7, <1>8, <1>9, <1>10, <1>11 DEF DownOK

(* All frames on their way do.                                              *)
LEMMA AnswersGrow ==
    ASSUME NEW s \in Session, NEW D \in Seq(Answer),
           NEW log \in Seq(SUBSET Op), NEW longer \in Seq(SUBSET Op),
           NEW row, NEW later, GoesOn(log, row, longer, later), s.seq <= Len(log),
           AnswersOK(s, D, log, row)
    PROVE  AnswersOK(s, D, longer, later)
<1>1. \A i \in 1..Len(D) : D[i] \in Answer
  BY ElementOfSeq, LenProperties
<1>2. \A i \in 1..Len(D) : DownOK(s, D[i], longer, later)
  BY <1>1, DownGrows DEF AnswersOK
<1> QED
  BY <1>2 DEF AnswersOK

-----------------------------------------------------------------------------
(* A frame more on the way to the session.                                  *)

(* The frame tells of the log's last update; if it is an update, the device *)
(* had, or has, the one before on its way.                                  *)
Tells(s, D, a, before, log) ==
    /\ isNews(s, a) => pos(a) = Len(log)
    /\ isNews(s, a) /\ a.type # "State" => TipOK(s, D, before) /\ Len(log) = Len(before) + 1
    /\ isAnswer(s, a) /\ ~s.joined => \A j \in 1..Len(D) : ~isAnswer(s, D[j])

(* A frame that tells the log's last update comes after the others.         *)
LEMMA AnswersAdd ==
    ASSUME NEW s \in Session, NEW D \in Seq(Answer), NEW a \in Answer,
           NEW log \in Seq(SUBSET Op), NEW before \in Seq(SUBSET Op), NEW row,
           AnswersOK(s, D, log, row), DownOK(s, a, log, row), Tells(s, D, a, before, log)
    PROVE  AnswersOK(s, D \o <<a>>, log, row)
<1> DEFINE E == D \o <<a>>
           n == Len(D) + 1
<1>1. /\ Len(D) \in Nat /\ n \in Nat /\ Len(E) = n /\ E[n] = a
      /\ \A i \in 1..Len(D) : E[i] = D[i] /\ i < n
  BY AppendAt
<1>2. \A i \in 1..n : i \in 1..Len(D) \/ i = n
  BY <1>1
<1>3. Len(log) \in Nat /\ Len(before) \in Nat /\ s.seq \in Nat
  BY LenProperties, SessionFields
<1> HIDE DEF E, n
<1>4. \A i \in 1..n : DownOK(s, E[i], log, row)
  BY <1>1, <1>2 DEF AnswersOK
<1>5. \A i \in 1..Len(D) : isNews(s, D[i]) => pos(D[i]) <= Len(log)
  BY DEF AnswersOK, DownOK
<1>6. ASSUME NEW i \in 1..n, NEW j \in 1..n, i < j, isNews(s, E[i]), isNews(s, E[j])
      PROVE  pos(E[i]) <= pos(E[j])
  <2>1. i \in 1..Len(D)
    BY <1>1, <1>2, <1>6
  <2>2. CASE j = n
    BY <1>1, <1>5, <1>6, <2>1, <2>2 DEF Tells
  <2>3. CASE j \in 1..Len(D)
    BY <1>1, <1>6, <2>1, <2>3 DEF AnswersOK
  <2> QED
    BY <1>2, <2>2, <2>3
<1>7. ASSUME ~s.joined, NEW i \in 1..n, NEW j \in 1..n, isAnswer(s, E[i]), isAnswer(s, E[j])
      PROVE  i = j
  <2>1. CASE i \in 1..Len(D) /\ j \in 1..Len(D)
    BY <1>1, <1>7, <2>1 DEF AnswersOK
  <2>2. CASE i = n /\ j \in 1..Len(D)
    BY <1>1, <1>7, <2>2 DEF Tells
  <2>3. CASE i \in 1..Len(D) /\ j = n
    BY <1>1, <1>7, <2>3 DEF Tells
  <2> QED
    BY <1>2, <2>1, <2>2, <2>3
<1>8. ASSUME NEW i \in 1..n, isNews(s, E[i]), E[i].type # "State" PROVE NextOK(s, E, i)
  <2>1. CASE i \in 1..Len(D)
    <3>1. NextOK(s, D, i) /\ D[i] = E[i]
      BY <1>1, <1>8, <2>1 DEF AnswersOK
    <3>2. \A j \in 1..(i - 1) : E[j] = D[j]
      BY <1>1, <2>1
    <3> QED
      BY <3>1, <3>2 DEF NextOK
  <2>2. CASE i = n
    <3>1. a.seq - 1 = Len(before) /\ TipOK(s, D, before) /\ a.seq \in Nat
      <4>1. pos(a) = a.seq /\ pos(a) = Len(log)
        BY <1>1, <1>8, <2>2 DEF Tells, pos
      <4>2. Len(log) = Len(before) + 1 /\ TipOK(s, D, before)
        BY <1>1, <1>8, <2>2 DEF Tells
      <4> QED
        BY <1>3, <4>1, <4>2
    <3>2. 1..(n - 1) = 1..Len(D)
      BY <1>1 DEF n
    <3>3. CASE \E j \in 1..Len(D) : isNews(s, D[j]) /\ pos(D[j]) = Len(before)
      <4>1. PICK j \in 1..(n - 1) : isNews(s, D[j]) /\ pos(D[j]) = Len(before)
        BY <3>2, <3>3
      <4>2. isNews(s, E[j]) /\ pos(E[j]) >= E[n].seq - 1
        BY <1>1, <1>3, <3>1, <3>2, <4>1
      <4> QED
        BY <2>2, <4>2 DEF NextOK
    <3>4. CASE s.joined /\ s.seq = Len(before)
      BY <1>1, <1>3, <2>2, <3>1, <3>4 DEF NextOK
    <3>5. CASE ~s.joined /\ (before = <<>> \/ \A j \in 1..Len(D) : ~isAnswer(s, D[j]))
      <4>1. CASE before = <<>>
        <5>1. E[n].seq <= 1
          BY <1>1, <3>1, <4>1
        <5> QED
          BY <2>2, <3>5, <5>1 DEF NextOK
      <4>2. CASE \A j \in 1..Len(D) : ~isAnswer(s, D[j])
        <5>1. \A j \in 1..(n - 1) : ~isAnswer(s, E[j])
          BY <1>1, <3>2, <4>2
        <5> QED
          BY <2>2, <3>5, <5>1 DEF NextOK
      <4> QED
        BY <3>5, <4>1, <4>2
    <3> QED
      BY <3>1, <3>3, <3>4, <3>5 DEF TipOK
  <2> QED
    BY <1>2, <2>1, <2>2
<1>9. AnswersOK(s, E, log, row)
  BY <1>1, <1>4, <1>6, <1>7, <1>8 DEF AnswersOK
<1> QED
  BY <1>9 DEF E

(* Then the last update is on its way.                                      *)
LEMMA TipTold ==
    ASSUME NEW s, NEW D \in Seq(Answer), NEW a \in Answer, NEW log,
           isNews(s, a), pos(a) = Len(log)
    PROVE  TipOK(s, D \o <<a>>, log)
<1> DEFINE E == D \o <<a>>
<1>1. Len(D) + 1 \in 1..Len(E) /\ E[Len(D) + 1] = a
  BY AppendAt
<1> HIDE DEF E
<1>2. TipOK(s, E, log)
  BY <1>1 DEF TipOK
<1> QED
  BY <1>2 DEF E

(* A frame without news changes nothing about that.                         *)
LEMMA TipKept ==
    ASSUME NEW s, NEW D \in Seq(Answer), NEW a \in Answer, NEW log,
           ~isNews(s, a), TipOK(s, D, log)
    PROVE  TipOK(s, D \o <<a>>, log)
<1> DEFINE E == D \o <<a>>
<1>1. /\ Len(D) \in Nat /\ Len(E) = Len(D) + 1 /\ E[Len(D) + 1] = a
      /\ \A i \in 1..Len(D) : E[i] = D[i]
  BY AppendAt
<1>2. \A i \in 1..Len(E) : i \in 1..Len(D) \/ i = Len(D) + 1
  BY <1>1
<1>3. 1..Len(D) \subseteq 1..Len(E)
  BY <1>1
<1> HIDE DEF E
<1>4. ~isAnswer(s, a)
  BY DEF isNews, isAnswer
<1>5. TipOK(s, E, log)
  BY <1>1, <1>2, <1>3, <1>4 DEF TipOK
<1> QED
  BY <1>5 DEF E

-----------------------------------------------------------------------------
(* A session that is on, its room, and all that is between them.            *)

Conn(s, U, D, F, log, row) ==
    /\ LocalOK(s, log, row)
    /\ AsksOK(s, U, D, F)
    /\ AnswersOK(s, D, log, row)
    /\ s.gen \in F /\ ~row.moved => TipOK(s, D, log)

(* The room goes on, and the device is not told.                            *)
LEMMA ConnGrows ==
    ASSUME NEW s \in Session, NEW U, NEW D \in Seq(Answer), NEW F,
           NEW log \in Seq(SUBSET Op), NEW longer \in Seq(SUBSET Op), NEW row, NEW later,
           Conn(s, U, D, F, log, row), GoesOn(log, row, longer, later),
           longer = log \/ s.gen \notin F \/ later.moved
    PROVE  Conn(s, U, D, F, longer, later)
<1>1. LocalOK(s, longer, later)
  BY LocalGrows DEF Conn
<1>2. AnswersOK(s, D, longer, later)
  BY AnswersGrow DEF Conn, LocalOK, PlaceOK
<1>3. s.gen \in F /\ ~later.moved => TipOK(s, D, longer)
  BY DEF Conn, GoesOn
<1> QED
  BY <1>1, <1>2, <1>3 DEF Conn

(* The hub takes a frame and answers nothing.                               *)
LEMMA ConnTaken ==
    ASSUME NEW s, NEW U \in Seq(Frame), NEW D, NEW F, NEW F2, NEW log, NEW row, U # <<>>,
           Conn(s, U, D, F, log, row), s.gen \in F2 => s.gen \in F
    PROVE  Conn(s, Tail(U), D, F2, log, row)
BY AsksTail DEF Conn

(* The device is told what another one did, or of another room.             *)
LEMMA ConnTold ==
    ASSUME NEW s \in Session, NEW U, NEW D \in Seq(Answer), NEW F,
           NEW log \in Seq(SUBSET Op), NEW longer \in Seq(SUBSET Op), NEW row, NEW later,
           Conn(s, U, D, F, log, row), GoesOn(log, row, longer, later),
           NEW a \in Answer, DownOK(s, a, longer, later), ~isAnswer(s, a),
           a.gen = s.gen => s.gen \in F,
           isNews(s, a) =>
              ~row.moved /\ pos(a) = Len(longer) /\ Len(longer) = Len(log) + 1,
           ~isNews(s, a) => longer = log \/ later.moved
    PROVE  Conn(s, U, D \o <<a>>, F, longer, later)
<1>1. LocalOK(s, longer, later)
  BY LocalGrows DEF Conn
<1>2. AnswersOK(s, D, longer, later)
  BY AnswersGrow DEF Conn, LocalOK, PlaceOK
<1>3. AsksOK(s, U, D \o <<a>>, F)
  BY AsksTold DEF Conn
<1>4. Tells(s, D, a, log, longer)
  <2>1. isNews(s, a) => TipOK(s, D, log)
    BY DEF Conn, isNews
  <2> QED
    BY <2>1 DEF Tells
<1>5. AnswersOK(s, D \o <<a>>, longer, later)
  BY <1>2, <1>4, AnswersAdd
<1>6. ASSUME s.gen \in F, ~later.moved PROVE TipOK(s, D \o <<a>>, longer)
  <2>1. CASE isNews(s, a)
    BY <2>1, TipTold
  <2>2. CASE ~isNews(s, a)
    <3>1. TipOK(s, D, longer)
      BY <1>6, <2>2 DEF Conn, GoesOn
    <3> QED
      BY <2>2, <3>1, TipKept
  <2> QED
    BY <2>1, <2>2
<1> QED
  BY <1>1, <1>3, <1>5, <1>6 DEF Conn

(* The hub takes a frame of the device's room and answers it.               *)
LEMMA ConnAnswered ==
    ASSUME NEW s \in Session, NEW U \in Seq(Frame), NEW D \in Seq(Answer), NEW F, NEW F2,
           NEW log \in Seq(SUBSET Op), NEW longer \in Seq(SUBSET Op), NEW row, NEW later,
           Conn(s, U, D, F, log, row), GoesOn(log, row, longer, later),
           U # <<>>, Head(U).gen = s.gen, NEW a \in Answer, DownOK(s, a, longer, later),
           a.gen = s.gen,
           \/ a.type = "State" /\ pos(a) = Len(longer)
           \/ /\ a.type = "Echo" /\ pos(a) = Len(longer)
              /\ s.gen \in F /\ ~row.moved /\ Len(longer) = Len(log) + 1
           \/ a.type = "Moved"
    PROVE  Conn(s, Tail(U), D \o <<a>>, F2, longer, later)
<1>1. LocalOK(s, longer, later)
  BY LocalGrows DEF Conn
<1>2. AnswersOK(s, D, longer, later)
  BY AnswersGrow DEF Conn, LocalOK, PlaceOK
<1>3. AsksOK(s, Tail(U), D \o <<a>>, F2)
  BY AsksTaken DEF Conn
<1>4. ASSUME ~s.joined, isAnswer(s, a) PROVE \A j \in 1..Len(D) : ~isAnswer(s, D[j])
  <2>1. 1 \in 1..Len(U) /\ U[1] = Head(U)
    BY TailAt
  <2>2. UpOK(s, U[1])
    BY <2>1 DEF Conn, AsksOK
  <2>3. U[1].type \in {"Sub", "Seed"}
    BY <1>4, <2>1, <2>2 DEF UpOK
  <2> QED
    BY <1>4, <2>1, <2>3 DEF Conn, AsksOK, isAnswer
<1>5. Tells(s, D, a, log, longer)
  <2>1. isNews(s, a) => pos(a) = Len(longer)
    BY DEF isNews
  <2>2. isNews(s, a) /\ a.type # "State" => TipOK(s, D, log) /\ Len(longer) = Len(log) + 1
    BY DEF Conn, isNews
  <2> QED
    BY <1>4, <2>1, <2>2 DEF Tells
<1>6. AnswersOK(s, D \o <<a>>, longer, later)
  BY <1>2, <1>5, AnswersAdd
<1>7. ASSUME ~later.moved PROVE TipOK(s, D \o <<a>>, longer)
  <2>1. isNews(s, a) /\ pos(a) = Len(longer)
    BY <1>7 DEF DownOK, isNews
  <2> QED
    BY <2>1, TipTold
<1> QED
  BY <1>1, <1>3, <1>6, <1>7 DEF Conn

(* What the room answers is in order.                                       *)
LEMMA StateDown ==
    ASSUME NEW s \in Session, NEW row \in Row, NEW log \in Seq(SUBSET Op), RowIsLog(row, log),
           NEW since \in Nat, since <= s.seq, s.seq <= Len(log), s.known <= Len(log),
           NEW a \in Answer, a.type = "State", a.gen = s.gen,
           a.head = state(row, since).head, a.log = state(row, since).log,
           a.ops = state(row, since).ops
    PROVE  DownOK(s, a, log, row) /\ pos(a) = Len(log)
<1> DEFINE seq == s.seq
<1>1. seq \in Nat /\ since <= seq /\ s.gen \in Nat
  BY SessionFields
<1> HIDE DEF seq
<1>2. /\ a.head = Len(log) /\ a.log = row.log
      /\ a.ops \subseteq first(log, Len(log))
      /\ first(log, Len(log)) \subseteq a.ops \cup first(log, seq)
  BY <1>1, StateIsLog
<1>3. Len(log) \in Nat /\ pos(a) = Len(log)
  BY <1>2, LenProperties DEF pos
<1>4. a.gen <= s.gen /\ s.seq <= pos(a) /\ pos(a) <= Len(log) /\ s.known <= a.head
  BY <1>1, <1>2, <1>3
<1>5. /\ a.ops \subseteq first(log, a.head)
      /\ first(log, a.head) \subseteq a.ops \cup first(log, s.seq)
      /\ a.log \in {0, row.log}
  BY <1>2 DEF seq
<1> QED
  BY <1>3, <1>4, <1>5 DEF DownOK

-----------------------------------------------------------------------------
(* A step of the session.                                                   *)

(* It keeps to its room and forgets nothing it showed or owes.              *)
After(s, t) ==
    /\ t.gen = s.gen /\ t.known = s.known /\ s.doc \subseteq t.doc /\ s.sent <= t.sent
    /\ \A u \in t.unacked : u \in s.unacked \/ u.n > s.sent

(* Nothing of its room is handled.                                          *)
Same(s, t) == After(s, t) /\ t.joined = s.joined /\ t.seq = s.seq /\ t.seed = s.seed

(* What it sends, in the order it is sent.                                  *)
OutOK(s, out) ==
    /\ out # <<>> => s.online /\ s.joined
    /\ \A i \in 1..Len(out) :
          /\ out[i].gen = s.gen /\ UpOK(s, out[i])
          /\ out[i].type \in {"Update", "Snapshot", "Rotate"}

(* Two steps of a session in a row are one.                                 *)
LEMMA AfterAfter ==
    ASSUME NEW s \in Session, NEW t \in Session, NEW v \in Session, After(s, t), After(t, v)
    PROVE  After(s, v)
<1>1. s.sent \in Nat /\ t.sent \in Nat /\ v.sent \in Nat /\ \A u \in v.unacked : u.n \in Nat
  BY SessionFields
<1>2. s.sent <= v.sent
  BY <1>1 DEF After
<1>3. ASSUME NEW u \in v.unacked PROVE u \in s.unacked \/ u.n > s.sent
  <2>1. CASE u \in t.unacked
    BY <2>1 DEF After
  <2>2. CASE u.n > t.sent
    BY <1>1, <2>2 DEF After
  <2> QED
    BY <2>1, <2>2 DEF After
<1> QED
  BY <1>2, <1>3 DEF After

(* What a session sent still suits it after a step of its own.              *)
LEMMA UpLater ==
    ASSUME NEW s \in Session, NEW t \in Session, NEW f \in Frame, UpOK(s, f), After(s, t),
           t.joined = s.joined, s.seq <= t.seq, ~s.joined => t.seed = s.seed,
           t.online => s.online \/ ~(f.gen = s.gen /\ f.type = "Sub")
    PROVE  UpOK(t, f)
<1>1. /\ s.seq \in Nat /\ t.seq \in Nat /\ s.sent \in Nat /\ t.sent \in Nat
      /\ s.online \in BOOLEAN /\ t.online \in BOOLEAN
  BY SessionFields
<1>2. /\ f.type = "Sub" => f.since \in Nat
      /\ f.type = "Rotate" => f.upto \in Nat
      /\ f.type = "Update" => f.n \in Nat
  BY DEF Frame
<1>3. f.gen <= t.gen
  BY DEF UpOK, After
<1>4. ASSUME f.gen = t.gen
      PROVE  /\ f.type # "Unsub"
             /\ ~t.joined => f.type \in {"Sub", "Seed"}
             /\ f.type = "Sub" => f.since <= t.seq /\ ~t.online
             /\ f.type = "Seed" => ~t.joined /\ t.seed = {f.ops}
             /\ f.type = "Rotate" => f.upto <= t.seq
             /\ f.type = "Update" =>
                   /\ f.ops \subseteq t.doc /\ f.n <= t.sent
                   /\ \A u \in t.unacked : u.n = f.n => u.ops \subseteq f.ops
  <2>1. f.gen = s.gen
    BY <1>4 DEF After
  <2>2. f.type # "Unsub" /\ (~t.joined => f.type \in {"Sub", "Seed"})
    BY <2>1 DEF UpOK
  <2>3. f.type = "Sub" => f.since <= t.seq /\ ~t.online
    BY <1>1, <1>2, <2>1 DEF UpOK
  <2>4. f.type = "Seed" => ~t.joined /\ t.seed = {f.ops}
    BY <2>1 DEF UpOK
  <2>5. f.type = "Rotate" => f.upto <= t.seq
    BY <1>1, <1>2, <2>1 DEF UpOK
  <2>6. ASSUME f.type = "Update" PROVE f.ops \subseteq t.doc /\ f.n <= t.sent
    BY <1>1, <1>2, <2>1, <2>6 DEF UpOK, After
  <2>7. ASSUME f.type = "Update", NEW u \in t.unacked, u.n = f.n PROVE u.ops \subseteq f.ops
    <3>1. f.n <= s.sent /\ \A v \in s.unacked : v.n = f.n => v.ops \subseteq f.ops
      BY <2>1, <2>7 DEF UpOK
    <3>2. ~(u.n > s.sent)
      BY <1>1, <1>2, <2>7, <3>1
    <3> QED
      BY <2>7, <3>1, <3>2 DEF After
  <2> QED
    BY <2>2, <2>3, <2>4, <2>5, <2>6, <2>7
<1> QED
  BY <1>3, <1>4 DEF UpOK

(* And so does everything it asked.                                         *)
LEMMA AsksLater ==
    ASSUME NEW s \in Session, NEW t \in Session, NEW U \in Seq(Frame), NEW D, NEW E, NEW F,
           AsksOK(s, U, D, F), After(s, t), t.joined = s.joined, s.seq <= t.seq,
           ~s.joined => t.seed = s.seed,
           t.online => s.online \/ \E j \in 1..Len(D) : D[j].gen = s.gen,
           \A j \in 1..Len(E) : \E k \in 1..Len(D) : E[j] = D[k]
    PROVE  AsksOK(t, U, E, F)
<1>1. \A i \in 1..Len(U) : U[i] \in Frame
  BY ElementOfSeq, LenProperties
<1>2. ASSUME NEW i \in 1..Len(U), U[i].gen = s.gen, U[i].type = "Sub"
      PROVE  /\ Alone(s, U, i) /\ s.gen \notin F
             /\ \A j \in 1..Len(D) : D[j].gen # s.gen
  BY <1>2 DEF AsksOK
<1>3. ASSUME NEW i \in 1..Len(U) PROVE UpOK(t, U[i])
  <2>1. t.online => s.online \/ ~(U[i].gen = s.gen /\ U[i].type = "Sub")
    BY <1>2
  <2> QED
    BY <1>1, <2>1, UpLater DEF AsksOK
<1>4. t.gen = s.gen
  BY DEF After
<1>5. ASSUME NEW i \in 1..Len(U), Alone(s, U, i) PROVE Alone(t, U, i)
  BY <1>4, <1>5 DEF Alone
<1>6. ASSUME NEW i \in 1..Len(U), U[i].gen = t.gen, U[i].type = "Sub"
      PROVE  /\ Alone(t, U, i) /\ t.gen \notin F
             /\ \A j \in 1..Len(E) : E[j].gen # t.gen
  BY <1>2, <1>4, <1>5, <1>6
<1>7. ASSUME ~t.joined, NEW i \in 1..Len(U), U[i].gen = t.gen, U[i].type = "Seed"
      PROVE  Alone(t, U, i) /\ \A j \in 1..Len(E) : ~isAnswer(t, E[j])
  <2>1. Alone(s, U, i) /\ \A j \in 1..Len(D) : ~isAnswer(s, D[j])
    BY <1>4, <1>7 DEF AsksOK
  <2> QED
    BY <1>4, <1>5, <2>1 DEF isAnswer
<1> QED
  BY <1>3, <1>6, <1>7 DEF AsksOK

(* Nothing of the room is asked any more.                                   *)
LEMMA AsksNothing ==
    ASSUME NEW s, NEW t, NEW U, NEW D, NEW E, NEW F, AsksOK(s, U, D, F), t.gen = s.gen,
           \A i \in 1..Len(U) : U[i].gen # s.gen
    PROVE  AsksOK(t, U, E, F)
BY DEF AsksOK, UpOK

(* What a joined session sends adds to what it asked.                       *)
LEMMA AsksOut ==
    ASSUME NEW s, NEW U \in Seq(Frame), NEW D, NEW F, NEW out \in Seq(Frame),
           AsksOK(s, U, D, F), OutOK(s, out)
    PROVE  AsksOK(s, U \o out, D, F)
<1>1. CASE out = <<>>
  <2>1. U \o out = U
    BY <1>1, ConcatEmptySeq
  <2> QED
    BY <2>1
<1>2. CASE out # <<>>
  <2> DEFINE V == U \o out
  <2>1. /\ Len(U) \in Nat /\ Len(out) \in Nat
        /\ Len(V) = Len(U) + Len(out)
        /\ \A i \in 1..Len(V) : V[i] = IF i <= Len(U) THEN U[i] ELSE out[i - Len(U)]
    BY ConcatProperties, LenProperties
  <2> HIDE DEF V
  <2>2. s.online /\ s.joined
    BY <1>2 DEF OutOK
  <2>3. ASSUME NEW i \in 1..Len(V)
        PROVE  UpOK(s, V[i]) /\ ~(V[i].gen = s.gen /\ V[i].type \in {"Sub", "Seed"})
    <3>1. CASE i <= Len(U)
      <4>1. i \in 1..Len(U) /\ V[i] = U[i]
        BY <2>1, <3>1
      <4>2. UpOK(s, U[i])
        BY <4>1 DEF AsksOK
      <4> QED
        BY <2>2, <4>1, <4>2 DEF UpOK
    <3>2. CASE ~(i <= Len(U))
      <4>1. i - Len(U) \in 1..Len(out) /\ V[i] = out[i - Len(U)]
        BY <2>1, <3>2
      <4> QED
        BY <4>1 DEF OutOK
    <3> QED
      BY <3>1, <3>2
  <2>4. AsksOK(s, V, D, F)
    BY <2>2, <2>3 DEF AsksOK
  <2> QED
    BY <2>4 DEF V
<1> QED
  BY <1>1, <1>2

-----------------------------------------------------------------------------
(* A step of the session, and what is on its way to it.                     *)

(* A step that handles no frame leaves those on their way in order.         *)
LEMMA DownSame ==
    ASSUME NEW s \in Session, NEW t \in Session, NEW f \in Answer, NEW log, NEW row,
           DownOK(s, f, log, row), Same(s, t)
    PROVE  DownOK(t, f, log, row)
<1>1. /\ t.gen = s.gen /\ t.seq = s.seq /\ t.known = s.known /\ t.joined = s.joined
      /\ t.seed = s.seed /\ s.doc \subseteq t.doc /\ s.sent <= t.sent
      /\ \A u \in t.unacked : u \in s.unacked \/ u.n > s.sent
  BY DEF Same, After
<1>2. isNews(t, f) <=> isNews(s, f)
  BY <1>1 DEF isNews
<1>3. f.gen = s.gen /\ f.type = "Echo" /\ s.joined =>
          /\ log[f.seq] \subseteq t.doc /\ f.n <= t.sent
          /\ \A u \in t.unacked : u.n = f.n => u.ops \subseteq log[f.seq]
  <2> SUFFICES ASSUME f.gen = s.gen, f.type = "Echo", s.joined
               PROVE  /\ log[f.seq] \subseteq t.doc /\ f.n <= t.sent
                      /\ \A u \in t.unacked : u.n = f.n => u.ops \subseteq log[f.seq]
    OBVIOUS
  <2>1. /\ s.sent \in Nat /\ t.sent \in Nat /\ f.n \in Nat /\ \A u \in t.unacked : u.n \in Nat
    BY SessionFields, AnswerFields
  <2>2. /\ log[f.seq] \subseteq s.doc /\ f.n <= s.sent
        /\ \A u \in s.unacked : u.n = f.n => u.ops \subseteq log[f.seq]
    BY DEF DownOK
  <2> QED
    BY <1>1, <2>1, <2>2
<1> QED
  BY <1>1, <1>2, <1>3 DEF DownOK

(* All of them, and the last update stays on its way.                       *)
LEMMA AnswersSame ==
    ASSUME NEW s \in Session, NEW t \in Session, NEW D \in Seq(Answer), NEW log, NEW row,
           AnswersOK(s, D, log, row), Same(s, t)
    PROVE  AnswersOK(t, D, log, row) /\ (TipOK(s, D, log) => TipOK(t, D, log))
<1>1. \A i \in 1..Len(D) : D[i] \in Answer
  BY ElementOfSeq, LenProperties
<1>2. t.gen = s.gen /\ t.joined = s.joined /\ t.seq = s.seq
  BY DEF Same, After
<1>3. \A f : (isNews(t, f) <=> isNews(s, f)) /\ (isAnswer(t, f) <=> isAnswer(s, f))
  BY <1>2 DEF isNews, isAnswer
<1>4. \A i \in 1..Len(D) : DownOK(t, D[i], log, row)
  BY <1>1, DownSame DEF AnswersOK
<1>5. \A i \in 1..Len(D) : NextOK(s, D, i) => NextOK(t, D, i)
  BY <1>2, <1>3 DEF NextOK
<1>6. AnswersOK(t, D, log, row)
  BY <1>2, <1>3, <1>4, <1>5 DEF AnswersOK
<1>7. TipOK(s, D, log) => TipOK(t, D, log)
  BY <1>2, <1>3 DEF TipOK
<1> QED
  BY <1>6, <1>7

(* A frame that tells the session nothing is dropped.                       *)
LEMMA AnswersSkip ==
    ASSUME NEW s \in Session, NEW D \in Seq(Answer), NEW log \in Seq(SUBSET Op), NEW row,
           D # <<>>, AnswersOK(s, D, log, row),
           ~isNews(s, Head(D)) \/ (~s.joined /\ ~isAnswer(s, Head(D)))
    PROVE  /\ AnswersOK(s, Tail(D), log, row)
           /\ TipOK(s, D, log) => TipOK(s, Tail(D), log)
<1> DEFINE E == Tail(D)
<1>1. /\ Len(D) \in Nat /\ Len(E) = Len(D) - 1 /\ Head(D) = D[1] /\ 1 \in 1..Len(D)
      /\ \A i \in 1..Len(E) : E[i] = D[i + 1] /\ i + 1 \in 1..Len(D)
      /\ \A i \in 1..Len(D) : i = 1 \/ (i - 1 \in 1..Len(E) /\ E[i - 1] = D[i])
  BY TailAt
<1>2. \A i \in 1..Len(D) : isNews(s, D[i]) => pos(D[i]) \in Nat /\ pos(D[i]) <= Len(log)
  <2>1. \A i \in 1..Len(D) : D[i] \in Answer
    BY ElementOfSeq, LenProperties
  <2> QED
    BY <2>1, AnswerFields DEF AnswersOK, DownOK, isNews
<1>3. Len(log) \in Nat
  BY LenProperties
<1> HIDE DEF E
<1>4. \A i \in 1..Len(E) : DownOK(s, E[i], log, row)
  BY <1>1 DEF AnswersOK
<1>5. ASSUME NEW i \in 1..Len(E), NEW j \in 1..Len(E), i < j, isNews(s, E[i]), isNews(s, E[j])
      PROVE  pos(E[i]) <= pos(E[j])
  <2>1. i + 1 < j + 1
    BY <1>1, <1>5
  <2> QED
    BY <1>1, <1>5, <2>1 DEF AnswersOK
<1>6. ASSUME ~s.joined, NEW i \in 1..Len(E), NEW j \in 1..Len(E),
             isAnswer(s, E[i]), isAnswer(s, E[j])
      PROVE  i = j
  <2>1. i + 1 = j + 1
    BY <1>1, <1>6 DEF AnswersOK
  <2> QED
    BY <1>1, <1>6, <2>1
<1>7. ASSUME NEW i \in 1..Len(E), isNews(s, E[i]), E[i].type # "State" PROVE NextOK(s, E, i)
  <2>1. /\ i + 1 \in 1..Len(D) /\ D[i + 1] = E[i] /\ isNews(s, D[i + 1])
        /\ NextOK(s, D, i + 1) /\ i \in Nat
    BY <1>1, <1>7 DEF AnswersOK
  <2>2. pos(D[i + 1]) = E[i].seq /\ E[i].seq \in Nat
    BY <1>2, <1>7, <2>1 DEF isNews, pos
  <2>3. \A k \in 1..i : k = 1 \/ (k - 1 \in 1..(i - 1) /\ E[k - 1] = D[k])
    BY <1>1, <2>1
  <2>4. \A j \in 1..(i - 1) : E[j] = D[j + 1] /\ j + 1 \in 1..i
    BY <1>1, <2>1
  <2>5. CASE s.joined /\ s.seq >= D[i + 1].seq - 1
    BY <2>1, <2>5 DEF NextOK
  <2>6. CASE ~s.joined /\ (D[i + 1].seq <= 1 \/ \A k \in 1..i : ~isAnswer(s, D[k]))
    BY <2>1, <2>4, <2>6 DEF NextOK
  <2>7. ASSUME NEW k \in 1..i, isNews(s, D[k]), pos(D[k]) >= D[i + 1].seq - 1
        PROVE  NextOK(s, E, i)
    <3>1. CASE k # 1
      <4>1. k - 1 \in 1..(i - 1) /\ isNews(s, E[k - 1]) /\ pos(E[k - 1]) >= E[i].seq - 1
        BY <2>1, <2>3, <2>7, <3>1
      <4> QED
        BY <4>1 DEF NextOK
    <3>2. CASE k = 1 /\ ~s.joined
      <4>1. CASE \A j \in 1..(i - 1) : ~isAnswer(s, E[j])
        BY <3>2, <4>1 DEF NextOK
      <4>2. ASSUME NEW j \in 1..(i - 1), isAnswer(s, E[j]) PROVE NextOK(s, E, i)
        <5>1. E[j] = D[j + 1] /\ j + 1 \in 1..Len(D) /\ 1 < j + 1 /\ j \in 1..Len(E)
          BY <1>1, <2>1, <4>2
        <5>2. isNews(s, E[j])
          BY <4>2 DEF isNews, isAnswer
        <5>3. pos(D[1]) <= pos(D[j + 1])
          BY <1>1, <2>7, <3>2, <5>1, <5>2 DEF AnswersOK
        <5>4. pos(D[1]) \in Nat /\ pos(D[j + 1]) \in Nat /\ pos(D[1]) >= E[i].seq - 1
          BY <1>1, <1>2, <2>1, <2>7, <3>2, <5>1, <5>2
        <5>5. pos(E[j]) >= E[i].seq - 1
          BY <2>2, <5>1, <5>3, <5>4
        <5> QED
          BY <5>2, <5>5 DEF NextOK
      <4> QED
        BY <4>1, <4>2
    <3>3. CASE k = 1 /\ s.joined
      BY <1>1, <2>7, <3>3
    <3> QED
      BY <3>1, <3>2, <3>3
  <2>8. (i + 1) - 1 = i
    BY <2>1
  <2> QED
    BY <2>1, <2>5, <2>6, <2>7, <2>8 DEF NextOK
<1>8. AnswersOK(s, E, log, row)
  BY <1>4, <1>5, <1>6, <1>7 DEF AnswersOK
<1>9. ASSUME TipOK(s, D, log) PROVE TipOK(s, E, log)
  <2>1. CASE s.joined /\ s.seq = Len(log)
    BY <2>1 DEF TipOK
  <2>2. CASE ~s.joined /\ (log = <<>> \/ \A j \in 1..Len(D) : ~isAnswer(s, D[j]))
    BY <1>1, <2>2 DEF TipOK
  <2>3. ASSUME NEW k \in 1..Len(D), isNews(s, D[k]), pos(D[k]) = Len(log)
        PROVE  TipOK(s, E, log)
    <3>1. CASE k # 1
      <4>1. k - 1 \in 1..Len(E) /\ E[k - 1] = D[k]
        BY <1>1, <3>1
      <4> QED
        BY <2>3, <4>1 DEF TipOK
    <3>2. CASE k = 1 /\ ~s.joined
      <4>1. CASE \A j \in 1..Len(E) : ~isAnswer(s, E[j])
        BY <3>2, <4>1 DEF TipOK
      <4>2. ASSUME NEW j \in 1..Len(E), isAnswer(s, E[j]) PROVE TipOK(s, E, log)
        <5>1. E[j] = D[j + 1] /\ j + 1 \in 1..Len(D) /\ 1 < j + 1
          BY <1>1
        <5>2. isNews(s, E[j])
          BY <4>2 DEF isNews, isAnswer
        <5>3. pos(D[1]) <= pos(D[j + 1])
          BY <1>1, <2>3, <3>2, <5>1, <5>2 DEF AnswersOK
        <5>4. pos(D[j + 1]) \in Nat /\ pos(D[j + 1]) <= Len(log)
          BY <1>2, <5>1, <5>2
        <5>5. pos(E[j]) = Len(log)
          BY <1>3, <2>3, <3>2, <5>1, <5>3, <5>4
        <5> QED
          BY <5>2, <5>5 DEF TipOK
      <4> QED
        BY <4>1, <4>2
    <3>3. CASE k = 1 /\ s.joined
      BY <1>1, <2>3, <3>3
    <3> QED
      BY <3>1, <3>2, <3>3
  <2> QED
    BY <1>9, <2>1, <2>2, <2>3 DEF TipOK
<1> QED
  BY <1>8, <1>9 DEF E

(* The session takes in what a frame tells of its room.                     *)
LEMMA DownHeard ==
    ASSUME NEW s \in Session, NEW t \in Session, NEW f \in Answer,
           NEW log \in Seq(SUBSET Op), NEW row,
           DownOK(s, f, log, row), After(s, t), t.joined, s.seq <= t.seq,
           isNews(s, f) => t.seq <= pos(f),
           f.gen = s.gen /\ f.type = "Echo" => s.joined
    PROVE  DownOK(t, f, log, row)
<1>1. /\ t.gen = s.gen /\ t.known = s.known
      /\ s.doc \subseteq t.doc /\ s.sent <= t.sent
      /\ \A u \in t.unacked : u \in s.unacked \/ u.n > s.sent
  BY DEF After
<1>2. isNews(t, f) <=> isNews(s, f)
  BY <1>1 DEF isNews
<1>3. s.seq \in Nat /\ t.seq \in Nat /\ s.sent \in Nat /\ t.sent \in Nat
  BY SessionFields
<1>4. first(log, s.seq) \subseteq first(log, t.seq)
  BY <1>3, FirstIncludes
<1>5. f.gen = s.gen /\ f.type = "Echo" =>
          /\ log[f.seq] \subseteq t.doc /\ f.n <= t.sent
          /\ \A u \in t.unacked : u.n = f.n => u.ops \subseteq log[f.seq]
  <2> SUFFICES ASSUME f.gen = s.gen, f.type = "Echo"
               PROVE  /\ log[f.seq] \subseteq t.doc /\ f.n <= t.sent
                      /\ \A u \in t.unacked : u.n = f.n => u.ops \subseteq log[f.seq]
    OBVIOUS
  <2>1. f.n \in Nat /\ \A u \in t.unacked : u.n \in Nat
    BY SessionFields, AnswerFields
  <2>2. /\ log[f.seq] \subseteq s.doc /\ f.n <= s.sent
        /\ \A u \in s.unacked : u.n = f.n => u.ops \subseteq log[f.seq]
    BY DEF DownOK
  <2> QED
    BY <1>1, <1>3, <2>1, <2>2
<1>6. isNews(t, f) => pos(f) >= t.seq /\ pos(f) <= Len(log)
  <2>1. isNews(s, f) => pos(f) \in Nat /\ pos(f) <= Len(log)
    BY AnswerFields DEF DownOK, isNews
  <2> QED
    BY <1>2, <1>3, <2>1
<1>7. f.gen = t.gen /\ f.type = "State" =>
          /\ f.ops \subseteq first(log, f.head)
          /\ first(log, f.head) \subseteq f.ops \cup first(log, t.seq)
          /\ f.head >= t.known
          /\ f.log \in {0, row.log}
  BY <1>1, <1>4 DEF DownOK
<1>8. f.gen = t.gen /\ f.type = "Echo" => f.seq >= 1
  BY <1>1 DEF DownOK
<1> QED
  BY <1>1, <1>5, <1>6, <1>7, <1>8 DEF DownOK

(* The news handled, the session is exactly where the frame said.           *)
LEMMA AnswersHeard ==
    ASSUME NEW s \in Session, NEW t \in Session, NEW D \in Seq(Answer),
           NEW log \in Seq(SUBSET Op), NEW row,
           D # <<>>, AnswersOK(s, D, log, row), isNews(s, Head(D)),
           s.joined \/ isAnswer(s, Head(D)),
           After(s, t), t.joined, t.seq = pos(Head(D))
    PROVE  /\ AnswersOK(t, Tail(D), log, row) /\ s.seq <= t.seq /\ t.seq <= Len(log)
           /\ TipOK(s, D, log) => TipOK(t, Tail(D), log)
<1> DEFINE E == Tail(D)
<1>1. /\ Len(D) \in Nat /\ Len(E) = Len(D) - 1 /\ Head(D) = D[1] /\ 1 \in 1..Len(D)
      /\ \A i \in 1..Len(E) : E[i] = D[i + 1] /\ i + 1 \in 1..Len(D)
      /\ \A i \in 1..Len(D) : i = 1 \/ (i - 1 \in 1..Len(E) /\ E[i - 1] = D[i])
  BY TailAt
<1>2. \A i \in 1..Len(D) : D[i] \in Answer
  BY ElementOfSeq, LenProperties
<1>3. \A i \in 1..Len(D) : isNews(s, D[i]) =>
          pos(D[i]) \in Nat /\ pos(D[i]) <= Len(log) /\ s.seq <= pos(D[i])
  <2>1. s.seq \in Nat
    BY SessionFields
  <2> QED
    BY <1>2, <2>1, AnswerFields DEF AnswersOK, DownOK, isNews
<1>4. Len(log) \in Nat /\ s.seq \in Nat /\ t.seq \in Nat
  BY LenProperties, SessionFields
<1>5. s.seq <= t.seq /\ t.seq <= Len(log)
  BY <1>1, <1>3
<1>6. t.gen = s.gen /\ \A f : (isNews(t, f) <=> isNews(s, f)) /\ (isAnswer(t, f) <=> isAnswer(s, f))
  BY DEF isNews, isAnswer, After
<1> HIDE DEF E
<1>7. \A i \in 1..Len(D) : isNews(s, D[i]) => t.seq <= pos(D[i])
  <2> SUFFICES ASSUME NEW i \in 1..Len(D), isNews(s, D[i]) PROVE t.seq <= pos(D[i])
    OBVIOUS
  <2>1. CASE i = 1
    BY <1>1, <1>4, <2>1
  <2>2. CASE 1 < i
    BY <1>1, <2>2 DEF AnswersOK
  <2> QED
    BY <2>1, <2>2
<1>8. ASSUME NEW i \in 1..Len(E) PROVE DownOK(t, E[i], log, row)
  <2>1. E[i] = D[i + 1] /\ i + 1 \in 1..Len(D) /\ i + 1 # 1
    BY <1>1
  <2>2. E[i].gen = s.gen /\ E[i].type = "Echo" => s.joined
    BY <1>1, <2>1, ZenonT(60) DEF AnswersOK, isAnswer
  <2>3. DownOK(s, E[i], log, row) /\ E[i] \in Answer
    BY <1>2, <2>1 DEF AnswersOK
  <2>4. isNews(s, E[i]) => t.seq <= pos(E[i])
    BY <1>7, <2>1
  <2> QED
    BY <1>5, <2>2, <2>3, <2>4, DownHeard
<1>9. ASSUME NEW i \in 1..Len(E), NEW j \in 1..Len(E), i < j, isNews(t, E[i]), isNews(t, E[j])
      PROVE  pos(E[i]) <= pos(E[j])
  <2>1. i + 1 < j + 1
    BY <1>1, <1>9
  <2> QED
    BY <1>1, <1>6, <1>9, <2>1 DEF AnswersOK
<1>10. ASSUME NEW i \in 1..Len(E), isNews(t, E[i]), E[i].type # "State" PROVE NextOK(t, E, i)
  <2>1. /\ i + 1 \in 1..Len(D) /\ D[i + 1] = E[i] /\ isNews(s, D[i + 1])
        /\ NextOK(s, D, i + 1) /\ i \in Nat
    BY <1>1, <1>6, <1>10 DEF AnswersOK
  <2>2. E[i].seq \in Nat
    BY <1>3, <1>10, <2>1 DEF isNews, pos
  <2>3. \A k \in 1..i : k = 1 \/ (k - 1 \in 1..(i - 1) /\ E[k - 1] = D[k])
    BY <1>1, <2>1
  <2>4. (i + 1) - 1 = i /\ 1 \in 1..i
    BY <1>1
  <2>5. CASE s.joined /\ s.seq >= D[i + 1].seq - 1
    <3>1. t.seq >= E[i].seq - 1
      BY <1>4, <1>5, <2>1, <2>2, <2>5
    <3> QED
      BY <3>1 DEF NextOK
  <2>6. CASE ~s.joined /\ (D[i + 1].seq <= 1 \/ \A k \in 1..i : ~isAnswer(s, D[k]))
    <3>1. isAnswer(s, D[1])
      BY <1>1, <2>6
    <3>2. E[i].seq <= 1
      BY <2>1, <2>4, <2>6, <3>1
    <3>3. t.seq >= E[i].seq - 1
      BY <1>4, <2>2, <3>2
    <3> QED
      BY <3>3 DEF NextOK
  <2>7. ASSUME NEW k \in 1..i, isNews(s, D[k]), pos(D[k]) >= D[i + 1].seq - 1
        PROVE  NextOK(t, E, i)
    <3>1. CASE k # 1
      <4>1. k - 1 \in 1..(i - 1) /\ isNews(t, E[k - 1]) /\ pos(E[k - 1]) >= E[i].seq - 1
        BY <1>6, <2>1, <2>3, <2>7, <3>1
      <4> QED
        BY <4>1 DEF NextOK
    <3>2. CASE k = 1
      <4>1. t.seq >= E[i].seq - 1
        BY <1>1, <2>1, <2>7, <3>2
      <4> QED
        BY <4>1 DEF NextOK
    <3> QED
      BY <3>1, <3>2
  <2> QED
    BY <2>1, <2>4, <2>5, <2>6, <2>7 DEF NextOK
<1>11. AnswersOK(t, E, log, row)
  BY <1>8, <1>9, <1>10 DEF AnswersOK
<1>12. ASSUME TipOK(s, D, log) PROVE TipOK(t, E, log)
  <2>1. CASE s.joined /\ s.seq = Len(log)
    <3>1. t.seq = Len(log)
      BY <1>4, <1>5, <2>1
    <3> QED
      BY <3>1 DEF TipOK
  <2>2. CASE ~s.joined /\ (log = <<>> \/ \A j \in 1..Len(D) : ~isAnswer(s, D[j]))
    <3>1. log = <<>>
      BY <1>1, <2>2
    <3>2. Len(log) = 0
      BY <3>1
    <3>3. t.seq = Len(log)
      BY <1>4, <1>5, <3>2
    <3> QED
      BY <3>3 DEF TipOK
  <2>3. ASSUME NEW k \in 1..Len(D), isNews(s, D[k]), pos(D[k]) = Len(log)
        PROVE  TipOK(t, E, log)
    <3>1. CASE k # 1
      <4>1. k - 1 \in 1..Len(E) /\ E[k - 1] = D[k]
        BY <1>1, <3>1
      <4> QED
        BY <1>6, <2>3, <4>1 DEF TipOK
    <3>2. CASE k = 1
      BY <1>1, <2>3, <3>2 DEF TipOK
    <3> QED
      BY <3>1, <3>2
  <2> QED
    BY <1>12, <2>1, <2>2, <2>3 DEF TipOK
<1> QED
  BY <1>5, <1>11, <1>12 DEF E

(* An empty room answered: the session offers it its text.                  *)
LEMMA AnswersOffer ==
    ASSUME NEW s \in Session, NEW t \in Session, NEW D \in Seq(Answer),
           NEW log \in Seq(SUBSET Op), NEW row,
           D # <<>>, AnswersOK(s, D, log, row), ~s.joined, isAnswer(s, Head(D)),
           After(s, t), ~t.joined, t.seq = s.seq
    PROVE  /\ AnswersOK(t, Tail(D), log, row) /\ TipOK(t, Tail(D), log)
           /\ \A j \in 1..Len(Tail(D)) : ~isAnswer(t, Tail(D)[j])
<1> DEFINE E == Tail(D)
<1>1. /\ Len(D) \in Nat /\ Len(E) = Len(D) - 1 /\ Head(D) = D[1] /\ 1 \in 1..Len(D)
      /\ \A i \in 1..Len(E) : E[i] = D[i + 1] /\ i + 1 \in 1..Len(D)
  BY TailAt
<1>2. t.gen = s.gen /\ \A f : (isNews(t, f) <=> isNews(s, f)) /\ (isAnswer(t, f) <=> isAnswer(s, f))
  BY DEF isNews, isAnswer, After
<1> HIDE DEF E
<1>3. \A i \in 1..Len(E) : ~isAnswer(t, E[i])
  <2> SUFFICES ASSUME NEW i \in 1..Len(E), isAnswer(t, E[i]) PROVE FALSE
    OBVIOUS
  <2>1. i + 1 = 1
    BY <1>1, <1>2 DEF AnswersOK
  <2> QED
    BY <1>1, <2>1
<1>4. ASSUME NEW i \in 1..Len(E) PROVE DownOK(t, E[i], log, row)
  <2>1. DownOK(s, E[i], log, row)
    BY <1>1 DEF AnswersOK
  <2>2. ~isAnswer(s, E[i])
    BY <1>2, <1>3
  <2> QED
    BY <1>2, <2>1, <2>2 DEF DownOK, isAnswer
<1>5. ASSUME NEW i \in 1..Len(E), NEW j \in 1..Len(E), i < j, isNews(t, E[i]), isNews(t, E[j])
      PROVE  pos(E[i]) <= pos(E[j])
  <2>1. i + 1 < j + 1
    BY <1>1, <1>5
  <2> QED
    BY <1>1, <1>2, <1>5, <2>1 DEF AnswersOK
<1>6. ASSUME NEW i \in 1..Len(E) PROVE NextOK(t, E, i)
  <2>1. \A j \in 1..(i - 1) : ~isAnswer(t, E[j])
    BY <1>1, <1>3
  <2> QED
    BY <2>1 DEF NextOK
<1>7. AnswersOK(t, E, log, row)
  BY <1>3, <1>4, <1>5, <1>6 DEF AnswersOK
<1>8. TipOK(t, E, log)
  BY <1>3 DEF TipOK
<1> QED
  BY <1>3, <1>7, <1>8 DEF E

-----------------------------------------------------------------------------
(* What a session's own steps and handlers keep of what holds between it,    *)
(* the frames on their way and its room's log.                               *)

(* Where a session is stays as it was.                                      *)
Still(s, t) ==
    /\ t.on = s.on /\ t.gen = s.gen /\ t.joined = s.joined /\ t.moved = s.moved
    /\ t.seq = s.seq /\ t.known = s.known /\ t.seed = s.seed /\ t.name = s.name
    /\ t.left = s.left

(* A session that shows more is where it was in its room.                   *)
LEMMA StillPlace ==
    ASSUME NEW s, NEW t, NEW log, NEW row, PlaceOK(s, log, row), Still(s, t),
           s.doc \subseteq t.doc, t.online => t.joined
    PROVE  PlaceOK(t, log, row)
BY DEF PlaceOK, Still

(* Standing still and forgetting nothing is handling nothing.               *)
LEMMA StillSame ==
    ASSUME NEW s, NEW t, Still(s, t), After(s, t) PROVE Same(s, t)
BY DEF Still, Same

(* Two steps that stand still in a row.                                     *)
LEMMA StillStill ==
    ASSUME NEW s, NEW t, NEW v, Still(s, t), Still(t, v) PROVE Still(s, v)
BY DEF Still

(* What sets of unacked updates hold together.                              *)
LEMMA OutgoingOf ==
    ASSUME NEW A, NEW B
    PROVE  /\ outgoing({}) = {} /\ outgoing(A \cup B) = outgoing(A) \cup outgoing(B)
           /\ \A u : outgoing({u}) = u.ops
           /\ A \subseteq B => outgoing(A) \subseteq outgoing(B)
BY DEF outgoing

(* A step may send nothing.                                                 *)
LEMMA NothingOut == ASSUME NEW s PROVE OutOK(s, <<>>)
BY DEF OutOK

(* A step may send one frame of the session's room.                         *)
LEMMA OneOut ==
    ASSUME NEW s, NEW f, s.online, s.joined, f.gen = s.gen, UpOK(s, f),
           f.type \in {"Update", "Snapshot", "Rotate"}
    PROVE  OutOK(s, <<f>>)
<1>1. Len(<<f>>) = 1 /\ <<f>>[1] = f
  OBVIOUS
<1> QED
  BY <1>1 DEF OutOK

(* Snapshots and rotations are not sent by what sends updates.              *)
UpdatesOnly(out) == \A i \in 1..Len(out) : out[i].type = "Update"

(* sendUpdate.                                                              *)
LEMMA ShipOK ==
    ASSUME NEW n \in Nat, NEW s \in SessionTo(n), NEW ops \in SUBSET OpTo(n), NEW log,
           OwesOK(s, ops, log), s.online => s.joined
    PROVE  LET t == ship(s, ops).session
               out == ship(s, ops).out
           IN  /\ t \in SessionTo(n) /\ out \in Seq(FrameTo(n))
               /\ Still(s, t) /\ After(s, t) /\ t.online = s.online
               /\ t.doc = s.doc /\ t.pending = s.pending
               /\ OwesOK(t, {}, log) /\ OutOK(t, out) /\ UpdatesOnly(out)
<1> DEFINE t == ship(s, ops).session
           out == ship(s, ops).out
           k == s.sent + 1
           more == [n |-> k, ops |-> ops]
           f == Update(s.gen, k, ops)
<1>1. t \in SessionTo(n) /\ out \in Seq(FrameTo(n))
  BY ShipType
<1>2. /\ s.gen \in Nat /\ s.sent \in Nat /\ k \in Nat /\ s.sent < k /\ s.online \in BOOLEAN
      /\ \A u \in s.unacked : u.n \in Nat
  BY SessionToIsSession, SessionFields
<1>3. /\ Still(s, t) /\ t.online = s.online /\ t.doc = s.doc /\ t.pending = s.pending
      /\ t.sent = k /\ t.unacked = s.unacked \cup {more}
  BY DEF ship, SessionTo, Still
<1>4. out = IF s.online THEN <<f>> ELSE <<>>
  BY DEF ship
<1>5. f.type = "Update" /\ f.gen = s.gen /\ f.n = k /\ f.ops = ops
  BY DEF Update
<1>6. more.n = k /\ more.ops = ops
  OBVIOUS
<1> HIDE DEF t, out, k, more, f
<1>7. outgoing(t.unacked) = outgoing(s.unacked) \cup ops
  BY <1>3, <1>6 DEF outgoing
<1>8. \A u \in t.unacked : u.n <= t.sent
  BY <1>2, <1>3, <1>6 DEF OwesOK
<1>9. OwesOK(t, {}, log)
  <2>1. t.seq = s.seq
    BY <1>3 DEF Still
  <2> QED
    BY <1>3, <1>7, <1>8, <2>1 DEF OwesOK
<1>10. After(s, t)
  BY <1>2, <1>3, <1>6 DEF After, Still
<1>11. ASSUME s.online PROVE UpOK(t, f)
  <2>1. t.gen = s.gen /\ ops \subseteq t.doc /\ t.sent = k /\ t.joined
    BY <1>3, <1>11 DEF OwesOK, Still
  <2>2. ASSUME NEW u \in t.unacked, u.n = f.n PROVE u.ops \subseteq f.ops
    <3>1. ~(u \in s.unacked)
      BY <1>2, <1>5, <2>2 DEF OwesOK
    <3> QED
      BY <1>3, <1>5, <1>6, <3>1
  <2>3. f.gen <= t.gen /\ f.n <= t.sent
    BY <1>2, <1>5, <2>1
  <2> QED
    BY <1>5, <2>1, <2>2, <2>3 DEF UpOK
<1>12. OutOK(t, out) /\ UpdatesOnly(out)
  <2>1. CASE s.online
    <3>1. out = <<f>> /\ t.online /\ t.joined /\ f.gen = t.gen
      BY <1>3, <1>4, <1>5, <2>1 DEF Still
    <3>2. OutOK(t, out)
      BY <1>5, <1>11, <2>1, <3>1, OneOut
    <3>3. Len(<<f>>) = 1 /\ <<f>>[1] = f
      OBVIOUS
    <3> QED
      BY <1>5, <3>1, <3>2, <3>3 DEF UpdatesOnly
  <2>2. CASE ~s.online
    BY <1>4, <2>2, NothingOut DEF UpdatesOnly
  <2> QED
    BY <2>1, <2>2
<1> QED
  BY <1>1, <1>3, <1>9, <1>10, <1>12 DEF t, out

(* takeUnacked and send again: nothing stops being owed.                    *)
LEMMA ResendOK ==
    ASSUME NEW n \in Nat, NEW s \in SessionTo(n), NEW log,
           OwesOK(s, {}, log), s.online => s.joined
    PROVE  LET t == resend(s).session
               out == resend(s).out
           IN  /\ t \in SessionTo(n) /\ out \in Seq(FrameTo(n))
               /\ Still(s, t) /\ After(s, t) /\ t.online = s.online
               /\ t.doc = s.doc /\ t.pending = s.pending
               /\ OwesOK(t, {}, log) /\ OutOK(t, out) /\ UpdatesOnly(out)
<1>1. CASE s.unacked = {}
  <2>1. resend(s) = [session |-> s, out |-> <<>>]
    BY <1>1 DEF resend
  <2>2. Still(s, s) /\ After(s, s)
    BY SessionToIsSession, SessionFields DEF Still, After
  <2>3. <<>> \in Seq(FrameTo(n)) /\ OutOK(s, <<>>) /\ UpdatesOnly(<<>>)
    BY EmptySeq, NothingOut DEF UpdatesOnly
  <2> QED
    BY <2>1, <2>2, <2>3
<1>2. CASE s.unacked # {}
  <2> DEFINE r == [s EXCEPT !.unacked = {}]
             ops == outgoing(s.unacked)
             t == ship(r, ops).session
             out == ship(r, ops).out
  <2>1. resend(s) = ship(r, ops)
    BY <1>2 DEF resend
  <2>2. ops \in SUBSET OpTo(n)
    BY OutgoingType DEF SessionTo
  <2>3. /\ r \in SessionTo(n) /\ r.unacked = {} /\ r.doc = s.doc /\ r.pending = s.pending
        /\ r.online = s.online /\ r.sent = s.sent /\ Still(s, r)
    BY DEF SessionTo, Still
  <2>4. s.sent \in Nat
    BY DEF SessionTo
  <2> HIDE DEF r, ops
  <2>5. outgoing({}) = {}
    BY OutgoingOf
  <2>6. r.seq = s.seq /\ r.gen = s.gen /\ r.known = s.known /\ r.joined = s.joined
    BY <2>3 DEF Still
  <2>7. OwesOK(r, ops, log) /\ After(s, r)
    BY <2>3, <2>4, <2>5, <2>6 DEF OwesOK, After, ops
  <2>8. /\ t \in SessionTo(n) /\ out \in Seq(FrameTo(n))
        /\ Still(r, t) /\ After(r, t) /\ t.online = r.online
        /\ t.doc = r.doc /\ t.pending = r.pending
        /\ OwesOK(t, {}, log) /\ OutOK(t, out) /\ UpdatesOnly(out)
    BY <2>2, <2>3, <2>6, <2>7, ShipOK
  <2> HIDE DEF t, out
  <2>9. Still(s, t)
    BY <2>3, <2>8, StillStill
  <2>10. After(s, t)
    BY <2>3, <2>7, <2>8, SessionToIsSession, AfterAfter
  <2> QED
    BY <2>1, <2>3, <2>8, <2>9, <2>10 DEF t, out
<1> QED
  BY <1>1, <1>2

(* goOnline, of a session that has joined.                                  *)
LEMMA GoOnlineOK ==
    ASSUME NEW n \in Nat, NEW s \in SessionTo(n), NEW log, OwesOK(s, {}, log), s.joined
    PROVE  LET t == goOnline(s).session
               out == goOnline(s).out
           IN  /\ t \in SessionTo(n) /\ out \in Seq(FrameTo(n))
               /\ Still(s, t) /\ After(s, t) /\ t.doc = s.doc
               /\ OwesOK(t, {}, log) /\ OutOK(t, out) /\ UpdatesOnly(out)
<1> DEFINE r == [s EXCEPT !.online = TRUE]
           t == resend(r).session
           out == resend(r).out
<1>1. goOnline(s) = resend(r)
  BY DEF goOnline
<1>2. /\ r \in SessionTo(n) /\ r.unacked = s.unacked /\ r.doc = s.doc /\ r.pending = s.pending
      /\ r.sent = s.sent /\ Still(s, r)
  BY DEF SessionTo, Still
<1>3. s.sent \in Nat
  BY DEF SessionTo
<1> HIDE DEF r
<1>4. r.seq = s.seq /\ r.gen = s.gen /\ r.known = s.known /\ r.joined = s.joined
  BY <1>2 DEF Still
<1>5. OwesOK(r, {}, log) /\ After(s, r)
  BY <1>2, <1>3, <1>4 DEF OwesOK, After
<1>6. /\ t \in SessionTo(n) /\ out \in Seq(FrameTo(n))
      /\ Still(r, t) /\ After(r, t) /\ t.doc = r.doc
      /\ OwesOK(t, {}, log) /\ OutOK(t, out) /\ UpdatesOnly(out)
  BY <1>2, <1>4, <1>5, ResendOK
<1> HIDE DEF t, out
<1>7. Still(s, t)
  BY <1>2, <1>6, StillStill
<1>8. After(s, t)
  BY <1>2, <1>5, <1>6, SessionToIsSession, AfterAfter
<1> QED
  BY <1>1, <1>2, <1>6, <1>7, <1>8 DEF t, out

(* ack: the room has update k; what went out before it and is not acked     *)
(* goes out again.                                                          *)
LEMMA AckOK ==
    ASSUME NEW n \in Nat, NEW s \in SessionTo(n), NEW log, NEW k \in Nat,
           OwesOK(s, {}, log), s.online => s.joined,
           \A u \in s.unacked : u.n = k => u.ops \subseteq first(log, s.seq)
    PROVE  LET t == ack(s, k).session
               out == ack(s, k).out
           IN  /\ t \in SessionTo(n) /\ out \in Seq(FrameTo(n))
               /\ Still(s, t) /\ After(s, t) /\ t.online = s.online /\ t.doc = s.doc
               /\ OwesOK(t, {}, log) /\ OutOK(t, out) /\ UpdatesOnly(out)
<1> DEFINE dropped == {u \in s.unacked : u.n < k}
           later == {u \in s.unacked : u.n > k}
           rest == [s EXCEPT !.unacked = {u \in @ : u.n > k}]
           ops == outgoing(dropped)
           t == ack(s, k).session
           out == ack(s, k).out
<1>1. Still(s, s) /\ After(s, s)
  BY SessionToIsSession, SessionFields DEF Still, After
<1>2. <<>> \in Seq(FrameTo(n)) /\ OutOK(s, <<>>) /\ UpdatesOnly(<<>>)
  BY EmptySeq, NothingOut DEF UpdatesOnly
<1>3. CASE \A u \in s.unacked : u.n # k
  <2>1. ack(s, k) = [session |-> s, out |-> <<>>]
    BY <1>3 DEF ack
  <2> QED
    BY <1>1, <1>2, <2>1
<1>4. CASE ~(\A u \in s.unacked : u.n # k)
  <2>1. /\ rest \in SessionTo(n) /\ rest.unacked = later /\ rest.doc = s.doc
        /\ rest.pending = s.pending /\ rest.sent = s.sent /\ rest.online = s.online
        /\ Still(s, rest)
    BY DEF SessionTo, Still
  <2>2. s.sent \in Nat /\ \A u \in s.unacked : u.n \in Nat
    BY SessionToIsSession, SessionFields
  <2>3. rest.seq = s.seq /\ rest.gen = s.gen /\ rest.known = s.known /\ rest.joined = s.joined
    BY <2>1 DEF Still
  <2>4. ops \in SUBSET OpTo(n)
    BY OutgoingType DEF SessionTo
  <2>5. ack(s, k) = IF dropped = {} THEN [session |-> rest, out |-> <<>>] ELSE ship(rest, ops)
    BY <1>4 DEF ack
  <2>6. outgoing(s.unacked) \subseteq outgoing(later) \cup ops \cup first(log, s.seq)
    <3>1. \A u \in s.unacked : u \in later \/ u \in dropped \/ u.n = k
      BY <2>2
    <3> HIDE DEF later, dropped
    <3> QED
      BY <3>1 DEF outgoing
  <2>7. outgoing(later) \subseteq outgoing(s.unacked) /\ ops \subseteq outgoing(s.unacked)
    BY OutgoingOf
  <2>8. OwesOK(rest, ops, log)
    <3>1. \A u \in rest.unacked : u.n <= rest.sent
      BY <2>1 DEF OwesOK
    <3> HIDE DEF rest, later, ops
    <3> QED
      BY <2>1, <2>3, <2>6, <2>7, <3>1 DEF OwesOK
  <2>9. After(s, rest)
    <3> HIDE DEF rest
    <3> QED
      BY <2>1, <2>2, <2>3 DEF After
  <2> HIDE DEF rest, later
  <2>10. CASE dropped = {}
    <3>1. ack(s, k) = [session |-> rest, out |-> <<>>]
      BY <2>5, <2>10
    <3>2. ops = {}
      BY <2>10, OutgoingOf
    <3>3. OwesOK(rest, {}, log)
      BY <2>8, <3>2
    <3>4. OutOK(rest, <<>>)
      BY NothingOut
    <3> QED
      BY <1>2, <2>1, <2>9, <3>1, <3>3, <3>4
  <2>11. CASE dropped # {}
    <3> HIDE DEF ops, dropped
    <3> DEFINE v == ship(rest, ops).session
               frames == ship(rest, ops).out
    <3>1. ack(s, k) = ship(rest, ops)
      BY <2>5, <2>11
    <3>2. /\ v \in SessionTo(n) /\ frames \in Seq(FrameTo(n))
          /\ Still(rest, v) /\ After(rest, v) /\ v.online = rest.online
          /\ v.doc = rest.doc
          /\ OwesOK(v, {}, log) /\ OutOK(v, frames) /\ UpdatesOnly(frames)
      BY <2>1, <2>3, <2>4, <2>8, ShipOK
    <3> HIDE DEF v, frames
    <3>3. Still(s, v)
      BY <2>1, <3>2, StillStill
    <3>4. After(s, v)
      BY <2>1, <2>9, <3>2, SessionToIsSession, AfterAfter
    <3> QED
      BY <2>1, <3>1, <3>2, <3>3, <3>4 DEF v, frames
  <2> QED
    BY <2>10, <2>11
<1> QED
  BY <1>3, <1>4

(* A merge adds to the document what it adds to what is owed.               *)
LEMMA MergeOK ==
    ASSUME NEW n \in Nat, NEW d \in Device, NEW s \in SessionTo(n), NEW log,
           NEW b, NEW incoming \in SUBSET Edit, OwesOK(s, {}, log)
    PROVE  LET t == merge(d, s, b, incoming)
           IN  /\ t \in SessionTo(n) /\ Still(s, t) /\ After(s, t)
               /\ t.online = s.online /\ OwesOK(t, {}, log)
<1> DEFINE mine == incoming \ (b \cup Text(s.doc))
           undone == {o \in live(s.doc) : o.edit \in b \ incoming}
           ops == inserts(d, s.client, mine) \cup {[o EXCEPT !.cut = TRUE] : o \in undone}
           t == merge(d, s, b, incoming)
<1>1. t = [s EXCEPT !.doc = @ \cup ops, !.pending = @ \cup ops]
  BY DEF merge
<1>2. t \in SessionTo(n)
  BY MergeType
<1> HIDE DEF ops
<1>3. /\ t.doc = s.doc \cup ops /\ t.pending = s.pending \cup ops /\ t.unacked = s.unacked
      /\ t.sent = s.sent /\ t.online = s.online /\ Still(s, t)
  BY <1>1 DEF SessionTo, Still
<1>4. s.sent \in Nat
  BY DEF SessionTo
<1> HIDE DEF t
<1>5. t.seq = s.seq /\ t.gen = s.gen /\ t.known = s.known
  BY <1>3 DEF Still
<1>6. OwesOK(t, {}, log)
  BY <1>3, <1>5 DEF OwesOK
<1>7. After(s, t)
  BY <1>3, <1>4, <1>5 DEF After
<1> QED
  BY <1>2, <1>3, <1>6, <1>7 DEF t

-----------------------------------------------------------------------------
(* A step of the session and its connection.                                *)

(* A step of its own keeps a session and its wire in order.                 *)
LEMMA ConnStep ==
    ASSUME NEW s \in Session, NEW t \in Session, NEW U \in Seq(Frame), NEW D \in Seq(Answer),
           NEW F, NEW log \in Seq(SUBSET Op), NEW row, NEW out \in Seq(Frame),
           Conn(s, U, D, F, log, row), Same(s, t), t.online => s.online,
           PlaceOK(t, log, row), OwesOK(t, {}, log), OutOK(t, out)
    PROVE  Conn(t, U \o out, D, F, log, row)
<1>1. s.seq \in Nat
  BY SessionFields
<1>2. After(s, t) /\ t.joined = s.joined /\ s.seq <= t.seq /\ t.seed = s.seed /\ t.gen = s.gen
  BY <1>1 DEF Same, After
<1>3. AsksOK(t, U, D, F)
  BY <1>2, AsksLater DEF Conn
<1>4. AsksOK(t, U \o out, D, F)
  BY <1>3, AsksOut
<1>5. AnswersOK(t, D, log, row) /\ (TipOK(s, D, log) => TipOK(t, D, log))
  BY AnswersSame DEF Conn
<1> QED
  BY <1>2, <1>4, <1>5 DEF Conn, LocalOK

(* A frame without news is dropped, nothing else.                           *)
LEMMA ConnSkip ==
    ASSUME NEW s \in Session, NEW U \in Seq(Frame), NEW D \in Seq(Answer),
           NEW F, NEW log \in Seq(SUBSET Op), NEW row,
           Conn(s, U, D, F, log, row), D # <<>>,
           ~isNews(s, Head(D)) \/ (~s.joined /\ ~isAnswer(s, Head(D)))
    PROVE  Conn(s, U, Tail(D), F, log, row)
<1>1. AnswersOK(s, Tail(D), log, row) /\ (TipOK(s, D, log) => TipOK(s, Tail(D), log))
  BY AnswersSkip DEF Conn
<1>2. After(s, s) /\ s.seq <= s.seq
  BY SessionFields DEF After
<1>3. \A j \in 1..Len(Tail(D)) : \E k \in 1..Len(D) : Tail(D)[j] = D[k]
  BY TailAt
<1>4. AsksOK(s, U, Tail(D), F)
  BY <1>2, <1>3, AsksLater DEF Conn
<1> QED
  BY <1>1, <1>4 DEF Conn

(* An answer to a device that has not joined: it asked nothing else.        *)
LEMMA NothingAsked ==
    ASSUME NEW s, NEW U, NEW D \in Seq(Answer), NEW F,
           AsksOK(s, U, D, F), D # <<>>, ~s.joined, isAnswer(s, Head(D))
    PROVE  \A i \in 1..Len(U) : U[i].gen # s.gen
<1>1. 1 \in 1..Len(D) /\ D[1] = Head(D)
  BY TailAt
<1> SUFFICES ASSUME NEW i \in 1..Len(U), U[i].gen = s.gen PROVE FALSE
  OBVIOUS
<1>2. U[i].type \in {"Sub", "Seed"}
  BY DEF AsksOK, UpOK
<1>3. CASE U[i].type = "Sub"
  BY <1>1, <1>3 DEF AsksOK, isAnswer
<1>4. CASE U[i].type = "Seed"
  BY <1>1, <1>4 DEF AsksOK
<1> QED
  BY <1>2, <1>3, <1>4

(* A frame with news is handled, and the session is at its place.           *)
LEMMA ConnHeard ==
    ASSUME NEW s \in Session, NEW t \in Session, NEW U \in Seq(Frame), NEW D \in Seq(Answer),
           NEW F, NEW log \in Seq(SUBSET Op), NEW row, NEW out \in Seq(Frame),
           Conn(s, U, D, F, log, row), D # <<>>, isNews(s, Head(D)),
           s.joined \/ isAnswer(s, Head(D)),
           After(s, t), t.joined, t.seq = pos(Head(D)),
           PlaceOK(t, log, row), OwesOK(t, {}, log), OutOK(t, out)
    PROVE  Conn(t, U \o out, Tail(D), F, log, row)
<1>1. /\ AnswersOK(t, Tail(D), log, row) /\ s.seq <= t.seq
      /\ TipOK(s, D, log) => TipOK(t, Tail(D), log)
  BY AnswersHeard DEF Conn
<1>2. t.gen = s.gen
  BY DEF After
<1>3. AsksOK(t, U, Tail(D), F)
  <2>1. CASE s.joined
    <3>1. \A j \in 1..Len(Tail(D)) : \E k \in 1..Len(D) : Tail(D)[j] = D[k]
      BY TailAt
    <3>2. 1 \in 1..Len(D) /\ D[1].gen = s.gen
      BY TailAt DEF isNews
    <3>3. AsksOK(s, U, D, F) /\ t.joined = s.joined
      BY <2>1, SessionFields DEF Conn
    <3> QED
      BY <1>1, <2>1, <3>1, <3>2, <3>3, AsksLater
  <2>2. CASE ~s.joined
    <3>1. \A i \in 1..Len(U) : U[i].gen # s.gen
      BY <2>2, NothingAsked DEF Conn
    <3> QED
      BY <1>2, <3>1, AsksNothing DEF Conn
  <2> QED
    BY <2>1, <2>2
<1>4. AsksOK(t, U \o out, Tail(D), F)
  BY <1>3, AsksOut
<1> QED
  BY <1>1, <1>2, <1>4 DEF Conn, LocalOK

(* The room has an update the session had not been told of: it has all      *)
(* before it.                                                               *)
LEMMA NothingSkipped ==
    ASSUME NEW s \in Session, NEW U \in Seq(Frame), NEW D \in Seq(Answer),
           NEW F, NEW log \in Seq(SUBSET Op), NEW row,
           Conn(s, U, D, F, log, row), D # <<>>, isNews(s, Head(D)), s.joined,
           Head(D).type # "State"
    PROVE  /\ pos(Head(D)) = Head(D).seq /\ Head(D).seq \in Nat /\ Head(D).seq >= 1
           /\ s.seq <= Head(D).seq /\ Head(D).seq <= Len(log)
           /\ first(log, s.seq) \subseteq first(log, Head(D).seq)
           /\ log[Head(D).seq] \subseteq first(log, Head(D).seq)
           /\ first(log, Head(D).seq) \subseteq s.doc \cup log[Head(D).seq]
<1> DEFINE f == Head(D)
           k == f.seq
<1>1. 1 \in 1..Len(D) /\ D[1] = f
  BY TailAt
<1>2. f \in Answer
  BY HeadTailProperties
<1>3. DownOK(s, f, log, row) /\ NextOK(s, D, 1)
  BY <1>1 DEF Conn, AnswersOK
<1> HIDE DEF f
<1>4. f.gen = s.gen /\ f.type \in {"Echo", "Fanout"} /\ pos(f) = k /\ k \in Nat
  BY <1>1, <1>2, AnswerFields DEF isNews, pos
<1>5. k >= 1 /\ s.seq <= k /\ k <= Len(log) /\ s.seq \in Nat
  BY <1>1, <1>3, <1>4, SessionFields DEF DownOK, isNews
<1>6. 1..(1 - 1) = {}
  OBVIOUS
<1>7. s.seq >= k - 1
  BY <1>1, <1>3, <1>6 DEF NextOK
<1> DEFINE m == k - 1
<1>8. m \in Nat /\ m + 1 = k /\ m <= s.seq
  BY <1>4, <1>5, <1>7
<1>9. first(log, s.seq) \subseteq first(log, k) /\ log[k] \subseteq first(log, k)
  <2> HIDE DEF k
  <2>1. first(log, s.seq) \subseteq first(log, k)
    BY <1>4, <1>5, FirstIncludes
  <2>2. log[k] \subseteq first(log, k)
    BY <1>4, <1>5, FirstIncludes
  <2> QED
    BY <2>1, <2>2
<1>10. first(log, k) \subseteq s.doc \cup log[k]
  <2> HIDE DEF m, k
  <2>1. first(log, k) = first(log, m) \cup log[k]
    BY <1>8, FirstNext
  <2>2. first(log, m) \subseteq first(log, s.seq)
    BY <1>5, <1>8, FirstIncludes
  <2>3. first(log, s.seq) \subseteq s.doc
    BY DEF Conn, LocalOK, PlaceOK
  <2> QED
    BY <2>1, <2>2, <2>3
<1> QED
  BY <1>4, <1>5, <1>9, <1>10 DEF f

-----------------------------------------------------------------------------
(* Handlers.                                                                *)

(* Apart from updates, a handler sends only the text it offers.             *)
OwnText(out) == \A i \in 1..Len(out) : out[i].type \in {"Update", "Seed"}

(* The room's answer is never that of a room that lost its log.             *)
LEMMA NeverLost ==
    ASSUME NEW s \in Session, NEW f \in Answer, NEW log, NEW row,
           PlaceOK(s, log, row), DownOK(s, f, log, row), f.gen = s.gen, f.type = "State"
    PROVE  ~lost(s, f)
<1>1. /\ f.log \in {0, row.log} /\ s.name \in {0, row.log}
      /\ s.seq <= f.head /\ s.known <= f.head
  BY DEF PlaceOK, DownOK, isNews, pos
<1>2. f.head \in Nat /\ s.seq \in Nat /\ s.known \in Nat
  BY AnswerFields, SessionFields
<1> QED
  BY <1>1, <1>2 DEF lost

(* The answer's updates applied.                                            *)
LEMMA ReachedOK ==
    ASSUME NEW n \in Nat, NEW s \in SessionTo(n), NEW f \in StateTo(n),
           NEW log \in Seq(SUBSET Op), NEW row,
           LocalOK(s, log, row), DownOK(s, f, log, row), f.gen = s.gen
    PROVE  LET t == reached(s, f)
           IN  /\ t \in SessionTo(n) /\ After(s, t) /\ t.on = s.on /\ t.joined = s.joined
               /\ t.online = s.online /\ t.seed = s.seed
               /\ t.seq = f.head /\ pos(f) = f.head
               /\ t.known <= Len(log) /\ t.left = None
               /\ t.name \in {0, row.log} /\ (t.moved => row.moved) /\ t.seq <= Len(log)
               /\ first(log, t.seq) \subseteq t.doc /\ OwesOK(t, {}, log)
<1> DEFINE t == reached(s, f)
           name == IF f.log # 0 THEN f.log ELSE s.name
<1>1. t \in SessionTo(n)
  BY ReachedType
<1>2. /\ f.head \in Nat /\ f.type = "State" /\ f.ops \in SUBSET OpTo(n)
  BY DEF StateTo
<1>3. /\ t.doc = s.doc \cup f.ops /\ t.seq = f.head /\ t.name = name
      /\ t.gen = s.gen /\ t.known = s.known /\ t.on = s.on /\ t.joined = s.joined
      /\ t.online = s.online /\ t.seed = s.seed /\ t.left = s.left /\ t.moved = s.moved
      /\ t.pending = s.pending /\ t.unacked = s.unacked /\ t.sent = s.sent
  BY DEF reached, SessionTo
<1>4. s.seq \in Nat /\ s.sent \in Nat /\ s.known \in Nat
  BY DEF SessionTo
<1> HIDE DEF t
<1>5. pos(f) = f.head /\ s.seq <= f.head /\ f.head <= Len(log)
  BY <1>2 DEF DownOK, isNews, pos
<1>6. /\ f.ops \subseteq first(log, f.head)
      /\ first(log, f.head) \subseteq f.ops \cup first(log, s.seq)
      /\ f.log \in {0, row.log}
  BY <1>2 DEF DownOK
<1>7. first(log, s.seq) \subseteq s.doc
  <2>1. first(log, 0) = {}
    BY FirstNext
  <2> QED
    BY <2>1 DEF LocalOK, PlaceOK
<1>8. first(log, s.seq) \subseteq first(log, f.head)
  BY <1>2, <1>4, <1>5, FirstIncludes
<1>9. OwesOK(t, {}, log)
  BY <1>3, <1>6, <1>8 DEF LocalOK, OwesOK
<1>10. After(s, t)
  BY <1>3, <1>4 DEF After
<1>11. /\ t.known <= Len(log) /\ t.left = None /\ (t.moved => row.moved)
       /\ t.name \in {0, row.log}
  BY <1>3, <1>6 DEF LocalOK, PlaceOK
<1> QED
  BY <1>1, <1>3, <1>5, <1>6, <1>7, <1>9, <1>10, <1>11 DEF t

(* onState: joins, offers its text, or catches up.                          *)
LEMMA HandleState ==
    ASSUME NEW n \in Nat, NEW d \in Device, NEW s \in SessionTo(n), NEW U \in Seq(Frame),
           NEW D \in Seq(Answer), NEW F, NEW log \in Seq(SUBSET Op), NEW row,
           FilesOK, fresh(d) \in 0..n,
           Conn(s, U, D, F, log, row), D # <<>>,
           Head(D).gen = s.gen, Head(D) \in StateTo(n)
    PROVE  LET o == onState(d, s, Head(D))
           IN  /\ o.session.on = s.on /\ o.session.gen = s.gen /\ OwnText(o.out)
               /\ Conn(o.session, U \o o.out, Tail(D), F, log, row)
<1> DEFINE f == Head(D)
           read == reached(s, f)
<1>1. f \in Answer /\ f.type = "State" /\ f.head \in Nat
  BY HeadTailProperties DEF StateTo
<1>2. 1 \in 1..Len(D) /\ D[1] = f
  BY TailAt
<1>3. DownOK(s, f, log, row)
  BY <1>2 DEF Conn, AnswersOK
<1>4. s \in Session
  BY SessionToIsSession
<1> HIDE DEF f
<1>5. f \in StateTo(n) /\ f.gen = s.gen
  BY DEF f
<1>6. ~lost(s, f)
  BY <1>1, <1>3, <1>4, <1>5, NeverLost DEF Conn, LocalOK
<1>7. isNews(s, f) /\ isAnswer(s, f)
  BY <1>1, <1>5 DEF isNews, isAnswer
<1>8. /\ read \in SessionTo(n) /\ After(s, read) /\ read.on = s.on /\ read.joined = s.joined
      /\ read.online = s.online /\ read.seed = s.seed
      /\ read.seq = f.head /\ pos(f) = f.head
      /\ read.known <= Len(log) /\ read.left = None
      /\ read.name \in {0, row.log} /\ (read.moved => row.moved) /\ read.seq <= Len(log)
      /\ first(log, read.seq) \subseteq read.doc /\ OwesOK(read, {}, log)
  BY <1>3, <1>5, ReachedOK DEF Conn
<1> HIDE DEF read
<1>9. s.joined => f.head >= 1
  <2>1. s.joined => s.seq >= 1
    BY DEF Conn, LocalOK, PlaceOK
  <2>2. pos(f) = f.head /\ f.head >= s.seq /\ s.seq \in Nat
    BY <1>1, <1>3, <1>4, <1>5, SessionFields DEF DownOK, isNews, pos
  <2> QED
    BY <1>1, <2>1, <2>2
<1>10. s.online => s.joined
  BY DEF Conn, LocalOK, PlaceOK
<1>11. CASE ~s.joined /\ f.head = 0
  <2> DEFINE text == scratch(d)
             t == [read EXCEPT !.seed = {text}, !.from = view[d]]
             seed == Seed(t.gen, text)
             out == <<seed>>
             E == Tail(D)
  <2>1. onState(d, s, f) = ends(t, <<Seed(read.gen, text)>>)
    BY <1>6, <1>11 DEF onState, offerSeed, With, read
  <2>2. text \in SUBSET OpTo(n)
    BY ScratchType
  <2>3. view[d] \in SUBSET Edit
    BY DEF FilesOK
  <2> HIDE DEF text
  <2>4. /\ t \in SessionTo(n) /\ Still([read EXCEPT !.seed = {text}], t) /\ t.seed = {text}
        /\ t.doc = read.doc /\ t.pending = read.pending /\ t.unacked = read.unacked
        /\ t.sent = read.sent /\ t.online = read.online /\ t.seq = read.seq
        /\ t.on = read.on /\ t.gen = read.gen /\ t.joined = read.joined
        /\ t.known = read.known /\ t.left = read.left /\ t.name = read.name
        /\ t.moved = read.moved
    BY <1>8, <2>2, <2>3, ZenonT(40) DEF SessionTo, Still
  <2> HIDE DEF t
  <2>6. OwesOK(t, {}, log)
    BY <1>8, <2>4 DEF OwesOK
  <2>7. ~s.online /\ ~t.joined /\ t.seq = 0 /\ s.seq = 0 /\ t.gen = s.gen
    BY <1>8, <1>10, <1>11, <2>4 DEF After, Conn, LocalOK, PlaceOK
  <2>8. PlaceOK(t, log, row)
    BY <1>8, <2>4, <2>7 DEF PlaceOK
  <2>9. After(s, t)
    BY <1>8, <2>4 DEF After
  <2>10. t \in Session
    BY <2>4, SessionToIsSession
  <2>11. /\ AnswersOK(t, E, log, row) /\ TipOK(t, E, log)
         /\ \A j \in 1..Len(E) : ~isAnswer(t, E[j])
    BY <1>4, <1>7, <1>11, <2>7, <2>9, <2>10, AnswersOffer DEF Conn, f
  <2>12. \A i \in 1..Len(U) : U[i].gen # s.gen
    BY <1>7, <1>11, NothingAsked DEF Conn, f
  <2>13. AsksOK(t, U, E, F)
    BY <2>7, <2>12, AsksNothing DEF Conn
  <2>14. seed \in Frame /\ seed.type = "Seed" /\ seed.gen = t.gen /\ seed.ops = text
    <3>1. t.gen \in Gen /\ text \in SUBSET Op
      BY <2>2, <2>10, OpToIsOp, SessionFields
    <3> HIDE DEF t
    <3> QED
      BY <3>1 DEF Seed, Frame
  <2>15. UpOK(t, seed)
    <3>1. t.gen \in Nat
      BY <2>10, SessionFields
    <3> HIDE DEF seed
    <3> QED
      BY <2>4, <2>7, <2>14, <3>1 DEF UpOK
  <2> HIDE DEF seed, E
  <2>16. AsksOK(t, U \o out, E, F)
    <3> DEFINE V == U \o out
    <3>1. /\ Len(U) \in Nat /\ Len(V) = Len(U) + 1 /\ V[Len(U) + 1] = seed
          /\ \A i \in 1..Len(U) : V[i] = U[i]
      BY <2>14, AppendAt
    <3> HIDE DEF V
    <3>2. \A i \in 1..Len(V) : i \in 1..Len(U) \/ i = Len(U) + 1
      BY <3>1
    <3>3. \A i \in 1..Len(V) : UpOK(t, V[i])
      BY <2>13, <2>15, <3>1, <3>2 DEF AsksOK
    <3>4. \A i \in 1..Len(V) : V[i].gen = t.gen => i = Len(U) + 1 /\ V[i].type = "Seed"
      BY <2>7, <2>12, <2>14, <3>1, <3>2
    <3>5. \A i \in 1..Len(V) : V[i].gen = t.gen => Alone(t, V, i)
      BY <3>4 DEF Alone
    <3>6. AsksOK(t, V, E, F)
      BY <2>11, <3>3, <3>4, <3>5 DEF AsksOK
    <3> QED
      BY <3>6 DEF V
  <2>17. Conn(t, U \o out, E, F, log, row)
    BY <2>6, <2>8, <2>11, <2>16 DEF Conn, LocalOK
  <2>18. OwnText(out)
    <3>1. Len(<<seed>>) = 1 /\ <<seed>>[1] = seed
      OBVIOUS
    <3> QED
      BY <2>14, <3>1 DEF OwnText
  <2>19. onState(d, s, f).session = t /\ onState(d, s, f).out = out
    BY <2>1, <2>4 DEF ends, seed
  <2> QED
    BY <1>8, <2>4, <2>7, <2>17, <2>18, <2>19 DEF f, E
<1>12. CASE ~(~s.joined /\ f.head = 0)
  <2> DEFINE joined == IF s.joined THEN read ELSE reconcile(d, read)
  <2>1. /\ joined \in SessionTo(n) /\ After(s, joined) /\ joined.on = s.on /\ joined.joined
        /\ joined.seq = f.head /\ PlaceOK(joined, log, row) /\ OwesOK(joined, {}, log)
        /\ (joined.online <=> s.online)
    <3>1. f.head >= 1
      BY <1>1, <1>9, <1>12
    <3>2. CASE s.joined
      BY <1>8, <3>1, <3>2 DEF PlaceOK
    <3>3. CASE ~s.joined
      <4> DEFINE m == merge(d, read, base(d), view[d])
                 t == [m EXCEPT !.seed = {}, !.from = view[d], !.joined = TRUE]
      <4>1. view[d] \in SUBSET Edit
        BY DEF FilesOK
      <4>2. /\ m \in SessionTo(n) /\ Still(read, m) /\ After(read, m)
            /\ m.online = read.online /\ OwesOK(m, {}, log)
        BY <1>8, <4>1, MergeOK
      <4>3. joined = t
        BY <3>3 DEF reconcile
      <4> HIDE DEF m
      <4>4. /\ t \in SessionTo(n) /\ t.joined
            /\ t.doc = m.doc /\ t.pending = m.pending /\ t.unacked = m.unacked
            /\ t.sent = m.sent /\ t.online = m.online /\ t.seq = m.seq
            /\ t.on = m.on /\ t.gen = m.gen
            /\ t.known = m.known /\ t.left = m.left /\ t.name = m.name
            /\ t.moved = m.moved
        BY <4>1, <4>2 DEF SessionTo
      <4> HIDE DEF t
      <4>5. /\ m.seq = f.head /\ m.on = s.on /\ m.known <= Len(log) /\ m.left = None
            /\ m.name \in {0, row.log} /\ (m.moved => row.moved) /\ m.seq <= Len(log)
            /\ first(log, m.seq) \subseteq m.doc
        <5>1. /\ m.seq = read.seq /\ m.on = read.on /\ m.known = read.known
              /\ m.left = read.left /\ m.name = read.name /\ m.moved = read.moved
          BY <4>2 DEF Still
        <5>2. read.doc \subseteq m.doc
          BY <4>2 DEF After
        <5> QED
          BY <1>8, <5>1, <5>2
      <4>6. After(s, m)
        BY <1>4, <1>8, <4>2, SessionToIsSession, AfterAfter
      <4>7. After(s, t) /\ OwesOK(t, {}, log)
        BY <4>2, <4>4, <4>6 DEF After, OwesOK
      <4>8. PlaceOK(t, log, row)
        BY <3>1, <4>4, <4>5 DEF PlaceOK
      <4> QED
        BY <1>8, <4>2, <4>3, <4>4, <4>5, <4>7, <4>8
    <3> QED
      BY <3>2, <3>3
  <2>2. CASE s.online
    <3> DEFINE t == [joined EXCEPT !.asked = FALSE]
    <3>1. onState(d, s, f) = settles(t, <<>>)
      BY <1>6, <1>12, <2>2 DEF onState, With, read
    <3> HIDE DEF joined
    <3>2. /\ t \in SessionTo(n) /\ Still(joined, t) /\ t.doc = joined.doc
          /\ t.pending = joined.pending /\ t.unacked = joined.unacked
          /\ t.sent = joined.sent /\ t.online = joined.online
      BY <2>1 DEF SessionTo, Still
    <3> HIDE DEF t
    <3>3. t.gen = joined.gen /\ t.seq = joined.seq /\ t.joined = joined.joined
          /\ t.known = joined.known /\ t.on = joined.on
      BY <3>2 DEF Still
    <3>4. After(s, t) /\ OwesOK(t, {}, log) /\ PlaceOK(t, log, row)
      <4>1. PlaceOK(t, log, row)
        BY <2>1, <3>2, <3>3, StillPlace
      <4> QED
        BY <2>1, <3>2, <3>3, <4>1 DEF After, OwesOK
    <3>5. t \in Session /\ <<>> \in Seq(Frame) /\ OutOK(t, <<>>)
      BY <3>2, SessionToIsSession, EmptySeq, NothingOut
    <3>6. Conn(t, U \o <<>>, Tail(D), F, log, row)
      BY <1>4, <1>7, <1>8, <2>1, <3>3, <3>4, <3>5, ConnHeard DEF f
    <3>7. onState(d, s, f).session = t /\ onState(d, s, f).out = <<>>
      BY <3>1 DEF settles
    <3>8. OwnText(<<>>)
      BY DEF OwnText
    <3> QED
      BY <2>1, <3>3, <3>4, <3>6, <3>7, <3>8 DEF f, After
  <2>3. CASE ~s.online
    <3> DEFINE t == goOnline(joined).session
               out == goOnline(joined).out
    <3>1. onState(d, s, f) = settles(t, out)
      BY <1>6, <1>12, <2>3 DEF onState, With, read
    <3> HIDE DEF joined
    <3>2. /\ t \in SessionTo(n) /\ out \in Seq(FrameTo(n))
          /\ Still(joined, t) /\ After(joined, t) /\ t.doc = joined.doc
          /\ OwesOK(t, {}, log) /\ OutOK(t, out) /\ UpdatesOnly(out)
      BY <2>1, GoOnlineOK
    <3> HIDE DEF t, out
    <3>3. t.gen = joined.gen /\ t.seq = joined.seq /\ t.joined = joined.joined
          /\ t.known = joined.known /\ t.on = joined.on
      BY <3>2 DEF Still
    <3>4. PlaceOK(t, log, row)
      BY <2>1, <3>2, <3>3, StillPlace
    <3>5. After(s, t)
      BY <1>4, <2>1, <3>2, SessionToIsSession, AfterAfter
    <3>6. t \in Session /\ out \in Seq(Frame)
      <4>1. FrameTo(n) \subseteq Frame
        BY FrameToIsFrame
      <4> QED
        BY <3>2, <4>1, SessionToIsSession, SeqMonotonic
    <3>7. Conn(t, U \o out, Tail(D), F, log, row)
      BY <1>4, <1>7, <1>8, <2>1, <3>2, <3>3, <3>4, <3>5, <3>6, ConnHeard DEF f
    <3>8. onState(d, s, f).session = t /\ onState(d, s, f).out = out
      BY <3>1 DEF settles
    <3>9. OwnText(out)
      BY <3>2 DEF OwnText, UpdatesOnly
    <3> QED
      BY <2>1, <3>3, <3>5, <3>7, <3>8, <3>9 DEF f, After
  <2> QED
    BY <2>2, <2>3
<1> QED
  BY <1>11, <1>12

(* onFanout: takes the next update, or asks nothing of one it has.          *)
LEMMA HandleFanout ==
    ASSUME NEW n \in Nat, NEW s \in SessionTo(n), NEW U \in Seq(Frame),
           NEW D \in Seq(Answer), NEW F, NEW log \in Seq(SUBSET Op), NEW row,
           Conn(s, U, D, F, log, row), D # <<>>, Head(D).gen = s.gen,
           Head(D) \in [type : {"Fanout"}, gen : Gen, seq : Nat, ops : SUBSET OpTo(n)]
    PROVE  LET o == onFanout(s, Head(D))
           IN  /\ o.session.on = s.on /\ o.session.gen = s.gen /\ OwnText(o.out)
               /\ Conn(o.session, U \o o.out, Tail(D), F, log, row)
<1> DEFINE f == Head(D)
<1>1. /\ f.type = "Fanout" /\ f.seq \in Nat /\ f.ops \in SUBSET OpTo(n) /\ s \in Session
      /\ isNews(s, f) /\ ~isAnswer(s, f)
  BY SessionToIsSession DEF isNews, isAnswer
<1>2. 1 \in 1..Len(D) /\ D[1] = f
  BY TailAt
<1>3. DownOK(s, f, log, row)
  BY <1>2 DEF Conn, AnswersOK
<1>4. OwnText(<<>>) /\ <<>> \in Seq(Frame) /\ U \o <<>> = U
  BY EmptySeq, ConcatEmptySeq DEF OwnText
<1>5. CASE ~s.joined
  <2>1. onFanout(s, f) = ends(s, <<>>)
    BY <1>5 DEF onFanout
  <2>2. Conn(s, U, Tail(D), F, log, row)
    BY <1>1, <1>5, ConnSkip
  <2>3. onFanout(s, f).session = s /\ onFanout(s, f).out = <<>>
    BY <2>1 DEF ends
  <2> QED
    BY <1>4, <2>2, <2>3
<1>6. CASE s.joined
  <2> DEFINE t == [s EXCEPT !.doc = @ \cup f.ops, !.seq = f.seq]
  <2>1. /\ pos(f) = f.seq /\ f.seq >= 1 /\ s.seq <= f.seq /\ f.seq <= Len(log)
        /\ first(log, s.seq) \subseteq first(log, f.seq)
        /\ log[f.seq] \subseteq first(log, f.seq)
        /\ first(log, f.seq) \subseteq s.doc \cup log[f.seq]
    BY <1>1, <1>6, NothingSkipped
  <2>2. f.ops = log[f.seq]
    BY <1>1, <1>3 DEF DownOK, isNews
  <2>3. onFanout(s, f) = settles(t, <<>>)
    BY <1>6 DEF onFanout, Conn, LocalOK, PlaceOK
  <2> HIDE DEF f
  <2>4. /\ t \in SessionTo(n) /\ t.doc = s.doc \cup f.ops /\ t.seq = f.seq
        /\ t.pending = s.pending /\ t.unacked = s.unacked /\ t.sent = s.sent
        /\ t.online = s.online /\ t.on = s.on /\ t.gen = s.gen /\ t.joined = s.joined
        /\ t.known = s.known /\ t.left = s.left /\ t.name = s.name /\ t.moved = s.moved
        /\ s.sent \in Nat
    BY <1>1 DEF SessionTo
  <2> HIDE DEF t
  <2>5. OwesOK(t, {}, log)
    BY <2>1, <2>2, <2>4 DEF Conn, LocalOK, OwesOK
  <2>6. PlaceOK(t, log, row)
    BY <1>6, <2>1, <2>2, <2>4 DEF Conn, LocalOK, PlaceOK
  <2>7. After(s, t)
    BY <2>4 DEF After
  <2>8. t \in Session /\ OutOK(t, <<>>)
    BY <2>4, SessionToIsSession, NothingOut
  <2>9. Conn(t, U \o <<>>, Tail(D), F, log, row)
    BY <1>1, <1>4, <1>6, <2>1, <2>4, <2>5, <2>6, <2>7, <2>8, ConnHeard DEF f
  <2>10. onFanout(s, f).session = t /\ onFanout(s, f).out = <<>>
    BY <2>3 DEF settles
  <2> QED
    BY <1>4, <2>4, <2>9, <2>10 DEF f
<1> QED
  BY <1>5, <1>6

(* onEcho: the room has what was sent; what it skipped is sent again.       *)
LEMMA HandleEcho ==
    ASSUME NEW n \in Nat, NEW s \in SessionTo(n), NEW U \in Seq(Frame),
           NEW D \in Seq(Answer), NEW F, NEW log \in Seq(SUBSET Op), NEW row,
           Conn(s, U, D, F, log, row), D # <<>>, Head(D).gen = s.gen,
           Head(D) \in [type : {"Echo"}, gen : Gen, seq : Nat, n : Nat]
    PROVE  LET o == onEcho(s, Head(D))
           IN  /\ o.session.on = s.on /\ o.session.gen = s.gen /\ OwnText(o.out)
               /\ Conn(o.session, U \o o.out, Tail(D), F, log, row)
<1> DEFINE f == Head(D)
           at == [s EXCEPT !.seq = f.seq]
<1>1. /\ f.type = "Echo" /\ f.seq \in Nat /\ f.n \in Nat /\ s \in Session
      /\ isNews(s, f) /\ isAnswer(s, f) /\ pos(f) = f.seq
  BY SessionToIsSession DEF isNews, isAnswer, pos
<1>2. 1 \in 1..Len(D) /\ D[1] = f
  BY TailAt
<1>3. DownOK(s, f, log, row)
  BY <1>2 DEF Conn, AnswersOK
<1>4. f.gen = s.gen
  OBVIOUS
<1>5. FrameTo(n) \subseteq Frame
  BY FrameToIsFrame
<1>6. CASE s.joined
  <2> DEFINE t == ack(at, f.n).session
             out == ack(at, f.n).out
  <2>1. /\ f.seq >= 1 /\ s.seq <= f.seq /\ f.seq <= Len(log)
        /\ first(log, s.seq) \subseteq first(log, f.seq)
        /\ log[f.seq] \subseteq first(log, f.seq)
        /\ first(log, f.seq) \subseteq s.doc \cup log[f.seq]
    BY <1>1, <1>6, NothingSkipped
  <2>2. onEcho(s, f) = settles(t, out)
    BY <1>6 DEF onEcho, With
  <2> HIDE DEF f
  <2>3. /\ log[f.seq] \subseteq s.doc
        /\ \A u \in s.unacked : u.n = f.n => u.ops \subseteq log[f.seq]
    BY <1>1, <1>3, <1>4, <1>6 DEF DownOK
  <2>4. /\ at \in SessionTo(n) /\ at.doc = s.doc /\ at.seq = f.seq
        /\ at.pending = s.pending /\ at.unacked = s.unacked /\ at.sent = s.sent
        /\ at.online = s.online /\ at.on = s.on /\ at.gen = s.gen /\ at.joined = s.joined
        /\ at.known = s.known /\ at.left = s.left /\ at.name = s.name /\ at.moved = s.moved
        /\ s.sent \in Nat
    BY <1>1 DEF SessionTo
  <2> HIDE DEF at
  <2>5. OwesOK(at, {}, log)
    BY <2>1, <2>4 DEF Conn, LocalOK, OwesOK
  <2>6. PlaceOK(at, log, row)
    BY <1>6, <2>1, <2>3, <2>4 DEF Conn, LocalOK, PlaceOK
  <2>7. After(s, at)
    BY <2>4 DEF After
  <2>8. \A u \in at.unacked : u.n = f.n => u.ops \subseteq first(log, at.seq)
    BY <2>1, <2>3, <2>4
  <2>9. /\ t \in SessionTo(n) /\ out \in Seq(FrameTo(n))
        /\ Still(at, t) /\ After(at, t) /\ t.online = at.online /\ t.doc = at.doc
        /\ OwesOK(t, {}, log) /\ OutOK(t, out) /\ UpdatesOnly(out)
    BY <1>1, <1>6, <2>4, <2>5, <2>8, AckOK
  <2> HIDE DEF t, out
  <2>10. t.on = s.on /\ t.gen = s.gen /\ t.joined /\ t.seq = f.seq
    BY <1>6, <2>4, <2>9 DEF Still
  <2>11. PlaceOK(t, log, row)
    BY <2>6, <2>9, <2>10, StillPlace
  <2>12. After(s, t)
    BY <1>1, <2>4, <2>7, <2>9, SessionToIsSession, AfterAfter
  <2>13. t \in Session /\ out \in Seq(Frame)
    BY <1>5, <2>9, SessionToIsSession, SeqMonotonic
  <2>14. Conn(t, U \o out, Tail(D), F, log, row)
    BY <1>1, <1>6, <2>9, <2>10, <2>11, <2>12, <2>13, ConnHeard DEF f
  <2>15. OwnText(out)
    BY <2>9 DEF OwnText, UpdatesOnly
  <2>16. onEcho(s, f).session = t /\ onEcho(s, f).out = out
    BY <2>2 DEF settles
  <2> QED
    BY <2>10, <2>14, <2>15, <2>16 DEF f
<1>7. CASE ~s.joined
  <2> DEFINE seeded == [at EXCEPT !.doc = @ \cup UNION s.seed, !.seed = {}, !.joined = TRUE]
             t == goOnline(seeded).session
             out == goOnline(seeded).out
  <2>1. f.seq = 1 /\ s.seed = {log[1]} /\ f.seq <= Len(log)
    <3> HIDE DEF f
    <3> QED
      BY <1>1, <1>3, <1>4, <1>7 DEF DownOK
  <2>2. onEcho(s, f) = settles(t, out)
    BY <1>7, <2>1 DEF onEcho, With
  <2>3. s.seq = 0 /\ UNION s.seed \in SUBSET OpTo(n)
    BY <1>7, <2>1 DEF Conn, LocalOK, PlaceOK, SessionTo
  <2>4. first(log, 1) = UNION s.seed /\ first(log, 0) = {}
    <3>1. 1..1 = {1} /\ 1..0 = {}
      OBVIOUS
    <3> QED
      BY <2>1, <3>1 DEF first
  <2> HIDE DEF f
  <2>5. /\ seeded \in SessionTo(n) /\ seeded.doc = s.doc \cup UNION s.seed /\ seeded.seq = f.seq
        /\ seeded.pending = s.pending /\ seeded.unacked = s.unacked /\ seeded.sent = s.sent
        /\ seeded.on = s.on /\ seeded.gen = s.gen /\ seeded.joined
        /\ seeded.known = s.known /\ seeded.left = s.left /\ seeded.name = s.name
        /\ seeded.moved = s.moved /\ s.sent \in Nat
    BY <1>1, <2>3 DEF SessionTo
  <2> HIDE DEF at, seeded
  <2>6. OwesOK(seeded, {}, log)
    BY <2>1, <2>3, <2>4, <2>5 DEF Conn, LocalOK, OwesOK
  <2>7. PlaceOK(seeded, log, row)
    BY <2>1, <2>4, <2>5 DEF Conn, LocalOK, PlaceOK
  <2>8. After(s, seeded)
    BY <2>5 DEF After
  <2>9. /\ t \in SessionTo(n) /\ out \in Seq(FrameTo(n))
        /\ Still(seeded, t) /\ After(seeded, t) /\ t.doc = seeded.doc
        /\ OwesOK(t, {}, log) /\ OutOK(t, out) /\ UpdatesOnly(out)
    BY <2>5, <2>6, GoOnlineOK
  <2> HIDE DEF t, out
  <2>10. t.on = s.on /\ t.gen = s.gen /\ t.joined /\ t.seq = f.seq
    BY <2>5, <2>9 DEF Still
  <2>11. PlaceOK(t, log, row)
    BY <2>7, <2>9, <2>10, StillPlace
  <2>12. After(s, t)
    BY <1>1, <2>5, <2>8, <2>9, SessionToIsSession, AfterAfter
  <2>13. t \in Session /\ out \in Seq(Frame)
    BY <1>5, <2>9, SessionToIsSession, SeqMonotonic
  <2>14. Conn(t, U \o out, Tail(D), F, log, row)
    BY <1>1, <2>9, <2>10, <2>11, <2>12, <2>13, ConnHeard DEF f
  <2>15. OwnText(out)
    BY <2>9 DEF OwnText, UpdatesOnly
  <2>16. onEcho(s, f).session = t /\ onEcho(s, f).out = out
    BY <2>2 DEF settles
  <2> QED
    BY <2>10, <2>14, <2>15, <2>16 DEF f
<1> QED
  BY <1>6, <1>7

(* onMoved: the session will follow the room.                               *)
LEMMA HandleMoved ==
    ASSUME NEW n \in Nat, NEW s \in SessionTo(n), NEW U \in Seq(Frame),
           NEW D \in Seq(Answer), NEW F, NEW log \in Seq(SUBSET Op), NEW row,
           Conn(s, U, D, F, log, row), D # <<>>, Head(D).gen = s.gen, Head(D).type = "Moved"
    PROVE  LET o == onMoved(s)
           IN  /\ o.session.on = s.on /\ o.session.gen = s.gen /\ OwnText(o.out)
               /\ Conn(o.session, U \o o.out, Tail(D), F, log, row)
<1> DEFINE f == Head(D)
           t == [s EXCEPT !.moved = TRUE, !.asked = FALSE]
<1>1. s \in Session /\ ~isNews(s, f)
  BY SessionToIsSession DEF isNews
<1>2. 1 \in 1..Len(D) /\ D[1] = f
  BY TailAt
<1>3. row.moved
  BY <1>2 DEF Conn, AnswersOK, DownOK
<1>4. Conn(s, U, Tail(D), F, log, row)
  BY <1>1, ConnSkip
<1>5. /\ t \in SessionTo(n) /\ t.doc = s.doc /\ t.seq = s.seq
      /\ t.pending = s.pending /\ t.unacked = s.unacked /\ t.sent = s.sent
      /\ t.online = s.online /\ t.on = s.on /\ t.gen = s.gen /\ t.joined = s.joined
      /\ t.known = s.known /\ t.left = s.left /\ t.name = s.name /\ t.seed = s.seed
      /\ s.sent \in Nat
  BY DEF SessionTo
<1>6. onMoved(s).session = t /\ onMoved(s).out = <<>>
  BY DEF onMoved, ends
<1> HIDE DEF t, f
<1>7. OwesOK(t, {}, log) /\ PlaceOK(t, log, row)
  BY <1>3, <1>5 DEF Conn, LocalOK, OwesOK, PlaceOK
<1>8. Same(s, t)
  BY <1>5 DEF Same, After
<1>9. t \in Session /\ <<>> \in Seq(Frame) /\ OutOK(t, <<>>) /\ Tail(D) \in Seq(Answer)
  BY <1>5, SessionToIsSession, EmptySeq, NothingOut, HeadTailProperties
<1>10. Conn(t, U \o <<>>, Tail(D), F, log, row)
  BY <1>1, <1>4, <1>5, <1>7, <1>8, <1>9, ConnStep
<1>11. OwnText(<<>>)
  BY DEF OwnText
<1> QED
  BY <1>5, <1>6, <1>10, <1>11

(* A frame of the session's room is handled.                                *)
LEMMA HandleOK ==
    ASSUME NEW n \in Nat, NEW d \in Device, NEW s \in SessionTo(n), NEW U \in Seq(Frame),
           NEW D \in Seq(AnswerTo(n)), NEW F, NEW log \in Seq(SUBSET Op), NEW row,
           FilesOK, fresh(d) \in 0..n,
           Conn(s, U, D, F, log, row), D # <<>>, Head(D).gen = s.gen
    PROVE  LET o == handle(d, s, Head(D))
           IN  /\ o.session.on = s.on /\ o.session.gen = s.gen /\ OwnText(o.out)
               /\ Conn(o.session, U \o o.out, Tail(D), F, log, row)
<1> DEFINE f == Head(D)
<1>1. f \in AnswerTo(n)
  BY HeadTailProperties
<1>2. D \in Seq(Answer)
  <2>1. AnswerTo(n) \subseteq Answer
    BY AnswerToIsAnswer
  <2> QED
    BY <2>1, SeqMonotonic
<1>3. CASE f \in StateTo(n)
  <2>1. f.type = "State"
    BY <1>3 DEF StateTo
  <2>2. handle(d, s, f) = onState(d, s, f)
    BY <2>1 DEF handle
  <2> QED
    BY <1>2, <1>3, <2>2, HandleState
<1>4. CASE f \in [type : {"Fanout"}, gen : Gen, seq : Nat, ops : SUBSET OpTo(n)]
  <2>1. handle(d, s, f) = onFanout(s, f)
    BY <1>4 DEF handle
  <2> QED
    BY <1>2, <1>4, <2>1, HandleFanout, SMTT(30)
<1>5. CASE f \in [type : {"Echo"}, gen : Gen, seq : Nat, n : Nat]
  <2>1. handle(d, s, f) = onEcho(s, f)
    BY <1>5 DEF handle
  <2> QED
    BY <1>2, <1>5, <2>1, HandleEcho, SMTT(30)
<1>6. CASE f \in [type : {"Moved"}, gen : Gen]
  <2>1. handle(d, s, f) = onMoved(s) /\ f.type = "Moved"
    BY <1>6 DEF handle
  <2> QED
    BY <1>2, <2>1, HandleMoved
<1> QED
  BY <1>1, <1>3, <1>4, <1>5, <1>6 DEF AnswerTo

(* A settled session's document is the room at seq.                         *)
LEMMA SettledIsRoom ==
    ASSUME NEW s \in Session, NEW log \in Seq(SUBSET Op), NEW row,
           LocalOK(s, log, row), settled(s)
    PROVE  s.doc = first(log, s.seq) /\ s.seq \in 0..Len(log) /\ s.joined
<1>1. s.on /\ s.joined /\ s.pending = {} /\ s.unacked = {}
  BY DEF settled, synced
<1>2. outgoing(s.unacked) = {}
  BY <1>1, OutgoingOf
<1>3. s.doc = first(log, s.seq)
  BY <1>1, <1>2 DEF LocalOK, PlaceOK, OwesOK
<1>4. s.seq \in 0..Len(log)
  BY SessionFields, LenProperties DEF LocalOK, PlaceOK
<1> QED
  BY <1>1, <1>3, <1>4

-----------------------------------------------------------------------------
(* The session's own steps.                                                 *)

(* A step of its own, and the frames it sends.                              *)
OwnStep(s, t, out, log, row) ==
    /\ t \in Session /\ out \in Seq(Frame)
    /\ t.on = s.on /\ Same(s, t) /\ t.online = s.online
    /\ PlaceOK(t, log, row) /\ OwesOK(t, {}, log) /\ OutOK(t, out)

(* A compaction sends a settled session's copy of the room.                 *)
LEMMA CompactOK ==
    ASSUME NEW n \in Nat, NEW s \in SessionTo(n), NEW log \in Seq(SUBSET Op), NEW row,
           LocalOK(s, log, row), settled(s), s.online
    PROVE  OwnStep(s, [s EXCEPT !.compacted = s.seq], <<Snapshot(s.gen, s.seq, s.doc)>>,
                   log, row)
<1> DEFINE t == [s EXCEPT !.compacted = s.seq]
           f == Snapshot(s.gen, s.seq, s.doc)
<1>1. s \in Session /\ s.joined
  BY SessionToIsSession DEF settled, synced
<1>2. s.gen \in Gen /\ s.gen \in Nat /\ s.seq \in Nat /\ s.doc \in SUBSET Op /\ s.sent \in Nat
  BY <1>1, SessionFields
<1>3. f \in Frame /\ f.type = "Snapshot" /\ f.gen = s.gen
  <2> DEFINE g == s.gen
             k == s.seq
             ops == s.doc
  <2>1. g \in Gen /\ k \in Nat /\ ops \in SUBSET Op
    BY <1>2
  <2> HIDE DEF g, k, ops
  <2>2. Snapshot(g, k, ops) \in Frame /\ Snapshot(g, k, ops).type = "Snapshot"
        /\ Snapshot(g, k, ops).gen = g
    BY <2>1 DEF Snapshot, Frame
  <2> QED
    BY <2>2 DEF g, k, ops
<1>4. /\ t \in SessionTo(n) /\ t.doc = s.doc /\ t.seq = s.seq
      /\ t.pending = s.pending /\ t.unacked = s.unacked /\ t.sent = s.sent
      /\ t.online = s.online /\ Still(s, t) /\ t.on = s.on /\ t.gen = s.gen
      /\ t.joined = s.joined /\ t.known = s.known
  BY DEF SessionTo, Still
<1> HIDE DEF t, f
<1>5. OwesOK(t, {}, log)
  BY <1>4 DEF LocalOK, OwesOK
<1>6. PlaceOK(t, log, row)
  BY <1>1, <1>4, StillPlace DEF LocalOK
<1>7. Same(s, t)
  <2>1. After(s, t)
    BY <1>2, <1>4 DEF After
  <2> QED
    BY <1>4, <2>1, StillSame
<1>8. t \in Session
  BY <1>4, SessionToIsSession
<1>9. UpOK(t, f)
  BY <1>1, <1>2, <1>3, <1>4 DEF UpOK
<1>10. OutOK(t, <<f>>)
  BY <1>1, <1>3, <1>4, <1>9, OneOut
<1>11. <<f>> \in Seq(Frame)
  BY <1>3
<1> QED
  BY <1>4, <1>5, <1>6, <1>7, <1>8, <1>10, <1>11 DEF OwnStep, t, f

(* A rotation sends the same text as a fresh document.                      *)
LEMMA AskRotateOK ==
    ASSUME NEW n \in Nat, NEW s \in SessionTo(n), NEW log \in Seq(SUBSET Op), NEW row,
           LocalOK(s, log, row), settled(s), s.online
    PROVE  OwnStep(s, [s EXCEPT !.asked = TRUE], <<Rotate(s.gen, s.seq, rebuild(s.doc))>>,
                   log, row)
<1> DEFINE t == [s EXCEPT !.asked = TRUE]
           f == Rotate(s.gen, s.seq, rebuild(s.doc))
<1>1. s \in Session /\ s.joined
  BY SessionToIsSession DEF settled, synced
<1>2. s.gen \in Gen /\ s.gen \in Nat /\ s.seq \in Nat /\ s.doc \in SUBSET Op /\ s.sent \in Nat
  BY <1>1, SessionFields
<1>3. f \in Frame /\ f.type = "Rotate" /\ f.gen = s.gen /\ f.upto = s.seq
  <2> DEFINE g == s.gen
             k == s.seq
             ops == rebuild(s.doc)
  <2>1. g \in Gen /\ k \in Nat /\ ops \in SUBSET Op
    BY <1>2 DEF rebuild, live
  <2> HIDE DEF g, k, ops
  <2>2. Rotate(g, k, ops) \in Frame /\ Rotate(g, k, ops).type = "Rotate"
        /\ Rotate(g, k, ops).gen = g /\ Rotate(g, k, ops).upto = k
    BY <2>1 DEF Rotate, Frame
  <2> QED
    BY <2>2 DEF g, k, ops
<1>4. /\ t \in SessionTo(n) /\ t.doc = s.doc /\ t.seq = s.seq
      /\ t.pending = s.pending /\ t.unacked = s.unacked /\ t.sent = s.sent
      /\ t.online = s.online /\ Still(s, t) /\ t.on = s.on /\ t.gen = s.gen
      /\ t.joined = s.joined /\ t.known = s.known
  BY DEF SessionTo, Still
<1> HIDE DEF t, f
<1>5. OwesOK(t, {}, log)
  BY <1>4 DEF LocalOK, OwesOK
<1>6. PlaceOK(t, log, row)
  BY <1>1, <1>4, StillPlace DEF LocalOK
<1>7. Same(s, t)
  <2>1. After(s, t)
    BY <1>2, <1>4 DEF After
  <2> QED
    BY <1>4, <2>1, StillSame
<1>8. t \in Session
  BY <1>4, SessionToIsSession
<1>9. UpOK(t, f)
  BY <1>1, <1>2, <1>3, <1>4 DEF UpOK
<1>10. OutOK(t, <<f>>)
  BY <1>1, <1>3, <1>4, <1>9, OneOut
<1>11. <<f>> \in Seq(Frame)
  BY <1>3
<1> QED
  BY <1>4, <1>5, <1>6, <1>7, <1>8, <1>10, <1>11 DEF OwnStep, t, f

(* What is typed into a bound editor is pending.                            *)
LEMMA TypeStepOK ==
    ASSUME NEW n \in Nat, NEW s \in SessionTo(n), NEW log \in Seq(SUBSET Op), NEW row,
           LocalOK(s, log, row), NEW ops \in SUBSET OpTo(n)
    PROVE  OwnStep(s, [s EXCEPT !.doc = @ \cup ops, !.pending = @ \cup ops], <<>>, log, row)
<1> DEFINE t == [s EXCEPT !.doc = @ \cup ops, !.pending = @ \cup ops]
<1>1. /\ t \in SessionTo(n) /\ t.doc = s.doc \cup ops /\ t.seq = s.seq
      /\ t.pending = s.pending \cup ops /\ t.unacked = s.unacked /\ t.sent = s.sent
      /\ t.online = s.online /\ Still(s, t) /\ t.on = s.on /\ t.gen = s.gen
      /\ t.joined = s.joined /\ t.known = s.known /\ s.sent \in Nat
  BY DEF SessionTo, Still
<1> HIDE DEF t
<1>2. OwesOK(t, {}, log)
  BY <1>1 DEF LocalOK, OwesOK
<1>3. PlaceOK(t, log, row)
  <2>1. t.online => t.joined
    BY <1>1 DEF LocalOK, PlaceOK
  <2> QED
    BY <1>1, <2>1, StillPlace DEF LocalOK
<1>4. Same(s, t)
  <2>1. After(s, t)
    BY <1>1 DEF After
  <2> QED
    BY <1>1, <2>1, StillSame
<1>5. t \in Session /\ <<>> \in Seq(Frame) /\ OutOK(t, <<>>)
  BY <1>1, SessionToIsSession, EmptySeq, NothingOut
<1> QED
  BY <1>1, <1>2, <1>3, <1>4, <1>5 DEF OwnStep, t

(* The editor's keystrokes are adopted, and pending.                        *)
LEMMA BindOK ==
    ASSUME NEW n \in Nat, NEW d \in Device, NEW s \in SessionTo(n), FilesOK,
           NEW log \in Seq(SUBSET Op), NEW row, LocalOK(s, log, row)
    PROVE  OwnStep(s, [adopt(d, s) EXCEPT !.bound = TRUE], <<>>, log, row)
<1> DEFINE m == IF s.from = None \/ s.from = view[d] THEN s
                ELSE merge(d, s, s.from, view[d])
           t == [m EXCEPT !.from = None, !.bound = TRUE]
<1>1. [adopt(d, s) EXCEPT !.bound = TRUE] = t
  BY DEF adopt
<1>2. /\ m \in SessionTo(n) /\ Still(s, m) /\ After(s, m)
      /\ m.online = s.online /\ OwesOK(m, {}, log)
  <2>1. view[d] \in SUBSET Edit
    BY DEF FilesOK
  <2>2. Still(s, s) /\ After(s, s)
    BY SessionToIsSession, SessionFields DEF Still, After
  <2>3. OwesOK(s, {}, log)
    BY DEF LocalOK
  <2>4. LET v == merge(d, s, s.from, view[d])
        IN  /\ v \in SessionTo(n) /\ Still(s, v) /\ After(s, v)
            /\ v.online = s.online /\ OwesOK(v, {}, log)
    BY <2>1, <2>3, MergeOK
  <2> QED
    BY <2>2, <2>3, <2>4
<1> HIDE DEF m
<1>3. /\ t \in SessionTo(n) /\ t.doc = m.doc /\ t.pending = m.pending
      /\ t.unacked = m.unacked /\ t.sent = m.sent /\ t.online = m.online /\ Still(m, t)
  BY <1>2 DEF SessionTo, Still
<1> HIDE DEF t
<1>4. t.seq = m.seq /\ t.gen = m.gen /\ t.known = m.known
  BY <1>3 DEF Still
<1>5. Still(s, t)
  BY <1>2, <1>3, StillStill
<1>6. OwesOK(t, {}, log) /\ After(s, t)
  BY <1>2, <1>3, <1>4 DEF After, OwesOK
<1>7. t.online = s.online /\ t.on = s.on /\ t.joined = s.joined /\ s.doc \subseteq t.doc
  BY <1>2, <1>3, <1>5, <1>6 DEF Still, After
<1>8. PlaceOK(t, log, row)
  <2>1. t.online => t.joined
    BY <1>7 DEF LocalOK, PlaceOK
  <2> QED
    BY <1>5, <1>7, <2>1, StillPlace DEF LocalOK
<1>9. Same(s, t)
  BY <1>5, <1>6, StillSame
<1>10. t \in Session /\ <<>> \in Seq(Frame) /\ OutOK(t, <<>>)
  BY <1>3, SessionToIsSession, EmptySeq, NothingOut
<1> QED
  BY <1>1, <1>6, <1>7, <1>8, <1>9, <1>10 DEF OwnStep

(* What is pending is sent, and unacked.                                    *)
LEMMA FlushOK ==
    ASSUME NEW n \in Nat, NEW s \in SessionTo(n), NEW log \in Seq(SUBSET Op), NEW row,
           LocalOK(s, log, row)
    PROVE  LET o == ship([s EXCEPT !.pending = {}], s.pending)
           IN  OwnStep(s, o.session, o.out, log, row) /\ UpdatesOnly(o.out)
<1> DEFINE r == [s EXCEPT !.pending = {}]
           ops == s.pending
           t == ship(r, ops).session
           out == ship(r, ops).out
<1>1. /\ r \in SessionTo(n) /\ r.doc = s.doc /\ r.pending = {} /\ r.unacked = s.unacked
      /\ r.sent = s.sent /\ r.online = s.online /\ Still(s, r)
      /\ s.sent \in Nat /\ ops \in SUBSET OpTo(n)
  BY DEF SessionTo, Still
<1>2. s.online => s.joined
  BY DEF LocalOK, PlaceOK
<1> HIDE DEF r
<1>3. r.seq = s.seq /\ r.gen = s.gen /\ r.known = s.known /\ r.joined = s.joined
  BY <1>1 DEF Still
<1>4. OwesOK(r, ops, log) /\ After(s, r)
  BY <1>1, <1>3 DEF LocalOK, OwesOK, After
<1> HIDE DEF ops
<1>5. /\ t \in SessionTo(n) /\ out \in Seq(FrameTo(n))
      /\ Still(r, t) /\ After(r, t) /\ t.online = r.online /\ t.doc = r.doc
      /\ OwesOK(t, {}, log) /\ OutOK(t, out) /\ UpdatesOnly(out)
  BY <1>1, <1>2, <1>3, <1>4, ShipOK
<1> HIDE DEF t, out
<1>6. Still(s, t)
  BY <1>1, <1>5, StillStill
<1>7. After(s, t)
  BY <1>1, <1>4, <1>5, SessionToIsSession, AfterAfter
<1>8. PlaceOK(t, log, row)
  <2>1. t.online => t.joined
    BY <1>1, <1>2, <1>5, <1>6 DEF Still
  <2> QED
    BY <1>1, <1>5, <1>6, <2>1, StillPlace DEF LocalOK
<1>9. t \in Session /\ out \in Seq(Frame)
  <2>1. FrameTo(n) \subseteq Frame
    BY FrameToIsFrame
  <2> QED
    BY <1>5, <2>1, SessionToIsSession, SeqMonotonic
<1>10. Same(s, t) /\ t.on = s.on /\ t.online = s.online
  BY <1>1, <1>5, <1>6, <1>7, StillSame DEF Still
<1>11. OwnStep(s, t, out, log, row)
  BY <1>5, <1>8, <1>9, <1>10 DEF OwnStep
<1> QED
  BY <1>5, <1>11 DEF t, out, r, ops

(* What is unacked is sent again, as one update.                            *)
LEMMA ResendStepOK ==
    ASSUME NEW n \in Nat, NEW s \in SessionTo(n), NEW log \in Seq(SUBSET Op), NEW row,
           LocalOK(s, log, row)
    PROVE  LET o == resend(s)
           IN  OwnStep(s, o.session, o.out, log, row) /\ UpdatesOnly(o.out)
<1> DEFINE t == resend(s).session
           out == resend(s).out
<1>1. s.online => s.joined
  BY DEF LocalOK, PlaceOK
<1>2. /\ t \in SessionTo(n) /\ out \in Seq(FrameTo(n))
      /\ Still(s, t) /\ After(s, t) /\ t.online = s.online /\ t.doc = s.doc
      /\ OwesOK(t, {}, log) /\ OutOK(t, out) /\ UpdatesOnly(out)
  BY <1>1, ResendOK DEF LocalOK
<1> HIDE DEF t, out
<1>3. PlaceOK(t, log, row)
  <2>1. t.online => t.joined
    BY <1>1, <1>2 DEF Still
  <2> QED
    BY <1>2, <2>1, StillPlace DEF LocalOK
<1>4. t \in Session /\ out \in Seq(Frame)
  <2>1. FrameTo(n) \subseteq Frame
    BY FrameToIsFrame
  <2> QED
    BY <1>2, <2>1, SessionToIsSession, SeqMonotonic
<1>5. Same(s, t) /\ t.on = s.on
  BY <1>2, StillSame DEF Still
<1>6. OwnStep(s, t, out, log, row)
  BY <1>2, <1>3, <1>4, <1>5 DEF OwnStep
<1> QED
  BY <1>2, <1>6 DEF t, out

-----------------------------------------------------------------------------
(* The invariant.                                                           *)

(* Logs are not lost, and a session is opened on a quiet wire.              *)
Kept == "wipe" \notin Fault /\ "reopen" \notin Fault

(* A room is its log until it moved, and then its successor has its text.   *)
RoomOK(g) ==
    /\ ~room[g].moved => RowIsLog(room[g], past[g])
    /\ room[g].moved =>
          /\ g + 1 \in Gen /\ past[g + 1] # <<>>
          /\ Text(merged(past[g])) \subseteq Text(past[g + 1][1])

(* Snapshots and rotations on their way hold the room's first updates.      *)
CopyOK(f, log) ==
    /\ f.type \in {"Snapshot", "Rotate"} => f.upto <= Len(log)
    /\ f.type = "Snapshot" => f.ops = first(log, f.upto)
    /\ f.type = "Rotate" => f.ops = rebuild(first(log, f.upto))

CopiesOK == \A s \in Socket : \A i \in 1..Len(up[s]) : CopyOK(up[s][i], past[up[s][i].gen])

(* Notes are opened in the first generation, or one that has a log.         *)
InUse(g) == g = 0 \/ past[g] # <<>>

AgreedOK(text) == text # None => text.seq <= Len(past[text.gen]) /\ InUse(text.gen)

SessionOK(d) ==
    LET s == session[d]
    IN  s.on => InUse(s.gen) /\ LocalOK(s, past[s.gen], room[s.gen])

(* What holds of a device whose socket is up.                               *)
Held(d) ==
    LET s == session[d]
        U == up[here(d)]
        F == follows[here(d)]
    IN  LeavesOK(s, U, F) /\ (s.on => Conn(s, U, down[d], F, past[s.gen], room[s.gen]))

WireOK(d) ==
    /\ linked[d] => Held(d)
    /\ ~linked[d] => down[d] = <<>> /\ ~session[d].online

Safe ==
    /\ \A g \in Gen : RoomOK(g)
    /\ CopiesOK
    /\ \A d \in Device :
          SessionOK(d) /\ WireOK(d) /\ AgreedOK(unwritten[d]) /\ AgreedOK(stored[d])

-----------------------------------------------------------------------------
(* Frames and logs.                                                         *)

(* A room nothing happened to goes on.                                      *)
LEMMA GoesOnSame ==
    ASSUME NEW log \in Seq(SUBSET Op), NEW row \in Row PROVE GoesOn(log, row, log, row)
<1>1. Len(log) \in Nat
  OBVIOUS
<1> QED
  BY <1>1 DEF GoesOn, Grows

(* A copy of a log's first updates stays one as the log grows.              *)
LEMMA CopyGrows ==
    ASSUME NEW f \in Frame, NEW log \in Seq(SUBSET Op), NEW longer \in Seq(SUBSET Op),
           Grows(log, longer), CopyOK(f, log)
    PROVE  CopyOK(f, longer)
<1>1. CASE f.type \in {"Snapshot", "Rotate"}
  <2>1. f.upto \in Nat /\ f.upto <= Len(log)
    BY <1>1 DEF CopyOK, Frame
  <2>2. Len(log) \in Nat /\ Len(longer) \in Nat /\ Len(log) <= Len(longer)
    BY DEF Grows
  <2>3. f.upto \in 0..Len(log)
    BY <2>1, <2>2
  <2>4. first(longer, f.upto) = first(log, f.upto)
    BY <2>3, FirstGrows
  <2> QED
    BY <1>1, <2>1, <2>2, <2>4 DEF CopyOK
<1>2. CASE f.type \notin {"Snapshot", "Rotate"}
  BY <1>2 DEF CopyOK
<1> QED
  BY <1>1, <1>2

(* A frame less on the way to the hub.                                      *)
LEMMA LeavesTail ==
    ASSUME NEW s, NEW U \in Seq(Frame), NEW F, NEW F2, U # <<>>, LeavesOK(s, U, F),
           \A g \in F2 : \/ g \in F /\ Head(U) # Unsub(g)
                         \/ Head(U).type = "Sub" /\ Head(U).gen = g
    PROVE  LeavesOK(s, Tail(U), F2)
<1> DEFINE V == Tail(U)
<1>1. /\ Len(U) \in Nat /\ Len(U) >= 1 /\ Len(V) = Len(U) - 1 /\ Head(U) = U[1]
      /\ \A i \in 1..Len(V) : V[i] = U[i + 1] /\ i + 1 \in 1..Len(U)
      /\ \A i \in 1..Len(U) : i = 1 \/ (i - 1 \in 1..Len(V) /\ V[i - 1] = U[i])
  BY TailAt
<1>2. ASSUME NEW i \in 1..Len(U), NEW j \in 1..Len(U), j > i
      PROVE  j - 1 \in 1..Len(V) /\ V[j - 1] = U[j]
  BY <1>1, <1>2
<1>3. ASSUME NEW g \in F2
      PROVE  (s.on /\ g = s.gen) \/ \E i \in 1..Len(V) : V[i] = Unsub(g)
  <2>1. CASE g \in F /\ Head(U) # Unsub(g)
    <3>1. CASE s.on /\ g = s.gen
      BY <3>1
    <3>2. CASE \E i \in 1..Len(U) : U[i] = Unsub(g)
      <4>1. PICK i \in 1..Len(U) : U[i] = Unsub(g)
        BY <3>2
      <4>2. i # 1
        BY <4>1, <2>1, <1>1
      <4>3. i - 1 \in 1..Len(V) /\ V[i - 1] = U[i]
        BY <4>2, <1>1
      <4> QED
        BY <4>1, <4>3
    <3> QED
      BY <2>1, <3>1, <3>2 DEF LeavesOK
  <2>2. CASE Head(U).type = "Sub" /\ Head(U).gen = g
    <3>1. 1 \in 1..Len(U) /\ U[1].type = "Sub" /\ U[1].gen = g
      BY <2>2, <1>1
    <3>2. CASE s.on /\ g = s.gen
      BY <3>2
    <3>3. CASE \E j \in 1..Len(U) : j > 1 /\ U[j] = Unsub(g)
      <4>1. PICK j \in 1..Len(U) : j > 1 /\ U[j] = Unsub(g)
        BY <3>3
      <4> QED
        BY <3>1, <4>1, <1>2
    <3> QED
      BY <3>1, <3>2, <3>3 DEF LeavesOK
  <2> QED
    BY <2>1, <2>2
<1>4. ASSUME NEW i \in 1..Len(V), V[i].type = "Sub"
      PROVE  (s.on /\ V[i].gen = s.gen) \/ \E j \in 1..Len(V) : j > i /\ V[j] = Unsub(V[i].gen)
  <2>1. V[i] = U[i + 1] /\ i + 1 \in 1..Len(U)
    BY <1>1
  <2>2. CASE s.on /\ V[i].gen = s.gen
    BY <2>2
  <2>3. CASE \E j \in 1..Len(U) : j > i + 1 /\ U[j] = Unsub(V[i].gen)
    <3>1. PICK j \in 1..Len(U) : j > i + 1 /\ U[j] = Unsub(V[i].gen)
      BY <2>3
    <3>2. j - 1 \in 1..Len(V) /\ V[j - 1] = U[j]
      BY <2>1, <3>1, <1>2
    <3>3. j - 1 > i
      BY <3>1, <1>1
    <3> QED
      BY <3>1, <3>2, <3>3
  <2> QED
    BY <1>4, <2>1, <2>2, <2>3 DEF LeavesOK
<1> HIDE DEF V
<1>5. LeavesOK(s, V, F2)
  BY <1>3, <1>4 DEF LeavesOK
<1> QED
  BY <1>5 DEF V

(* What a device follows is its room, or one it had before.                 *)
LEMMA FollowsOlder ==
    ASSUME NEW s \in Session, NEW U \in Seq(Frame), NEW D, NEW F, NEW g \in F, g \in Gen,
           LeavesOK(s, U, F), AsksOK(s, U, D, F)
    PROVE  g <= s.gen
<1>1. s.gen \in Nat /\ g \in Nat
  BY SessionFields DEF Gen
<1>2. CASE g = s.gen
  BY <1>1, <1>2
<1>3. CASE \E i \in 1..Len(U) : U[i] = Unsub(g)
  <2>1. PICK i \in 1..Len(U) : U[i] = Unsub(g)
    BY <1>3
  <2>2. UpOK(s, U[i])
    BY DEF AsksOK
  <2> QED
    BY <2>1, <2>2 DEF UpOK, Unsub
<1> QED
  BY <1>2, <1>3 DEF LeavesOK

-----------------------------------------------------------------------------
(* What reaches a device of another room.                                   *)

(* A frame of an earlier room says nothing of the session's own.            *)
LEMMA DownOther ==
    ASSUME NEW s \in Session, NEW a \in Answer, NEW log, NEW row,
           a.gen # s.gen, a.gen <= s.gen
    PROVE  DownOK(s, a, log, row) /\ ~isAnswer(s, a) /\ ~isNews(s, a)
BY DEF DownOK, isAnswer, isNews

(* Such a frame more on the way to the device.                              *)
LEMMA ConnOther ==
    ASSUME NEW s \in Session, NEW U \in Seq(Frame), NEW D \in Seq(Answer), NEW F \in SUBSET Gen,
           NEW log \in Seq(SUBSET Op), NEW row \in Row,
           Conn(s, U, D, F, log, row), LeavesOK(s, U, F),
           NEW a \in Answer, a.gen \in F, a.gen # s.gen
    PROVE  Conn(s, U, D \o <<a>>, F, log, row)
<1>1. a.gen <= s.gen
  BY FollowsOlder DEF Conn
<1>2. DownOK(s, a, log, row) /\ ~isAnswer(s, a) /\ ~isNews(s, a)
  BY <1>1, DownOther
<1>3. GoesOn(log, row, log, row)
  BY GoesOnSame
<1> QED
  BY <1>2, <1>3, ConnTold

(* The hub answers what the device asked of a room it has left.             *)
LEMMA ConnOtherAnswered ==
    ASSUME NEW s \in Session, NEW U \in Seq(Frame), NEW D \in Seq(Answer), NEW F, NEW F2,
           NEW log \in Seq(SUBSET Op), NEW row \in Row,
           Conn(s, U, D, F, log, row), U # <<>>, s.gen \in F2 => s.gen \in F,
           NEW a \in Answer, a.gen = Head(U).gen, a.gen # s.gen
    PROVE  Conn(s, Tail(U), D \o <<a>>, F2, log, row)
<1>1. Conn(s, Tail(U), D, F2, log, row)
  BY ConnTaken
<1>2. UpOK(s, Head(U))
  <2>1. 1 \in 1..Len(U) /\ Head(U) = U[1]
    BY TailAt
  <2> QED
    BY <2>1 DEF Conn, AsksOK
<1>3. a.gen <= s.gen
  BY <1>2 DEF UpOK
<1>4. DownOK(s, a, log, row) /\ ~isAnswer(s, a) /\ ~isNews(s, a)
  BY <1>3, DownOther
<1>5. GoesOn(log, row, log, row)
  BY GoesOnSame
<1> QED
  BY <1>1, <1>4, <1>5, ConnTold

-----------------------------------------------------------------------------
(* The state's parts have their types.                                      *)

(* Before a step.                                                           *)
LEMMA Parts ==
    ASSUME TypeOK
    PROVE  /\ \A g \in Gen : past[g] \in Seq(SUBSET Op) /\ room[g] \in Row
           /\ \A k \in Socket : up[k] \in Seq(Frame) /\ follows[k] \in SUBSET Gen
           /\ \A d \in Device : /\ down[d] \in Seq(Answer) /\ session[d] \in Session
                                /\ session[d].gen \in Gen /\ here(d) \in Socket
                                /\ linked[d] \in BOOLEAN
                                /\ unwritten[d] \in Agreed \cup {None}
                                /\ stored[d] \in Agreed \cup {None}
<1>1. \A d \in Device : session[d] \in Session /\ session[d].gen \in Gen
  BY SessionFields DEF TypeOK
<1>2. \A d \in Device : here(d) \in Socket
  BY DEF TypeOK, here, Socket
<1> QED
  BY <1>1, <1>2 DEF TypeOK

(* After a step.                                                            *)
LEMMA PartsNext ==
    ASSUME TypeOK'
    PROVE  /\ \A g \in Gen : past'[g] \in Seq(SUBSET Op) /\ room'[g] \in Row
           /\ \A k \in Socket : up'[k] \in Seq(Frame) /\ follows'[k] \in SUBSET Gen
           /\ \A d \in Device : /\ down'[d] \in Seq(Answer) /\ session'[d] \in Session
                                /\ session'[d].gen \in Gen
<1>1. \A d \in Device : session'[d] \in Session /\ session'[d].gen \in Gen
  BY SessionFields DEF TypeOK
<1> QED
  BY <1>1 DEF TypeOK

(* A room that goes on is in use still, and what was agreed is there.       *)
LEMMA InUseGrows ==
    ASSUME TypeOK, TypeOK', NEW g \in Gen, Grows(past[g], past'[g]), InUse(g)
    PROVE  InUse(g)'
<1>1. past[g] \in Seq(SUBSET Op) /\ past'[g] \in Seq(SUBSET Op)
  BY Parts, PartsNext
<1>2. past[g] # <<>> => past'[g] # <<>>
  BY <1>1 DEF Grows
<1> QED
  BY <1>2 DEF InUse

(* What was agreed stays within its room's log.                             *)
LEMMA AgreedGrows ==
    ASSUME TypeOK, TypeOK', \A g \in Gen : Grows(past[g], past'[g]),
           NEW text \in Agreed \cup {None}, AgreedOK(text)
    PROVE  AgreedOK(text)'
<1>1. CASE text # None
  <2>1. text.gen \in Gen /\ text.seq \in Nat
    BY <1>1 DEF Agreed
  <2> DEFINE g == text.gen
             k == text.seq
  <2>2. past[g] \in Seq(SUBSET Op) /\ past'[g] \in Seq(SUBSET Op)
    BY <2>1, Parts, PartsNext
  <2>3. Grows(past[g], past'[g]) /\ k <= Len(past[g]) /\ InUse(g)
    BY <1>1, <2>1 DEF AgreedOK
  <2>4. InUse(g)'
    BY <2>1, <2>3, InUseGrows
  <2>5. k \in Nat /\ g \in Gen
    BY <2>1
  <2> HIDE DEF g, k
  <2>6. k <= Len(past'[g])
    BY <2>2, <2>3, <2>5 DEF Grows
  <2> QED
    BY <1>1, <2>4, <2>6 DEF AgreedOK, g, k
<1>2. CASE text = None
  BY <1>2 DEF AgreedOK
<1> QED
  BY <1>1, <1>2

(* Frames that leave the wire, and logs that go on, keep the copies.        *)
LEMMA CopiesTaken ==
    ASSUME TypeOK, TypeOK', CopiesOK, NEW k \in Socket, up[k] # <<>>,
           up' = [up EXCEPT ![k] = Tail(@)], \A g \in Gen : Grows(past[g], past'[g])
    PROVE  CopiesOK'
<1> SUFFICES ASSUME NEW c \in Socket, NEW i \in 1..Len(up'[c])
             PROVE  CopyOK(up'[c][i], past'[up'[c][i].gen])
  BY DEF CopiesOK
<1>1. PICK j : j \in 1..Len(up[c]) /\ up'[c][i] = up[c][j]
  <2>1. CASE c = k
    <3>1. up[k] \in Seq(Frame) /\ up'[k] = Tail(up[k])
      BY Parts DEF TypeOK
    <3>2. Tail(up[k])[i] = up[k][i + 1] /\ i + 1 \in 1..Len(up[k])
      BY <2>1, <3>1, TailAt
    <3> QED
      BY <2>1, <3>1, <3>2
  <2>2. CASE c # k
    <3>1. up'[c] = up[c]
      BY <2>2 DEF TypeOK
    <3> QED
      BY <3>1
  <2> QED
    BY <2>1, <2>2
<1> DEFINE f == up[c][j]
<1>2. f \in Frame
  BY <1>1, Parts
<1>3. f.gen \in Gen
  BY <1>2 DEF Frame
<1>4. CopyOK(f, past[f.gen]) /\ Grows(past[f.gen], past'[f.gen])
  BY <1>1, <1>3 DEF CopiesOK
<1>5. past[f.gen] \in Seq(SUBSET Op) /\ past'[f.gen] \in Seq(SUBSET Op)
  BY <1>3, Parts, PartsNext
<1> HIDE DEF f
<1>6. CopyOK(f, past'[f.gen])
  BY <1>2, <1>4, <1>5, CopyGrows
<1> QED
  BY <1>1, <1>6 DEF f

(* A step of the hub: what is left to show is how the rooms go on, and what *)
(* it leaves of each device's connection.                                   *)
LEMMA HubFrame ==
    ASSUME TypeOK, TypeOK', Safe, NEW k \in Socket, up[k] # <<>>,
           up' = [up EXCEPT ![k] = Tail(@)],
           UNCHANGED <<session, file, cur, linked>>,
           \A g \in Gen : GoesOn(past[g], room[g], past'[g], room'[g]) /\ RoomOK(g)',
           \A d \in Device : IF linked[d] THEN Held(d)' ELSE down'[d] = down[d]
    PROVE  Safe'
<1>1. \A g \in Gen : Grows(past[g], past'[g])
  BY DEF GoesOn
<1>2. CopiesOK'
  BY <1>1, CopiesTaken DEF Safe
<1>3. ASSUME NEW d \in Device PROVE SessionOK(d)'
  <2> DEFINE s == session[d]
             g == session[d].gen
  <2>1. s \in Session /\ g \in Gen
    BY Parts
  <2>2. past[g] \in Seq(SUBSET Op) /\ past'[g] \in Seq(SUBSET Op)
    BY <2>1, Parts, PartsNext
  <2>3. GoesOn(past[g], room[g], past'[g], room'[g])
    BY <2>1
  <2>4. ASSUME s.on PROVE InUse(g)' /\ LocalOK(s, past'[g], room'[g])
    <3>1. InUse(g) /\ LocalOK(s, past[g], room[g])
      BY <2>4 DEF Safe, SessionOK
    <3>2. InUse(g)'
      BY <3>1, <1>1, <2>1, InUseGrows
    <3> HIDE DEF s, g
    <3>3. LocalOK(s, past'[g], room'[g])
      BY <3>1, <2>1, <2>2, <2>3, LocalGrows
    <3> QED
      BY <3>2, <3>3
  <2>5. session' = session
    OBVIOUS
  <2> QED
    BY <2>4, <2>5 DEF SessionOK
<1>4. ASSUME NEW d \in Device PROVE WireOK(d)'
  BY DEF Safe, WireOK
<1>5. ASSUME NEW d \in Device PROVE AgreedOK(unwritten[d])' /\ AgreedOK(stored[d])'
  <2>1. unwritten' = unwritten /\ stored' = stored
    BY DEF file
  <2>2. AgreedOK(unwritten[d]) /\ AgreedOK(stored[d])
    BY DEF Safe
  <2>3. unwritten[d] \in Agreed \cup {None} /\ stored[d] \in Agreed \cup {None}
    BY Parts
  <2>4. PICK v \in Agreed \cup {None} : v = unwritten[d]
    BY <2>3
  <2>5. PICK w \in Agreed \cup {None} : w = stored[d]
    BY <2>3
  <2>6. AgreedOK(v)' /\ AgreedOK(w)'
    BY <1>1, <2>2, <2>4, <2>5, AgreedGrows
  <2> QED
    BY <2>1, <2>4, <2>5, <2>6
<1> QED
  BY <1>2, <1>3, <1>4, <1>5 DEF Safe

-----------------------------------------------------------------------------
(* The hub's steps.                                                         *)

(* What a socket still follows once its first frame is taken.               *)
StillFollows(k, F2) ==
    \A g \in F2 : \/ g \in follows[k] /\ Head(up[k]) # Unsub(g)
                  \/ Head(up[k]).type = "Sub" /\ Head(up[k]).gen = g

(* The frame the hub takes, and what it leaves alone.                       *)
LEMMA TakesParts ==
    ASSUME TypeOK, Safe, NEW k \in Socket, NEW types, Takes(k, types)
    PROVE  /\ up[k] # <<>> /\ up' = [up EXCEPT ![k] = Tail(@)]
           /\ UNCHANGED <<session, file, cur, linked>>
           /\ Head(up[k]) \in Frame /\ Head(up[k]).gen \in Gen /\ Head(up[k]).type \in types
           /\ CopyOK(Head(up[k]), past[Head(up[k]).gen])
<1>1. /\ up[k] # <<>> /\ up' = [up EXCEPT ![k] = Tail(@)]
      /\ UNCHANGED <<session, file, cur, linked>> /\ Head(up[k]).type \in types
  BY DEF Takes
<1>2. up[k] \in Seq(Frame)
  BY Parts
<1>3. 1 \in 1..Len(up[k]) /\ Head(up[k]) = up[k][1] /\ Head(up[k]) \in Frame
  BY <1>1, <1>2, TailAt, SeqTypes
<1>4. Head(up[k]).gen \in Gen
  BY <1>3 DEF Frame
<1>5. CopyOK(Head(up[k]), past[Head(up[k]).gen])
  BY <1>3 DEF Safe, CopiesOK
<1> QED
  BY <1>1, <1>3, <1>4, <1>5

(* The connection of a device whose frame the hub takes, or another's.      *)
LEMMA HeldParts ==
    ASSUME TypeOK, Safe, NEW d \in Device, linked[d], NEW k \in Socket, up[k] # <<>>,
           up' = [up EXCEPT ![k] = Tail(@)], UNCHANGED <<session, cur>>,
           NEW F2, F2 = follows'[here(d)],
           here(d) = k => StillFollows(k, F2), here(d) # k => F2 = follows[here(d)],
           session[d].on => Conn(session[d], up'[here(d)], down'[d], F2,
                                 past'[session[d].gen], room'[session[d].gen])
    PROVE  Held(d)'
<1> DEFINE s == session[d]
           c == here(d)
           U == up[c]
<1>1. c \in Socket /\ U \in Seq(Frame)
  BY Parts
<1>2. LeavesOK(s, U, follows[c])
  BY DEF Safe, WireOK, Held
<1>3. LeavesOK(s, up'[c], F2)
  <2>1. CASE c = k
    <3>1. up'[c] = Tail(U) /\ U # <<>>
      BY <2>1 DEF TypeOK
    <3>2. \A g \in F2 : \/ g \in follows[c] /\ Head(U) # Unsub(g)
                        \/ Head(U).type = "Sub" /\ Head(U).gen = g
      BY <2>1 DEF StillFollows
    <3>3. LeavesOK(s, Tail(U), F2)
      BY <3>1, <3>2, <1>1, <1>2, LeavesTail
    <3> QED
      BY <3>1, <3>3
  <2>2. CASE c # k
    <3>1. up'[c] = U /\ F2 = follows[c]
      BY <2>2 DEF TypeOK
    <3> QED
      BY <3>1, <1>2
  <2> QED
    BY <2>1, <2>2
<1>4. here(d)' = c /\ session'[d] = s
  BY DEF here
<1> QED
  BY <1>3, <1>4 DEF Held

(* The hub takes a frame, and neither logs it nor answers.                  *)
LEMMA QuietStep ==
    ASSUME TypeOK, TypeOK', Safe, NEW k \in Socket, NEW types, Takes(k, types),
           UNCHANGED <<past, down>>,
           NEW F2 \in SUBSET follows[k], follows' = [follows EXCEPT ![k] = F2],
           StillFollows(k, F2),
           \A g \in Gen : /\ room[g].log \in {0, room'[g].log}
                          /\ room[g].moved => room'[g].moved
                          /\ RoomOK(g)'
    PROVE  Safe'
<1>1. /\ up[k] # <<>> /\ up' = [up EXCEPT ![k] = Tail(@)]
      /\ UNCHANGED <<session, file, cur, linked>>
  BY TakesParts
<1>2. ASSUME NEW g \in Gen PROVE GoesOn(past[g], room[g], past'[g], room'[g])
  <2>1. GoesOn(past[g], room[g], past[g], room[g])
    BY Parts, GoesOnSame
  <2> QED
    BY <2>1 DEF GoesOn
<1>3. ASSUME NEW d \in Device, linked[d] PROVE Held(d)'
  <2> DEFINE s == session[d]
             c == here(d)
             U == up[c]
             D == down[d]
             F == follows[c]
             G == follows'[c]
             log == past[s.gen]
             row == room[s.gen]
             later == room'[s.gen]
  <2>1. /\ s \in Session /\ s.gen \in Gen /\ c \in Socket /\ U \in Seq(Frame)
        /\ D \in Seq(Answer) /\ log \in Seq(SUBSET Op)
    BY Parts
  <2>2. /\ c = k => StillFollows(k, G)
        /\ c # k => G = F
        /\ s.gen \in G => s.gen \in F
    BY <2>1 DEF TypeOK
  <2>3. ASSUME s.on PROVE Conn(s, up'[c], D, G, log, later)
    <3>1. Conn(s, U, D, F, log, row)
      BY <2>3, <1>3 DEF Safe, WireOK, Held
    <3>2. GoesOn(log, row, log, later)
      BY <1>2, <2>1
    <3>3. CASE c = k
      <4>1. up'[c] = Tail(U) /\ U # <<>>
        BY <1>1, <3>3 DEF TypeOK
      <4> HIDE DEF s, U, D, F, G, log, row, later
      <4>2. Conn(s, Tail(U), D, G, log, row)
        BY <2>1, <2>2, <3>1, <4>1, ConnTaken
      <4>3. Conn(s, Tail(U), D, G, log, later)
        BY <2>1, <3>2, <4>2, ConnGrows
      <4> QED
        BY <4>1, <4>3
    <3>4. CASE c # k
      <4>1. up'[c] = U /\ G = F
        BY <1>1, <3>4, <2>2 DEF TypeOK
      <4> HIDE DEF s, U, D, F, G, log, row, later
      <4>2. Conn(s, U, D, F, log, later)
        BY <2>1, <3>1, <3>2, ConnGrows
      <4> QED
        BY <4>1, <4>2
    <3> QED
      BY <3>3, <3>4
  <2>4. s.on => Conn(s, up'[c], down'[d], G, past'[s.gen], room'[s.gen])
    BY <2>3
  <2> QED
    BY <1>1, <1>3, <2>1, <2>2, <2>4, HeldParts
<1>4. \A d \in Device : IF linked[d] THEN Held(d)' ELSE down'[d] = down[d]
  BY <1>3
<1> QED
  BY <1>1, <1>2, <1>4, HubFrame

(* What a device is told by the hub once this step is over.                 *)
LEMMA DeliverParts ==
    ASSUME TypeOK, NEW k \in Socket, NEW answers, NEW g, NEW fanout,
           Deliver(k, answers, g, fanout), NEW d \in Device
    PROVE  /\ ~linked[d] => down'[d] = down[d]
           /\ linked[d] /\ here(d) = k => down'[d] = down[d] \o answers
           /\ linked[d] /\ here(d) # k /\ g \in follows[here(d)] =>
                 down'[d] = down[d] \o fanout
           /\ linked[d] /\ here(d) # k /\ g \notin follows[here(d)] => down'[d] = down[d]
BY DEF Deliver

(* The hub answers a frame, and nothing else changes.                       *)
LEMMA AnsweredStep ==
    ASSUME TypeOK, TypeOK', Safe, NEW k \in Socket, NEW types, Takes(k, types),
           UNCHANGED hub,
           NEW F2 \in SUBSET Gen, follows' = [follows EXCEPT ![k] = F2],
           StillFollows(k, F2),
           NEW a \in Answer, a.gen = Head(up[k]).gen, Deliver(k, <<a>>, a.gen, <<>>),
           \A d \in Device : linked[d] /\ here(d) = k /\ session[d].on
                                /\ session[d].gen = a.gen =>
              /\ DownOK(session[d], a, past[a.gen], room[a.gen])
              /\ \/ a.type = "State" /\ pos(a) = Len(past[a.gen])
                 \/ a.type = "Moved"
    PROVE  Safe'
<1>1. /\ up[k] # <<>> /\ up' = [up EXCEPT ![k] = Tail(@)]
      /\ UNCHANGED <<session, file, cur, linked>>
  BY TakesParts
<1>2. ASSUME NEW g \in Gen
      PROVE  GoesOn(past[g], room[g], past'[g], room'[g]) /\ RoomOK(g)'
  <2>1. GoesOn(past[g], room[g], past[g], room[g])
    BY Parts, GoesOnSame
  <2>2. past' = past /\ room' = room
    BY DEF hub
  <2>3. RoomOK(g)
    BY DEF Safe
  <2> QED
    BY <2>1, <2>2, <2>3 DEF RoomOK
<1>3. ASSUME NEW d \in Device, linked[d] PROVE Held(d)'
  <2> DEFINE s == session[d]
             c == here(d)
             U == up[c]
             D == down[d]
             F == follows[c]
             G == follows'[c]
             log == past[s.gen]
             row == room[s.gen]
  <2>1. /\ s \in Session /\ s.gen \in Gen /\ c \in Socket /\ U \in Seq(Frame)
        /\ D \in Seq(Answer) /\ log \in Seq(SUBSET Op) /\ row \in Row /\ F \in SUBSET Gen
    BY Parts
  <2>2. /\ c = k => StillFollows(k, G)
        /\ c # k => G = F
    BY <2>1 DEF TypeOK
  <2>3. ASSUME s.on PROVE Conn(s, up'[c], down'[d], G, log, row)
    <3>1. Conn(s, U, D, F, log, row)
      BY <2>3, <1>3 DEF Safe, WireOK, Held
    <3>2. GoesOn(log, row, log, row)
      BY <2>1, GoesOnSame
    <3>3. CASE c = k
      <4>0. down'[d] = D \o <<a>>
        BY <1>3, <3>3, DeliverParts
      <4>1. /\ up'[c] = Tail(U) /\ U # <<>> /\ down'[d] = D \o <<a>>
            /\ a.gen = Head(U).gen
        BY <1>1, <2>1, <3>3, <4>0 DEF TypeOK
      <4>2. CASE a.gen = s.gen
        <5>1. /\ DownOK(s, a, log, row)
              /\ (a.type = "State" /\ pos(a) = Len(log)) \/ a.type = "Moved"
          BY <1>3, <2>3, <3>3, <4>2
        <5> HIDE DEF s, U, D, F, G, log, row
        <5>2. Conn(s, Tail(U), D \o <<a>>, G, log, row)
          BY <2>1, <3>1, <3>2, <4>1, <4>2, <5>1, ConnAnswered
        <5> QED
          BY <4>1, <5>2
      <4>3. CASE a.gen # s.gen
        <5>1. s.gen \in G => s.gen \in F
          BY <2>2, <3>3, <4>1, <4>3 DEF StillFollows
        <5> HIDE DEF s, U, D, F, G, log, row
        <5>2. Conn(s, Tail(U), D \o <<a>>, G, log, row)
          BY <2>1, <3>1, <4>1, <4>3, <5>1, ConnOtherAnswered
        <5> QED
          BY <4>1, <5>2
      <4> QED
        BY <4>2, <4>3
    <3>4. CASE c # k
      <4>1. down'[d] = D \o <<>> \/ down'[d] = D
        BY <1>3, <3>4, DeliverParts
      <4>2. down'[d] = D
        BY <2>1, <4>1
      <4>3. up'[c] = U /\ G = F
        BY <1>1, <3>4, <2>2 DEF TypeOK
      <4> QED
        BY <3>1, <4>2, <4>3
    <3> QED
      BY <3>3, <3>4
  <2>4. past' = past /\ room' = room
    BY DEF hub
  <2>5. s.on => Conn(s, up'[c], down'[d], G, past'[s.gen], room'[s.gen])
    BY <2>3, <2>4
  <2> QED
    BY <1>1, <1>3, <2>1, <2>2, <2>5, HeldParts
<1>4. \A d \in Device : IF linked[d] THEN Held(d)' ELSE down'[d] = down[d]
  BY <1>3, DeliverParts
<1> QED
  BY <1>1, <1>2, <1>4, HubFrame

(* A room that has not moved answers what it is.                            *)
LEMMA StateAnswer ==
    ASSUME TypeOK, Safe, NEW d \in Device, linked[d], session[d].on,
           NEW since \in Nat, since <= session[d].seq, ~room[session[d].gen].moved
    PROVE  LET g == session[d].gen
               a == State(g, since)
           IN  DownOK(session[d], a, past[g], room[g]) /\ a.type = "State"
                  /\ pos(a) = Len(past[g])
<1> DEFINE s == session[d]
           g == session[d].gen
           a == State(g, since)
           log == past[g]
           row == room[g]
<1>1. s \in Session /\ g \in Gen /\ log \in Seq(SUBSET Op) /\ row \in Row
  BY Parts
<1>2. RowIsLog(row, log) /\ LocalOK(s, log, row)
  BY <1>1 DEF Safe, RoomOK, SessionOK
<1>3. s.seq <= Len(log) /\ s.known <= Len(log) /\ s.seq \in Nat /\ s.known \in Nat
  BY <1>1, <1>2, SessionFields DEF LocalOK, PlaceOK
<1>4. /\ a.type = "State" /\ a.gen = s.gen /\ a.head = state(row, since).head
      /\ a.log = state(row, since).log /\ a.ops = state(row, since).ops
  BY DEF State
<1>5. a \in Answer
  <2>1. /\ state(row, since).head = Len(log) /\ state(row, since).log = row.log
        /\ state(row, since).ops \subseteq first(log, Len(log))
    BY <1>1, <1>2, StateIsLog
  <2>2. state(row, since).whole \in BOOLEAN /\ state(row, since).count \in Nat
        /\ state(row, since).ops \in SUBSET Op
    <3> DEFINE from == IF since < row.snapSeq THEN row.snapSeq ELSE since
    <3>1. row.snapSeq \in Nat /\ head(row) = Len(log) /\ Len(log) \in Nat
      BY <1>1, <1>2, RowFields
    <3>2. from \in Nat
      BY <3>1
    <3>3. state(row, since).whole = (since < row.snapSeq)
          /\ state(row, since).count = IF from < head(row) THEN head(row) - from ELSE 0
      BY DEF state
    <3> HIDE DEF from
    <3>4. state(row, since).count \in Nat
      BY <3>1, <3>2, <3>3
    <3>5. first(log, Len(log)) \subseteq Op
      BY <1>1 DEF first
    <3> QED
      BY <2>1, <3>3, <3>4, <3>5
  <2>3. row.log \in Nat /\ Len(log) \in Nat
    BY <1>1 DEF Row
  <2> QED
    BY <1>1, <2>1, <2>2, <2>3 DEF State, Answer, StateFrame
<1> HIDE DEF s, g, a, log, row
<1>6. since <= s.seq
  BY DEF s
<1>7. DownOK(s, a, log, row) /\ pos(a) = Len(log)
  BY <1>1, <1>2, <1>3, <1>4, <1>5, <1>6, StateDown
<1> QED
  BY <1>4, <1>7 DEF s, g, a, log, row

(* The hub changes a room, answers the sender and tells its followers.      *)
LEMMA ToldStep ==
    ASSUME TypeOK, TypeOK', Safe, NEW k \in Socket, NEW types, Takes(k, types),
           NEW g \in Gen, g = Head(up[k]).gen, g \in follows[k], Head(up[k]).type # "Unsub",
           UNCHANGED follows,
           NEW a \in Answer, NEW b \in Answer, a.gen = g, b.gen = g, Deliver(k, <<a>>, g, <<b>>),
           \A h \in Gen : GoesOn(past[h], room[h], past'[h], room'[h]) /\ RoomOK(h)',
           \A d \in Device : session[d].on /\ session[d].gen # g =>
              /\ past'[session[d].gen] = past[session[d].gen]
              /\ room'[session[d].gen] = room[session[d].gen],
           \A d \in Device : linked[d] /\ here(d) = k /\ session[d].on
                                /\ session[d].gen = g =>
              /\ DownOK(session[d], a, past'[g], room'[g])
              /\ \/ /\ a.type = "Echo" /\ pos(a) = Len(past'[g]) /\ ~room[g].moved
                    /\ Len(past'[g]) = Len(past[g]) + 1
                 \/ a.type = "Moved",
           \A d \in Device : session[d].on /\ session[d].gen = g =>
              /\ DownOK(session[d], b, past'[g], room'[g])
              /\ \/ /\ b.type = "Fanout" /\ pos(b) = Len(past'[g]) /\ ~room[g].moved
                    /\ Len(past'[g]) = Len(past[g]) + 1
                 \/ b.type = "Moved" /\ room'[g].moved
    PROVE  Safe'
<1>1. /\ up[k] # <<>> /\ up' = [up EXCEPT ![k] = Tail(@)]
      /\ UNCHANGED <<session, file, cur, linked>>
  BY TakesParts
<1>2. StillFollows(k, follows[k])
  BY SMTT(40) DEF StillFollows, Unsub
<1>3. ASSUME NEW d \in Device, linked[d] PROVE Held(d)'
  <2> DEFINE s == session[d]
             c == here(d)
             U == up[c]
             D == down[d]
             F == follows[c]
             log == past[s.gen]
             row == room[s.gen]
             longer == past'[s.gen]
             later == room'[s.gen]
  <2>1. /\ s \in Session /\ s.gen \in Gen /\ c \in Socket /\ U \in Seq(Frame)
        /\ D \in Seq(Answer) /\ log \in Seq(SUBSET Op) /\ row \in Row /\ F \in SUBSET Gen
        /\ longer \in Seq(SUBSET Op) /\ GoesOn(log, row, longer, later)
    BY Parts, PartsNext
  <2>2. follows'[c] = F
    OBVIOUS
  <2>3. ASSUME s.on PROVE Conn(s, up'[c], down'[d], F, longer, later)
    <3>1. Conn(s, U, D, F, log, row)
      BY <2>3, <1>3 DEF Safe, WireOK, Held
    <3>2. LeavesOK(s, U, F)
      BY <1>3 DEF Safe, WireOK, Held
    <3>3. s.gen # g => longer = log /\ later = row
      BY <2>3
    <3>4. CASE c = k
      <4>1. down'[d] = D \o <<a>>
        BY <1>3, <3>4, DeliverParts, ZenonT(60)
      <4>2. up'[c] = Tail(U) /\ U # <<>> /\ a.gen = Head(U).gen /\ g \in F
        BY <1>1, <2>1, <3>4 DEF TypeOK
      <4>3. CASE s.gen = g
        <5>1. /\ DownOK(s, a, longer, later)
              /\ \/ /\ a.type = "Echo" /\ pos(a) = Len(longer) /\ ~row.moved
                    /\ Len(longer) = Len(log) + 1
                 \/ a.type = "Moved"
          BY <1>3, <2>3, <3>4, <4>3
        <5> HIDE DEF s, U, D, F, log, row, longer, later
        <5>3. /\ Head(U).gen = s.gen /\ a.gen = s.gen
              /\ \/ a.type = "State" /\ pos(a) = Len(longer)
                 \/ /\ a.type = "Echo" /\ pos(a) = Len(longer)
                    /\ s.gen \in F /\ ~row.moved /\ Len(longer) = Len(log) + 1
                 \/ a.type = "Moved"
          BY <4>2, <4>3, <5>1
        <5>2. Conn(s, Tail(U), D \o <<a>>, F, longer, later)
          BY <2>1, <3>1, <4>2, <5>1, <5>3, ConnAnswered
        <5> QED
          BY <4>1, <4>2, <5>2
      <4>4. CASE s.gen # g
        <5> HIDE DEF s, U, D, F, log, row, longer, later
        <5>1. Conn(s, Tail(U), D \o <<a>>, F, log, row)
          BY <2>1, <3>1, <4>2, <4>4, ConnOtherAnswered
        <5> QED
          BY <3>3, <4>1, <4>2, <4>4, <5>1
      <4> QED
        BY <4>3, <4>4
    <3>5. CASE c # k
      <4>1. up'[c] = U
        BY <1>1, <3>5 DEF TypeOK
      <4>2. CASE g \in F
        <5>1. down'[d] = D \o <<b>>
          BY <1>3, <3>5, <4>2, DeliverParts, SMTT(40)
        <5>2. CASE s.gen = g
          <6>1. /\ DownOK(s, b, longer, later)
                /\ \/ /\ b.type = "Fanout" /\ pos(b) = Len(longer) /\ ~row.moved
                      /\ Len(longer) = Len(log) + 1
                   \/ b.type = "Moved" /\ later.moved
            BY <2>3, <5>2
          <6> HIDE DEF s, U, D, F, log, row, longer, later
          <6>2. /\ ~isAnswer(s, b)
                /\ isNews(s, b) => ~row.moved /\ pos(b) = Len(longer)
                                      /\ Len(longer) = Len(log) + 1
                /\ ~isNews(s, b) => longer = log \/ later.moved
            BY <5>2, <6>1 DEF isAnswer, isNews
          <6>3. Conn(s, U, D \o <<b>>, F, longer, later)
            BY <2>1, <3>1, <4>2, <5>2, <6>1, <6>2, ConnTold
          <6> QED
            BY <4>1, <5>1, <6>3
        <5>3. CASE s.gen # g
          <6> HIDE DEF s, U, D, F, log, row, longer, later
          <6>1. Conn(s, U, D \o <<b>>, F, log, row)
            BY <2>1, <3>1, <3>2, <4>2, <5>3, ConnOther
          <6> QED
            BY <3>3, <4>1, <5>1, <5>3, <6>1
        <5> QED
          BY <5>2, <5>3
      <4>3. CASE g \notin F
        <5>1. down'[d] = D
          BY <1>3, <3>5, <4>3, DeliverParts
        <5>2. longer = log \/ s.gen \notin F
          BY <3>3, <4>3
        <5> HIDE DEF s, U, D, F, log, row, longer, later
        <5>3. Conn(s, U, D, F, longer, later)
          BY <2>1, <3>1, <5>2, ConnGrows
        <5> QED
          BY <4>1, <5>1, <5>3
      <4> QED
        BY <4>2, <4>3
    <3> QED
      BY <3>4, <3>5
  <2>4. /\ c = k => StillFollows(k, F)
        /\ c # k => F = follows[c]
    BY <1>2
  <2>5. s.on => Conn(s, up'[c], down'[d], F, past'[s.gen], room'[s.gen])
    BY <2>3
  <2> QED
    BY <1>1, <1>3, <2>1, <2>2, <2>4, <2>5, HeldParts
<1>4. \A d \in Device : IF linked[d] THEN Held(d)' ELSE down'[d] = down[d]
  BY <1>3, DeliverParts
<1> QED
  BY <1>1, <1>4, HubFrame

(* An unmoved room answers one of the device's frames with what it is, a    *)
(* moved one with its pointer.                                              *)
LEMMA AnswerOfRoom ==
    ASSUME TypeOK, Safe, NEW k \in Socket, up[k] # <<>>, NEW d \in Device, linked[d],
           here(d) = k, session[d].on, session[d].gen = Head(up[k]).gen
    PROVE  LET s == session[d]
               f == Head(up[k])
               g == f.gen
           IN  /\ UpOK(s, f)
               /\ room[g].moved =>
                     DownOK(s, Moved(g), past[g], room[g]) /\ Moved(g).type = "Moved"
               /\ \A since \in Nat : ~room[g].moved /\ since <= s.seq =>
                     /\ DownOK(s, State(g, since), past[g], room[g])
                     /\ State(g, since).type = "State"
                     /\ pos(State(g, since)) = Len(past[g])
<1> DEFINE s == session[d]
           f == Head(up[k])
           g == f.gen
<1>1. UpOK(s, f)
  <2>1. up[k] \in Seq(Frame)
    BY Parts
  <2>2. 1 \in 1..Len(up[k]) /\ f = up[k][1]
    BY <2>1, TailAt
  <2>3. Conn(s, up[k], down[d], follows[k], past[s.gen], room[s.gen])
    BY DEF Safe, WireOK, Held
  <2> QED
    BY <2>2, <2>3 DEF Conn, AsksOK
<1>2. ASSUME room[g].moved
      PROVE  DownOK(s, Moved(g), past[g], room[g]) /\ Moved(g).type = "Moved"
  <2>1. g \in Nat /\ s.gen = g
    BY Parts DEF Gen
  <2> QED
    BY <1>2, <2>1 DEF DownOK, Moved, isNews
<1>3. ASSUME NEW since \in Nat, ~room[g].moved, since <= s.seq
      PROVE  /\ DownOK(s, State(g, since), past[g], room[g])
             /\ State(g, since).type = "State" /\ pos(State(g, since)) = Len(past[g])
  BY <1>3, StateAnswer
<1> QED
  BY <1>1, <1>2, <1>3

(* A pointer or the room, as frames.                                        *)
LEMMA AnswerKinds ==
    ASSUME NEW n \in Nat, TypeTo(n), NEW g \in Gen, NEW k \in Nat
    PROVE  /\ Moved(g) \in Answer /\ Moved(g).gen = g
           /\ State(g, k) \in Answer /\ State(g, k).gen = g
<1>1. Moved(g) \in Answer /\ Moved(g).gen = g /\ State(g, k).gen = g
  BY DEF Moved, Answer, State
<1>2. <<State(g, k)>> \in Seq(AnswerTo(n))
  BY AnswerTypes DEF TypeTo
<1>3. State(g, k) \in AnswerTo(n)
  BY <1>2
<1> QED
  BY <1>1, <1>3, AnswerToIsAnswer

(* Sub: the socket follows the room and is told what it is.                 *)
LEMMA SubSafe ==
    ASSUME NEW n \in Nat, TypeTo(n), TypeOK, TypeOK', Safe, NEW k \in Socket, HubSub(k)
    PROVE  Safe'
<1> DEFINE f == Head(up[k])
           g == f.gen
           moved == room[g].moved
           a == IF moved THEN Moved(g) ELSE State(g, f.since)
           F2 == IF moved THEN follows[k] ELSE follows[k] \cup {g}
<1>1. Takes(k, {"Sub"})
  BY DEF HubSub
<1>2. /\ up[k] # <<>> /\ f \in Frame /\ g \in Gen /\ f.type = "Sub"
      /\ UNCHANGED <<session, file, cur, linked>>
  BY <1>1, TakesParts
<1>3. f.since \in Nat
  BY <1>2 DEF Frame
<1>4. F2 \in SUBSET Gen /\ follows' = [follows EXCEPT ![k] = F2]
  <2>1. follows[k] \in SUBSET Gen /\ moved \in BOOLEAN
    BY <1>2, Parts DEF Row
  <2> QED
    BY <1>2, <2>1 DEF HubSub
<1>5. StillFollows(k, F2)
  BY <1>2 DEF StillFollows, Unsub
<1>6. a \in Answer /\ a.gen = g
  BY <1>2, <1>3, AnswerKinds
<1>7. Deliver(k, <<a>>, a.gen, <<>>) /\ UNCHANGED hub
  BY <1>6, SMTT(40) DEF HubSub
<1>8. ASSUME NEW d \in Device, linked[d], here(d) = k, session[d].on, session[d].gen = a.gen
      PROVE  /\ DownOK(session[d], a, past[a.gen], room[a.gen])
             /\ (a.type = "State" /\ pos(a) = Len(past[a.gen])) \/ a.type = "Moved"
  <2>1. CASE moved
    BY <1>2, <1>6, <1>8, <2>1, AnswerOfRoom
  <2>2. CASE ~moved
    <3>1. f.since <= session[d].seq
      BY <1>2, <1>6, <1>8, AnswerOfRoom DEF UpOK
    <3> QED
      BY <1>2, <1>3, <1>6, <1>8, <2>2, <3>1, AnswerOfRoom, SMTT(40)
  <2> QED
    BY <2>1, <2>2
<1> HIDE DEF f, g, a, F2
<1> QED
  BY <1>1, <1>4, <1>5, <1>6, <1>7, <1>8, AnsweredStep DEF f, g

(* A room's pointer, or the room instead of what was asked.                 *)
LEMMA InsteadSafe ==
    ASSUME NEW n \in Nat, TypeTo(n), TypeOK, TypeOK', Safe, NEW k \in Socket,
           NEW types \in SUBSET {"Seed", "Update", "Snapshot", "Rotate"}, Takes(k, types),
           UNCHANGED <<hub, follows>>, NEW since \in Nat,
           Head(up[k]).type = "Rotate" => since = Head(up[k]).upto,
           Head(up[k]).type # "Rotate" => since = 0,
           Deliver(k, <<IF room[Head(up[k]).gen].moved THEN Moved(Head(up[k]).gen)
                        ELSE State(Head(up[k]).gen, since)>>, Head(up[k]).gen, <<>>)
    PROVE  Safe'
<1> DEFINE f == Head(up[k])
           g == f.gen
           moved == room[g].moved
           a == IF moved THEN Moved(g) ELSE State(g, since)
<1>1. /\ up[k] # <<>> /\ f \in Frame /\ g \in Gen /\ f.type \in types
      /\ UNCHANGED <<session, file, cur, linked>>
  BY TakesParts
<1>2. follows[k] \in SUBSET Gen /\ follows' = [follows EXCEPT ![k] = follows[k]]
  BY DEF TypeOK
<1>3. StillFollows(k, follows[k])
  BY <1>1 DEF StillFollows, Unsub
<1>4. a \in Answer /\ a.gen = g
  BY <1>1, AnswerKinds
<1>5. Deliver(k, <<a>>, a.gen, <<>>) /\ UNCHANGED hub
  BY <1>4, SMTT(40)
<1>6. ASSUME NEW d \in Device, linked[d], here(d) = k, session[d].on, session[d].gen = a.gen
      PROVE  /\ DownOK(session[d], a, past[a.gen], room[a.gen])
             /\ (a.type = "State" /\ pos(a) = Len(past[a.gen])) \/ a.type = "Moved"
  <2>1. CASE moved
    BY <1>1, <1>4, <1>6, <2>1, AnswerOfRoom
  <2>2. CASE ~moved
    <3>1. f.type = "Rotate" => since <= session[d].seq
      BY <1>1, <1>4, <1>6, AnswerOfRoom DEF UpOK
    <3>2. session[d].seq \in Nat
      BY Parts, SessionFields
    <3>3. since <= session[d].seq
      BY <3>1, <3>2
    <3> QED
      BY <1>1, <1>4, <1>6, <2>2, <3>3, AnswerOfRoom, SMTT(40)
  <2> QED
    BY <2>1, <2>2
<1> HIDE DEF f, g, a
<1> QED
  BY <1>2, <1>3, <1>4, <1>5, <1>6, AnsweredStep DEF f, g

(* A moved room answers its pointer.                                        *)
LEMMA SendsMovedSafe ==
    ASSUME NEW n \in Nat, TypeTo(n), TypeOK, TypeOK', Safe, NEW k \in Socket, HubSendsMoved(k)
    PROVE  Safe'
<1> DEFINE f == Head(up[k])
<1>1. Takes(k, {"Seed", "Update", "Snapshot", "Rotate"}) /\ UNCHANGED <<hub, follows>>
      /\ room[f.gen].moved /\ Deliver(k, <<Moved(f.gen)>>, f.gen, <<>>)
  BY DEF HubSendsMoved
<1>2. f \in Frame
  BY <1>1, TakesParts
<1>3. PICK since \in Nat : /\ f.type = "Rotate" => since = f.upto
                           /\ f.type # "Rotate" => since = 0
  <2>1. CASE f.type = "Rotate"
    BY <1>2, <2>1 DEF Frame
  <2>2. CASE f.type # "Rotate"
    BY <2>2
  <2> QED
    BY <2>1, <2>2
<1> QED
  BY <1>1, <1>3, InsteadSafe

(* The room itself, instead of what was asked.                              *)
LEMMA RefusedSafe ==
    ASSUME NEW n \in Nat, TypeTo(n), TypeOK, TypeOK', Safe, NEW k \in Socket,
           NEW type \in {"Seed", "Rotate"}, TakesLive(k, type), UNCHANGED hub,
           NEW since \in Nat, type = "Rotate" => since = Head(up[k]).upto,
           type = "Seed" => since = 0,
           Deliver(k, <<State(Head(up[k]).gen, since)>>, Head(up[k]).gen, <<>>)
    PROVE  Safe'
<1>1. /\ Takes(k, {type}) /\ UNCHANGED follows /\ ~room[Head(up[k]).gen].moved
      /\ {type} \in SUBSET {"Seed", "Update", "Snapshot", "Rotate"}
  BY DEF TakesLive
<1>2. Head(up[k]).type = type
  BY <1>1, TakesParts
<1> QED
  BY <1>1, <1>2, InsteadSafe

(* Steps that neither log nor answer.                                       *)
LEMMA RoomStays ==
    ASSUME TypeOK, TypeOK', NEW g \in Gen, RoomOK(g), room[g].moved,
           room'[g] = room[g], past'[g] = past[g],
           g + 1 \in Gen => Grows(past[g + 1], past'[g + 1])
    PROVE  RoomOK(g)'
<1>1. /\ g + 1 \in Gen /\ past[g + 1] # <<>>
      /\ Text(merged(past[g])) \subseteq Text(past[g + 1][1])
  BY DEF RoomOK
<1>2. past[g + 1] \in Seq(SUBSET Op) /\ past'[g + 1] \in Seq(SUBSET Op)
  BY <1>1, Parts, PartsNext
<1>3. Len(past[g + 1]) \in Nat /\ Len(past[g + 1]) # 0
  BY <1>1, <1>2
<1>4. 1 \in 1..Len(past[g + 1]) /\ past'[g + 1][1] = past[g + 1][1] /\ past'[g + 1] # <<>>
  BY <1>1, <1>2, <1>3 DEF Grows
<1> QED
  BY <1>1, <1>4 DEF RoomOK

(* Unsub, a frame of a room not followed, a write over the rate.            *)
LEMMA SkippedSafe ==
    ASSUME TypeOK, TypeOK', Safe, NEW k \in Socket, HubUnsub(k) \/ HubIgnores(k) \/ HubOver(k)
    PROVE  Safe'
<1> DEFINE f == Head(up[k])
<1>1. PICK types : Takes(k, types) /\ "Sub" \notin types
  BY DEF HubUnsub, HubIgnores, HubOver
<1>2. f \in Frame /\ f.type # "Sub" /\ up[k] # <<>>
  BY <1>1, TakesParts
<1>3. UNCHANGED <<hub, down>>
  BY DEF HubUnsub, HubIgnores, HubOver
<1>4. PICK F2 \in SUBSET follows[k] :
          follows' = [follows EXCEPT ![k] = F2] /\ StillFollows(k, F2)
  <2>1. follows = [follows EXCEPT ![k] = follows[k]]
    BY DEF TypeOK
  <2>2. CASE HubUnsub(k)
    <3>1. follows' = [follows EXCEPT ![k] = follows[k] \ {f.gen}]
      BY <2>2 DEF HubUnsub
    <3>2. StillFollows(k, follows[k] \ {f.gen})
      BY DEF StillFollows, Unsub
    <3> QED
      BY <3>1, <3>2
  <2>3. CASE HubIgnores(k)
    <3>1. StillFollows(k, follows[k])
      BY <2>3 DEF StillFollows, Unsub, HubIgnores
    <3> QED
      BY <2>1, <2>3, <3>1 DEF HubIgnores
  <2>4. CASE HubOver(k)
    <3>1. f.type \in {"Update", "Snapshot", "Rotate"}
      BY <2>4 DEF HubOver, Takes
    <3>2. StillFollows(k, follows[k])
      BY <3>1 DEF StillFollows, Unsub
    <3> QED
      BY <2>1, <2>4, <3>2 DEF HubOver
  <2> QED
    BY <2>2, <2>3, <2>4
<1>5. ASSUME NEW g \in Gen
      PROVE  /\ room[g].log \in {0, room'[g].log}
             /\ room[g].moved => room'[g].moved
             /\ RoomOK(g)'
  <2>1. RoomOK(g) /\ room' = room /\ past' = past
    BY <1>3 DEF Safe, hub
  <2> QED
    BY <2>1 DEF RoomOK
<1> QED
  BY <1>1, <1>3, <1>4, <1>5, QuietStep DEF hub

(* A snapshot, however late and whoever took it.                            *)
LEMMA SnapshotSafe ==
    ASSUME TypeOK, TypeOK', Safe, NEW k \in Socket, HubSnapshot(k) PROVE Safe'
<1> DEFINE f == Head(up[k])
           h == f.gen
           row == room[h]
           log == past[h]
           new == IF exists(row) THEN compact(row, f.upto, f.ops) ELSE row
<1>1. Takes(k, {"Snapshot"}) /\ ~row.moved /\ UNCHANGED follows
  BY DEF HubSnapshot, TakesLive
<1>2. f \in Frame /\ h \in Gen /\ f.type = "Snapshot" /\ CopyOK(f, log)
  BY <1>1, TakesParts
<1>3. UNCHANGED <<past, down>> /\ room' = [room EXCEPT ![h] = new]
  BY DEF HubSnapshot
<1>4. PICK F2 \in SUBSET follows[k] :
          follows' = [follows EXCEPT ![k] = F2] /\ StillFollows(k, F2)
  <2>1. follows' = [follows EXCEPT ![k] = follows[k]] /\ StillFollows(k, follows[k])
    BY <1>1, <1>2 DEF TypeOK, StillFollows, Unsub
  <2> QED
    BY <2>1
<1>5. row \in Row /\ log \in Seq(SUBSET Op) /\ RowIsLog(row, log)
  BY <1>1, <1>2, Parts DEF Safe, RoomOK
<1>6. f.upto \in Nat /\ f.upto <= Len(log) /\ f.ops = first(log, f.upto)
  BY <1>2 DEF CopyOK, Frame
<1>7. f.upto \in 0..Len(log)
  BY <1>5, <1>6
<1>8. RowIsLog(new, log)
  BY <1>5, <1>6, <1>7, RowCompact
<1>9. new.log = row.log /\ new.moved = row.moved
  BY <1>5 DEF compact, Row
<1> HIDE DEF new
<1>10. ASSUME NEW g \in Gen
       PROVE  /\ room[g].log \in {0, room'[g].log}
              /\ room[g].moved => room'[g].moved
              /\ RoomOK(g)'
  <2>1. CASE g = h
    <3>1. room'[g] = new /\ past'[g] = log
      BY <1>3, <2>1 DEF TypeOK
    <3> QED
      BY <1>1, <1>8, <1>9, <2>1, <3>1 DEF RoomOK
  <2>2. CASE g # h
    <3>1. room'[g] = room[g] /\ past' = past
      BY <1>3, <2>2 DEF TypeOK
    <3>2. RoomOK(g)
      BY DEF Safe
    <3> QED
      BY <3>1, <3>2 DEF RoomOK
  <2> QED
    BY <2>1, <2>2
<1> HIDE DEF f, h, row, log
<1> QED
  BY <1>1, <1>3, <1>4, <1>10, QuietStep

-----------------------------------------------------------------------------
(* An update, or a text for an empty room, is logged.                       *)

(* A log and the log with one update more.                                  *)
LEMMA LogAdd ==
    ASSUME NEW log \in Seq(SUBSET Op), NEW ops \in SUBSET Op
    PROVE  /\ Append(log, ops) \in Seq(SUBSET Op) /\ Append(log, ops) # <<>>
           /\ Len(Append(log, ops)) = Len(log) + 1 /\ Append(log, ops)[Len(log) + 1] = ops
           /\ Grows(log, Append(log, ops))
BY DEF Grows

(* The echo of what a device sent is in order.                              *)
LEMMA EchoDown ==
    ASSUME NEW s \in Session, NEW log \in Seq(SUBSET Op), NEW row,
           NEW ops \in SUBSET Op, NEW m \in Nat, s.seq <= Len(log),
           s.joined => /\ ops \subseteq s.doc /\ m <= s.sent
                       /\ \A u \in s.unacked : u.n = m => u.ops \subseteq ops,
           ~s.joined => log = <<>> /\ s.seed = {ops}
    PROVE  DownOK(s, Echo(s.gen, Len(log) + 1, m), Append(log, ops), row)
<1> DEFINE a == Echo(s.gen, Len(log) + 1, m)
           longer == Append(log, ops)
           k == Len(log)
<1>1. Len(longer) = k + 1 /\ longer[k + 1] = ops /\ k \in Nat
  BY LogAdd
<1>2. /\ a.type = "Echo" /\ a.gen = s.gen /\ a.seq = k + 1 /\ a.n = m
      /\ pos(a) = k + 1
  BY DEF Echo, pos
<1>3. s.gen \in Nat /\ s.seq \in Nat /\ s.joined \in BOOLEAN
  BY SessionFields
<1>4. s.seq <= k + 1
  BY <1>1, <1>3
<1>5. k + 1 >= 1
  BY <1>1
<1>6. ~s.joined => k + 1 = 1
  <2>1. log = <<>> => k = 0
    OBVIOUS
  <2> QED
    BY <2>1
<1>7. ~s.joined => longer[1] = ops
  BY <1>1, <1>6
<1> HIDE DEF a, longer, k
<1>8. DownOK(s, a, longer, row)
  BY <1>1, <1>2, <1>3, <1>4, <1>5, <1>6, <1>7 DEF DownOK, isNews
<1> QED
  BY <1>8 DEF a, longer, k

(* What the room's other followers are told is in order.                    *)
LEMMA FanoutDown ==
    ASSUME NEW s \in Session, NEW log \in Seq(SUBSET Op), NEW row,
           NEW ops \in SUBSET Op, s.seq <= Len(log)
    PROVE  DownOK(s, Fanout(s.gen, Len(log) + 1, ops), Append(log, ops), row)
<1> DEFINE b == Fanout(s.gen, Len(log) + 1, ops)
           longer == Append(log, ops)
           k == Len(log)
<1>1. Len(longer) = k + 1 /\ longer[k + 1] = ops /\ k \in Nat
  BY LogAdd
<1>2. /\ b.type = "Fanout" /\ b.gen = s.gen /\ b.seq = k + 1 /\ b.ops = ops
      /\ pos(b) = k + 1
  BY DEF Fanout, pos
<1>3. s.gen \in Nat /\ s.seq \in Nat
  BY SessionFields
<1>4. s.seq <= k + 1 /\ k + 1 >= 1
  BY <1>1, <1>3
<1> HIDE DEF b, longer, k
<1>5. DownOK(s, b, longer, row)
  BY <1>1, <1>2, <1>3, <1>4 DEF DownOK, isNews
<1> QED
  BY <1>5 DEF b, longer, k

(* A seed into an empty room, or an update.                                 *)
LEMMA LoggedSafe ==
    ASSUME TypeOK, TypeOK', Safe, NEW k \in Socket,
           NEW type \in {"Seed", "Update"}, TakesLive(k, type),
           NEW m \in Nat, NEW ops \in SUBSET Op, ops = Head(up[k]).ops,
           type = "Seed" => m = 0 /\ ~exists(room[Head(up[k]).gen]),
           type = "Update" => m = Head(up[k]).n,
           Logged(k, Head(up[k]).gen, m, ops)
    PROVE  Safe'
<1> DEFINE f == Head(up[k])
           g == f.gen
           row == room[g]
           log == past[g]
           new == insert(row, ops, names + 1)
           longer == Append(log, ops)
           a == Echo(g, Len(log) + 1, m)
           b == Fanout(g, Len(log) + 1, ops)
<1>1. /\ Takes(k, {type}) /\ g \in follows[k] /\ ~row.moved /\ UNCHANGED follows
  BY DEF TakesLive
<1>2. f \in Frame /\ g \in Gen /\ f.type = type /\ up[k] # <<>>
  BY <1>1, TakesParts
<1>3. row \in Row /\ log \in Seq(SUBSET Op) /\ RowIsLog(row, log)
  BY <1>1, <1>2, Parts DEF Safe, RoomOK
<1>4. room' = [room EXCEPT ![g] = new] /\ past' = [past EXCEPT ![g] = longer]
  BY DEF Logged, Log
<1>5. /\ longer \in Seq(SUBSET Op) /\ Len(longer) = Len(log) + 1 /\ Grows(log, longer)
      /\ Len(log) \in Nat /\ longer # <<>>
  BY <1>3, LogAdd
<1>6. RowIsLog(new, longer)
  <2>1. names + 1 \in Nat \ {0}
    BY DEF TypeOK
  <2> QED
    BY <1>1, <1>3, <2>1, RowInsert
<1>7. new.moved = row.moved /\ row.log \in {0, new.log}
  BY <1>1, <1>3 DEF insert, exists, Row
<1>8. Deliver(k, <<a>>, g, <<b>>)
  <2>1. head(row) = Len(log)
    BY <1>3, RowFields
  <2> QED
    BY <2>1 DEF Logged
<1>9. a \in Answer /\ b \in Answer /\ a.gen = g /\ b.gen = g
  BY <1>2, <1>5 DEF Answer, Echo, Fanout
<1>10. room'[g] = new /\ past'[g] = longer
  BY <1>2, <1>4 DEF TypeOK
<1>11. \A h \in Gen : h # g => room'[h] = room[h] /\ past'[h] = past[h]
  BY <1>4 DEF TypeOK
<1> HIDE DEF new
<1>12. ASSUME NEW h \in Gen PROVE GoesOn(past[h], room[h], past'[h], room'[h])
  <2>1. CASE h = g
    BY <1>1, <1>5, <1>7, <1>10, <2>1 DEF GoesOn
  <2>2. CASE h # g
    BY <1>11, <2>2, Parts, GoesOnSame
  <2> QED
    BY <2>1, <2>2, SMTT(40)
<1>13. ASSUME NEW h \in Gen PROVE RoomOK(h)'
  <2>1. CASE h = g
    BY <1>1, <1>6, <1>7, <1>10, <2>1 DEF RoomOK
  <2>2. CASE h # g
    <3>1. RoomOK(h)
      BY DEF Safe
    <3>2. CASE room[h].moved
      <4>1. h + 1 \in Gen => Grows(past[h + 1], past'[h + 1])
        BY <1>12 DEF GoesOn
      <4> QED
        BY <1>11, <2>2, <3>1, <3>2, <4>1, RoomStays
    <3>3. CASE ~room[h].moved
      BY <1>11, <2>2, <3>1, <3>3 DEF RoomOK
    <3> QED
      BY <3>2, <3>3
  <2> QED
    BY <2>1, <2>2
<1>14. ASSUME NEW d \in Device, session[d].on, session[d].gen = g
       PROVE  session[d] \in Session /\ session[d].seq <= Len(log)
  BY <1>14, Parts DEF Safe, SessionOK, LocalOK, PlaceOK
<1>15. ASSUME NEW d \in Device, linked[d], here(d) = k, session[d].on, session[d].gen = g
       PROVE  DownOK(session[d], a, past'[g], room'[g])
  <2> DEFINE s == session[d]
  <2>1. UpOK(s, f)
    BY <1>2, <1>15, AnswerOfRoom
  <2>2. s \in Session /\ s.seq <= Len(log) /\ s.joined \in BOOLEAN
    BY <1>14, <1>15, SessionFields
  <2>3. s.joined => /\ ops \subseteq s.doc /\ m <= s.sent
                    /\ \A u \in s.unacked : u.n = m => u.ops \subseteq ops
    BY <1>2, <1>15, <2>1 DEF UpOK
  <2>4. ~s.joined => log = <<>> /\ s.seed = {ops}
    <3>1. type = "Seed" => log = <<>>
      BY <1>3 DEF exists, RowIsLog
    <3> QED
      BY <1>2, <1>15, <2>1, <3>1, SMTT(40) DEF UpOK
  <2>5. s.gen = g
    BY <1>15
  <2> HIDE DEF s, g, log
  <2>6. DownOK(s, Echo(s.gen, Len(log) + 1, m), Append(log, ops), room'[g])
    BY <1>3, <2>2, <2>3, <2>4, EchoDown
  <2> QED
    BY <1>10, <2>5, <2>6 DEF s
<1>16. ASSUME NEW d \in Device, session[d].on, session[d].gen = g
       PROVE  DownOK(session[d], b, past'[g], room'[g])
  <2> DEFINE s == session[d]
  <2>1. s \in Session /\ s.seq <= Len(log) /\ s.gen = g
    BY <1>14, <1>16
  <2> HIDE DEF s, g, log
  <2>2. DownOK(s, Fanout(s.gen, Len(log) + 1, ops), Append(log, ops), room'[g])
    BY <1>3, <2>1, FanoutDown
  <2> QED
    BY <1>10, <2>1, <2>2 DEF s
<1>17. /\ a.type = "Echo" /\ pos(a) = Len(past'[g]) /\ b.type = "Fanout"
       /\ pos(b) = Len(past'[g]) /\ Len(past'[g]) = Len(past[g]) + 1
  BY <1>5, <1>10 DEF pos, Echo, Fanout
<1>18. \A h \in Gen : GoesOn(past[h], room[h], past'[h], room'[h]) /\ RoomOK(h)'
  BY <1>12, <1>13
<1>19. \A d \in Device : session[d].on /\ session[d].gen # g =>
          /\ past'[session[d].gen] = past[session[d].gen]
          /\ room'[session[d].gen] = room[session[d].gen]
  BY <1>11, Parts
<1>20. g = Head(up[k]).gen /\ Head(up[k]).type # "Unsub"
  BY <1>2
<1>21. ~room[g].moved
  BY <1>1
<1> HIDE DEF f, g, row, log, longer, a, b
<1> QED
  BY <1>1, <1>2, <1>8, <1>9, <1>15, <1>16, <1>17, <1>18, <1>19, <1>20, <1>21, ToldStep

-----------------------------------------------------------------------------
(* A room is rebuilt as its next generation.                                *)

(* The successor starts with the whole text of the room it succeeds.        *)
LEMMA SuccessorHasIt ==
    ASSUME NEW row \in Row, NEW log \in Seq(SUBSET Op), RowIsLog(row, log),
           NEW f, CopyOK(f, log), f.type = "Rotate", head(row) = f.upto
    PROVE  Text(merged(log)) = Text(f.ops)
<1>1. head(row) = Len(log)
  BY RowFields
<1>2. merged(log) = first(log, Len(log))
  BY MergedIsFirst
<1>3. f.ops = rebuild(merged(log))
  BY <1>1, <1>2 DEF CopyOK
<1>4. merged(log) \in SUBSET Op
  BY SMTT(40) DEF merged
<1> QED
  BY <1>3, <1>4, RebuildText

(* The old room gets its pointer, the next one its text.                    *)
LEMMA RotatedSafe ==
    ASSUME NEW n \in Nat, TypeTo(n), TypeOK, TypeOK', Safe, NEW k \in Socket, HubRotate(k),
           rotates(room[Head(up[k]).gen], room[Head(up[k]).gen + 1], Head(up[k]).upto)
    PROVE  Safe'
<1> DEFINE f == Head(up[k])
           g == f.gen
           t == g + 1
           row == room[g]
           log == past[g]
           next == insert(room[t], f.ops, names + 1)
           a == Moved(g)
<1>1. TakesLive(k, "Rotate")
  BY DEF HubRotate
<1>2. /\ Takes(k, {"Rotate"}) /\ g \in follows[k] /\ ~row.moved /\ UNCHANGED follows
  BY <1>1 DEF TakesLive
<1>3. f \in Frame /\ g \in Gen /\ f.type = "Rotate" /\ up[k] # <<>> /\ CopyOK(f, log)
  BY <1>2, TakesParts
<1>4. t \in Gen /\ t # g /\ f.ops \in SUBSET Op
  <2>1. f \in FrameTo(n)
    BY <1>2, TakesType
  <2>2. g # MaxGen /\ f.ops \in SUBSET Op
    BY <1>3, <2>1 DEF FrameTo, Frame
  <2> QED
    BY <1>3, <2>2, RoomAssumption DEF Gen
<1>5. row \in Row /\ log \in Seq(SUBSET Op) /\ RowIsLog(row, log)
  BY <1>2, <1>3, Parts DEF Safe, RoomOK
<1>6. head(row) = f.upto /\ ~exists(room[t])
  BY DEF rotates, seeds
<1>7. /\ room[t] \in Row /\ ~room[t].moved /\ room[t].log = 0 /\ past[t] = <<>>
      /\ RowIsLog(room[t], past[t])
  <2>1. room[t] \in Row /\ RoomOK(t)
    BY <1>4, Parts DEF Safe
  <2>2. ~room[t].moved /\ room[t].log = 0
    BY <1>6 DEF exists
  <2> QED
    BY <2>1, <2>2 DEF RoomOK, RowIsLog
<1>8. /\ room' = [room EXCEPT ![g] = markMoved(row), ![t] = next]
      /\ past' = [past EXCEPT ![t] = Append(past[t], f.ops)]
      /\ Deliver(k, <<a>>, g, <<a>>)
  BY <1>4, SMTT(40) DEF HubRotate, TypeOK
<1>9. /\ room'[g] = markMoved(row) /\ past'[g] = log /\ room'[t] = next
      /\ past'[t] = Append(past[t], f.ops)
      /\ \A h \in Gen : h # g /\ h # t => room'[h] = room[h] /\ past'[h] = past[h]
  BY <1>3, <1>4, <1>8 DEF TypeOK
<1>10. /\ past'[t] # <<>> /\ past'[t][1] = f.ops /\ Grows(past[t], past'[t])
  <2>1. past[t] \in Seq(SUBSET Op)
    BY <1>4, Parts
  <2>2. Len(past[t]) = 0 /\ Len(past[t]) + 1 = 1
    BY <1>7
  <2> DEFINE old == past[t]
             ops == f.ops
  <2>3. ops \in SUBSET Op /\ old \in Seq(SUBSET Op) /\ past'[t] = Append(old, ops)
    BY <1>4, <1>9, <2>1
  <2>4. Len(old) + 1 = 1
    BY <2>2
  <2> HIDE DEF old, ops
  <2>5. /\ past'[t] # <<>> /\ past'[t][Len(old) + 1] = ops /\ Grows(old, past'[t])
    BY <2>3, LogAdd
  <2> QED
    BY <2>4, <2>5 DEF old, ops
<1>11. markMoved(row).moved /\ markMoved(row).log = row.log
  BY <1>5 DEF markMoved, Row
<1>12. next.moved = FALSE /\ RowIsLog(next, Append(past[t], f.ops))
  <2>0. names + 1 \in Nat \ {0}
    BY DEF TypeOK
  <2>1. names + 1 \in Nat \ {0} /\ past[t] \in Seq(SUBSET Op)
    BY <1>4, <2>0, Parts
  <2>2. RowIsLog(next, Append(past[t], f.ops))
    BY <1>4, <1>7, <2>1, RowInsert
  <2> QED
    BY <1>7, <2>2 DEF insert, Row
<1> HIDE DEF next
<1>13. ASSUME NEW h \in Gen PROVE GoesOn(past[h], room[h], past'[h], room'[h])
  <2>1. GoesOn(past[h], room[h], past[h], room[h])
    BY Parts, GoesOnSame
  <2>2. CASE h = g
    BY <1>9, <1>11, <2>1, <2>2 DEF GoesOn
  <2>3. CASE h = t
    BY <1>7, <1>10, <2>3 DEF GoesOn
  <2>4. CASE h # g /\ h # t
    BY <1>9, <2>1, <2>4
  <2> QED
    BY <2>2, <2>3, <2>4
<1>14. ASSUME NEW h \in Gen PROVE RoomOK(h)'
  <2>1. CASE h = g
    <3>1. Text(merged(log)) = Text(f.ops)
      BY <1>3, <1>5, <1>6, SuccessorHasIt
    <3> QED
      BY <1>4, <1>9, <1>10, <1>11, <2>1, <3>1 DEF RoomOK
  <2>2. CASE h = t
    BY <1>9, <1>12, <2>2 DEF RoomOK
  <2>3. CASE h # g /\ h # t
    <3>1. RoomOK(h)
      BY DEF Safe
    <3>2. CASE room[h].moved
      <4>1. h + 1 \in Gen => Grows(past[h + 1], past'[h + 1])
        BY <1>13 DEF GoesOn
      <4> QED
        BY <1>9, <2>3, <3>1, <3>2, <4>1, RoomStays
    <3>3. CASE ~room[h].moved
      BY <1>9, <2>3, <3>1, <3>3 DEF RoomOK
    <3> QED
      BY <3>2, <3>3
  <2> QED
    BY <2>1, <2>2, <2>3, SMTT(40)
<1>15. ASSUME NEW d \in Device, session[d].on
       PROVE  session[d] \in Session /\ session[d].gen \in Gen /\ session[d].gen # t
  <2>1. session[d] \in Session /\ session[d].gen \in Gen
    BY Parts
  <2>2. InUse(session[d].gen)
    BY <1>15 DEF Safe, SessionOK
  <2>3. ~InUse(t)
    <3>1. t # 0
      BY <1>3 DEF Gen
    <3> QED
      BY <1>7, <3>1 DEF InUse
  <2> QED
    BY <2>1, <2>2, <2>3
<1>16. a \in Answer /\ a.gen = g /\ a.type = "Moved"
  BY <1>3 DEF Answer, Moved
<1>17. ASSUME NEW d \in Device, session[d].on, session[d].gen = g
       PROVE  DownOK(session[d], a, past'[g], room'[g])
  <2> DEFINE s == session[d]
  <2>1. g \in Nat /\ s.gen = g
    BY <1>3, <1>17 DEF Gen
  <2>2. room'[g].moved
    BY <1>9, <1>11
  <2> HIDE DEF s, g, a
  <2>3. DownOK(s, a, past'[g], room'[g])
    BY <1>16, <2>1, <2>2 DEF DownOK, isNews
  <2> QED
    BY <2>3 DEF s
<1>18. \A h \in Gen : GoesOn(past[h], room[h], past'[h], room'[h]) /\ RoomOK(h)'
  BY <1>13, <1>14
<1>19. \A d \in Device : session[d].on /\ session[d].gen # g =>
          /\ past'[session[d].gen] = past[session[d].gen]
          /\ room'[session[d].gen] = room[session[d].gen]
  BY <1>9, <1>15
<1>20. g = Head(up[k]).gen /\ Head(up[k]).type # "Unsub"
  BY <1>3
<1>21. room'[g].moved
  BY <1>9, <1>11
<1> HIDE DEF f, g, t, row, log, a
<1> QED
  BY <1>2, <1>3, <1>8, <1>16, <1>17, <1>18, <1>19, <1>20, <1>21, ToldStep

(* Whatever the hub does, the invariant is kept.                            *)
LEMMA HubSafe ==
    ASSUME NEW n \in Nat, TypeTo(n), TypeOK, TypeOK', Safe, NEW k \in Socket,
           HubStep(k) \/ HubOver(k)
    PROVE  Safe'
<1> DEFINE f == Head(up[k])
<1>1. CASE HubSub(k)
  BY <1>1, SubSafe
<1>2. CASE HubUnsub(k) \/ HubIgnores(k) \/ HubOver(k)
  BY <1>2, SkippedSafe
<1>3. CASE HubSendsMoved(k)
  BY <1>3, SendsMovedSafe
<1>4. CASE HubSeed(k)
  <2>1. TakesLive(k, "Seed")
    BY <1>4 DEF HubSeed
  <2>2. f \in Frame /\ f.type = "Seed"
    BY <2>1, TakesParts DEF TakesLive
  <2>3. CASE seeds(room[f.gen])
    <3>1. f.ops \in SUBSET Op
      BY <2>2 DEF Frame
    <3>2. Logged(k, f.gen, 0, f.ops) /\ ~exists(room[f.gen])
      BY <1>4, <2>3 DEF HubSeed, seeds
    <3> QED
      BY <2>1, <3>1, <3>2, LoggedSafe
  <2>4. CASE ~seeds(room[f.gen])
    <3>1. Deliver(k, <<State(f.gen, 0)>>, f.gen, <<>>) /\ UNCHANGED hub
      BY <1>4, <2>4 DEF HubSeed
    <3> QED
      BY <2>1, <3>1, RefusedSafe
  <2> QED
    BY <2>3, <2>4
<1>5. CASE HubUpdate(k)
  <2>1. TakesLive(k, "Update") /\ Logged(k, f.gen, f.n, f.ops)
    BY <1>5 DEF HubUpdate
  <2>2. f \in Frame /\ f.type = "Update"
    BY <2>1, TakesParts DEF TakesLive
  <2>3. f.ops \in SUBSET Op /\ f.n \in Nat
    BY <2>2 DEF Frame
  <2> QED
    BY <2>1, <2>3, LoggedSafe
<1>6. CASE HubSnapshot(k)
  BY <1>6, SnapshotSafe
<1>7. CASE HubRotate(k)
  <2>1. TakesLive(k, "Rotate")
    BY <1>7 DEF HubRotate
  <2>2. f \in Frame /\ f.type = "Rotate"
    BY <2>1, TakesParts DEF TakesLive
  <2>3. CASE rotates(room[f.gen], room[f.gen + 1], f.upto)
    BY <1>7, <2>3, RotatedSafe
  <2>4. CASE ~rotates(room[f.gen], room[f.gen + 1], f.upto)
    <3>1. Deliver(k, <<State(f.gen, f.upto)>>, f.gen, <<>>) /\ UNCHANGED hub
      BY <1>7, <2>4 DEF HubRotate
    <3>2. f.upto \in Nat
      BY <2>2 DEF Frame
    <3> QED
      BY <2>1, <3>1, <3>2, RefusedSafe
  <2> QED
    BY <2>3, <2>4
<1> QED
  BY <1>1, <1>2, <1>3, <1>4, <1>5, <1>6, <1>7 DEF HubStep

-----------------------------------------------------------------------------
(* A device's steps.                                                        *)

(* A step of one device leaves the others' sessions and sockets alone.      *)
LEMMA DeviceFrame ==
    ASSUME TypeOK, Safe, NEW d \in Device, UNCHANGED <<room, past>>,
           \A x \in Device \ {d} :
              /\ session'[x] = session[x] /\ down'[x] = down[x] /\ cur'[x] = cur[x]
              /\ linked'[x] = linked[x] /\ unwritten'[x] = unwritten[x]
              /\ stored'[x] = stored[x],
           \A c \in Socket : c[1] # d => up'[c] = up[c] /\ follows'[c] = follows[c],
           CopiesOK', SessionOK(d)', WireOK(d)',
           AgreedOK(unwritten[d])', AgreedOK(stored[d])'
    PROVE  Safe'
<1>1. ASSUME NEW g \in Gen PROVE RoomOK(g)'
  <2>1. RoomOK(g)
    BY DEF Safe
  <2> QED
    BY <2>1 DEF RoomOK
<1>2. ASSUME NEW x \in Device, x # d
      PROVE  /\ SessionOK(x)' /\ WireOK(x)' /\ AgreedOK(unwritten[x])'
             /\ AgreedOK(stored[x])'
  <2>1. /\ session'[x] = session[x] /\ down'[x] = down[x] /\ cur'[x] = cur[x]
        /\ linked'[x] = linked[x] /\ unwritten'[x] = unwritten[x] /\ stored'[x] = stored[x]
    BY <1>2
  <2>2. here(x)' = here(x) /\ here(x) \in Socket /\ here(x)[1] = x
    BY <2>1, Parts DEF here
  <2>3. up'[here(x)] = up[here(x)] /\ follows'[here(x)] = follows[here(x)]
    BY <1>2, <2>2
  <2>4. /\ SessionOK(x) /\ WireOK(x) /\ AgreedOK(unwritten[x]) /\ AgreedOK(stored[x])
    BY DEF Safe
  <2>5. SessionOK(x)'
    BY <2>1, <2>4 DEF SessionOK, InUse
  <2>6. WireOK(x)'
    BY <2>1, <2>2, <2>3, <2>4 DEF WireOK, Held
  <2>7. AgreedOK(unwritten[x])' /\ AgreedOK(stored[x])'
    BY <2>1, <2>4 DEF AgreedOK, InUse
  <2> QED
    BY <2>5, <2>6, <2>7
<1> QED
  BY <1>1, <1>2 DEF Safe

(* What a device sends.                                                     *)
LEMMA SendParts ==
    ASSUME TypeOK, NEW d \in Device, NEW out, Send(d, out)
    PROVE  /\ linked[d] => up'[here(d)] = up[here(d)] \o out
           /\ ~linked[d] => up' = up
           /\ \A c \in Socket : c # here(d) => up'[c] = up[c]
           /\ \A c \in Socket : c[1] # d => up'[c] = up[c]
<1>1. here(d) \in Socket /\ here(d)[1] = d /\ linked[d] \in BOOLEAN
  BY Parts DEF here
<1> QED
  BY <1>1 DEF Send, TypeOK

(* What a device sends is no copy, or one of the log's updates.             *)
LEMMA CopiesSent ==
    ASSUME TypeOK, CopiesOK, UNCHANGED past, NEW d \in Device, NEW out \in Seq(Frame),
           Send(d, out), \A i \in 1..Len(out) : CopyOK(out[i], past[out[i].gen])
    PROVE  CopiesOK'
<1> SUFFICES ASSUME NEW c \in Socket, NEW i \in 1..Len(up'[c])
             PROVE  CopyOK(up'[c][i], past[up'[c][i].gen])
  BY DEF CopiesOK
<1>1. CASE up'[c] = up[c]
  BY <1>1 DEF CopiesOK
<1>2. CASE c = here(d) /\ linked[d]
  <2> DEFINE U == up[c]
             V == U \o out
  <2>1. up'[c] = V
    BY <1>2, SendParts
  <2>2. U \in Seq(Frame)
    BY Parts
  <2>3. /\ Len(U) \in Nat /\ Len(out) \in Nat /\ Len(V) = Len(U) + Len(out)
        /\ \A j \in 1..Len(U) : V[j] = U[j]
        /\ \A j \in (Len(U) + 1)..Len(V) : V[j] = out[j - Len(U)]
    BY <2>2, ConcatProperties
  <2>4. CASE i \in 1..Len(U)
    <3>1. V[i] = U[i]
      BY <2>3, <2>4
    <3>2. CopyOK(U[i], past[U[i].gen])
      BY <2>4 DEF CopiesOK
    <3> QED
      BY <2>1, <3>1, <3>2
  <2>5. CASE i \notin 1..Len(U)
    <3>1. i \in (Len(U) + 1)..Len(V) /\ i - Len(U) \in 1..Len(out)
      BY <2>1, <2>3, <2>5
    <3>2. V[i] = out[i - Len(U)]
      BY <2>3, <3>1
    <3>3. CopyOK(out[i - Len(U)], past[out[i - Len(U)].gen])
      BY <3>1
    <3> QED
      BY <2>1, <3>2, <3>3
  <2> QED
    BY <2>4, <2>5
<1> QED
  BY <1>1, <1>2, SendParts

(* A device that goes on in its room sends nothing but what is of it.       *)
LEMMA LeavesOut ==
    ASSUME NEW s, NEW t, NEW U \in Seq(Frame), NEW F, NEW out \in Seq(Frame),
           LeavesOK(s, U, F), t.on = s.on, t.gen = s.gen,
           \A i \in 1..Len(out) : out[i].type # "Sub"
    PROVE  LeavesOK(t, U \o out, F)
<1> DEFINE V == U \o out
<1>1. /\ Len(U) \in Nat /\ Len(out) \in Nat /\ Len(V) = Len(U) + Len(out)
      /\ \A j \in 1..Len(U) : V[j] = U[j]
      /\ \A j \in (Len(U) + 1)..Len(V) : V[j] = out[j - Len(U)]
  BY ConcatProperties
<1>2. \A i \in 1..Len(U) : i \in 1..Len(V) /\ V[i] = U[i]
  BY <1>1
<1>3. ASSUME NEW i \in 1..Len(V), V[i].type = "Sub" PROVE i \in 1..Len(U)
  <2>1. CASE i \notin 1..Len(U)
    <3>1. i \in (Len(U) + 1)..Len(V) /\ i - Len(U) \in 1..Len(out)
      BY <1>1, <2>1
    <3>2. V[i] = out[i - Len(U)]
      BY <1>1, <3>1
    <3> QED
      BY <1>3, <3>1, <3>2
  <2> QED
    BY <2>1
<1> HIDE DEF V
<1>4. \A g \in F : (t.on /\ g = t.gen) \/ \E i \in 1..Len(V) : V[i] = Unsub(g)
  BY <1>2 DEF LeavesOK
<1>5. ASSUME NEW i \in 1..Len(V), V[i].type = "Sub"
      PROVE  (t.on /\ V[i].gen = t.gen) \/ \E j \in 1..Len(V) : j > i /\ V[j] = Unsub(V[i].gen)
  <2>1. i \in 1..Len(U) /\ V[i] = U[i]
    BY <1>2, <1>3, <1>5
  <2>2. (s.on /\ U[i].gen = s.gen) \/ \E j \in 1..Len(U) : j > i /\ U[j] = Unsub(U[i].gen)
    BY <1>5, <2>1 DEF LeavesOK
  <2> QED
    BY <1>2, <2>1, <2>2
<1>6. LeavesOK(t, V, F)
  BY <1>4, <1>5 DEF LeavesOK
<1> QED
  BY <1>6 DEF V

(* A device in its room commits the outcome of a step.                      *)
LEMMA CommitSafe ==
    ASSUME TypeOK, TypeOK', Safe, NEW d \in Device, NEW o, Commit(d, o),
           NEW t \in Session, t = o.session, NEW out \in Seq(Frame), out = o.out,
           \A x \in Device \ {d} : down'[x] = down[x],
           t.on = session[d].on, t.gen = session[d].gen,
           \A i \in 1..Len(out) : out[i].type # "Sub" /\ CopyOK(out[i], past[out[i].gen]),
           t.on => LocalOK(t, past[t.gen], room[t.gen]),
           linked[d] /\ t.on => Conn(t, up[here(d)] \o out, down'[d], follows[here(d)],
                                     past[t.gen], room[t.gen]),
           ~linked[d] => down'[d] = <<>> /\ ~t.online
    PROVE  Safe'
<1> DEFINE s == session[d]
           c == here(d)
<1>1. /\ session' = [session EXCEPT ![d] = t] /\ Send(d, out)
      /\ UNCHANGED <<room, past, cur, linked, follows, stored>>
      /\ unwritten' = IF o.settles /\ settled(t)
                      THEN [unwritten EXCEPT ![d] = [text |-> Text(t.doc), gen |-> t.gen,
                                                     seq |-> t.seq]]
                      ELSE unwritten
  BY DEF Commit, hub
<1>2. /\ session'[d] = t /\ here(d)' = c /\ c \in Socket /\ t.gen \in Gen
      /\ up[c] \in Seq(Frame) /\ s \in Session
      /\ past[t.gen] \in Seq(SUBSET Op)
  <2>1. session'[d] = t /\ here(d)' = c
    BY <1>1 DEF TypeOK, here
  <2> QED
    BY <2>1, Parts
<1>3. CopiesOK'
  BY <1>1, CopiesSent DEF Safe
<1>4. t.on => InUse(t.gen)
  BY DEF Safe, SessionOK
<1>5. SessionOK(d)'
  <2>1. t.on => InUse(t.gen)'
    BY <1>1, <1>4 DEF InUse
  <2> QED
    BY <1>1, <1>2, <2>1 DEF SessionOK
<1>6. WireOK(d)'
  <2>1. CASE linked[d]
    <3>1. LeavesOK(s, up[c], follows[c])
      BY <2>1 DEF Safe, WireOK, Held
    <3>2. LeavesOK(t, up[c] \o out, follows[c])
      BY <1>2, <3>1, LeavesOut
    <3>3. up'[c] = up[c] \o out /\ follows'[c] = follows[c] /\ linked'[d]
      BY <1>1, <2>1, SendParts
    <3>4. Held(d)'
      BY <1>1, <1>2, <2>1, <3>2, <3>3 DEF Held
    <3> QED
      BY <3>3, <3>4 DEF WireOK
  <2>2. CASE ~linked[d]
    BY <1>1, <1>2, <2>2 DEF WireOK
  <2> QED
    BY <2>1, <2>2
<1>7. AgreedOK(unwritten[d])'
  <2>1. CASE o.settles /\ settled(t)
    <3> DEFINE v == [text |-> Text(t.doc), gen |-> t.gen, seq |-> t.seq]
    <3>1. unwritten'[d] = v
      BY <1>1, <2>1 DEF TypeOK
    <3>2. t.on
      BY <2>1 DEF settled, synced
    <3>3. t.seq \in 0..Len(past[t.gen])
      BY <1>2, <2>1, <3>2, SettledIsRoom
    <3>4. v.seq <= Len(past'[v.gen]) /\ InUse(v.gen)'
      BY <1>1, <1>4, <3>2, <3>3 DEF InUse
    <3> QED
      BY <3>1, <3>4 DEF AgreedOK
  <2>2. CASE ~(o.settles /\ settled(t))
    <3>1. unwritten' = unwritten
      BY <1>1, <2>2
    <3>2. AgreedOK(unwritten[d])
      BY DEF Safe
    <3> QED
      BY <1>1, <3>1, <3>2 DEF AgreedOK, InUse
  <2> QED
    BY <2>1, <2>2
<1>8. AgreedOK(stored[d])'
  <2>1. AgreedOK(stored[d])
    BY DEF Safe
  <2> QED
    BY <1>1, <2>1 DEF AgreedOK, InUse
<1>9. \A x \in Device \ {d} :
         /\ session'[x] = session[x] /\ down'[x] = down[x] /\ cur'[x] = cur[x]
         /\ linked'[x] = linked[x] /\ unwritten'[x] = unwritten[x]
         /\ stored'[x] = stored[x]
  BY <1>1 DEF TypeOK
<1>10. \A e \in Socket : e[1] # d => up'[e] = up[e] /\ follows'[e] = follows[e]
  BY <1>1, SendParts
<1> QED
  BY <1>1, <1>3, <1>5, <1>6, <1>7, <1>8, <1>9, <1>10, DeviceFrame

(* A step of the session's own: what it sends is updates, or a copy of what *)
(* the room is.                                                             *)
LEMMA OwnSafe ==
    ASSUME TypeOK, TypeOK', Safe, NEW d \in Device, session[d].on, NEW o, Commit(d, o),
           NEW t, t = o.session, NEW out, out = o.out, UNCHANGED down,
           OwnStep(session[d], t, out, past[session[d].gen], room[session[d].gen]),
           \A i \in 1..Len(out) : CopyOK(out[i], past[out[i].gen])
    PROVE  Safe'
<1> DEFINE s == session[d]
           c == here(d)
           log == past[s.gen]
           row == room[s.gen]
<1>1. /\ t \in Session /\ out \in Seq(Frame) /\ t.on = s.on /\ t.gen = s.gen
      /\ Same(s, t) /\ t.online = s.online
      /\ PlaceOK(t, log, row) /\ OwesOK(t, {}, log) /\ OutOK(t, out)
  BY DEF OwnStep, Same, After
<1>2. \A i \in 1..Len(out) : out[i].type # "Sub"
  BY <1>1 DEF OutOK
<1>3. LocalOK(t, past[t.gen], room[t.gen])
  BY <1>1 DEF LocalOK
<1>4. ASSUME linked[d]
      PROVE  Conn(t, up[c] \o out, down[d], follows[c], past[t.gen], room[t.gen])
  <2>1. Conn(s, up[c], down[d], follows[c], log, row)
    BY <1>4 DEF Safe, WireOK, Held
  <2>2. /\ s \in Session /\ up[c] \in Seq(Frame) /\ down[d] \in Seq(Answer)
        /\ log \in Seq(SUBSET Op)
    BY Parts
  <2>3. Conn(t, up[c] \o out, down[d], follows[c], log, row)
    BY <1>1, <2>1, <2>2, ConnStep
  <2> QED
    BY <1>1, <2>3
<1>5. ~linked[d] => down'[d] = <<>> /\ ~t.online
  BY <1>1 DEF Safe, WireOK
<1> QED
  BY <1>1, <1>2, <1>3, <1>4, <1>5, CommitSafe

(* Updates are no copies.                                                   *)
LEMMA UpdatesAreNoCopies ==
    ASSUME NEW out, UpdatesOnly(out), NEW i \in 1..Len(out), NEW log
    PROVE  CopyOK(out[i], log)
BY DEF UpdatesOnly, CopyOK

(* The session is on and its types are known.                               *)
LEMMA SessionParts ==
    ASSUME NEW n \in Nat, TypeTo(n), TypeOK, Safe, NEW d \in Device, session[d].on
    PROVE  /\ session[d] \in SessionTo(n) /\ FilesOK
           /\ past[session[d].gen] \in Seq(SUBSET Op)
           /\ LocalOK(session[d], past[session[d].gen], room[session[d].gen])
<1>1. session[d] \in SessionTo(n) /\ FilesOK
  BY DEF TypeTo, SessionsTo
<1>2. past[session[d].gen] \in Seq(SUBSET Op)
  BY Parts
<1> QED
  BY <1>1, <1>2 DEF Safe, SessionOK

(* The editor follows the document.                                         *)
LEMMA BindSafe ==
    ASSUME NEW n \in Nat, TypeTo(n), TypeOK, TypeOK', Safe, NEW d \in Device, Bind(d)
    PROVE  Safe'
<1> DEFINE s == session[d]
           t == [adopt(d, s) EXCEPT !.bound = TRUE]
           o == ends(t, <<>>)
<1>1. s.on /\ Commit(d, o) /\ UNCHANGED down
  BY DEF Bind, synced
<1>2. OwnStep(s, t, <<>>, past[s.gen], room[s.gen])
  BY <1>1, SessionParts, BindOK
<1>3. o.session = t /\ o.out = <<>>
  BY DEF ends
<1>4. \A i \in 1..Len(<<>>) : CopyOK(<<>>[i], past[<<>>[i].gen])
  OBVIOUS
<1> HIDE DEF o, t
<1> QED
  BY <1>1, <1>2, <1>3, <1>4, OwnSafe

(* What is pending is sent.                                                 *)
LEMMA FlushSafe ==
    ASSUME NEW n \in Nat, TypeTo(n), TypeOK, TypeOK', Safe, NEW d \in Device, Flush(d)
    PROVE  Safe'
<1> DEFINE s == session[d]
           p == ship([s EXCEPT !.pending = {}], s.pending)
           o == ends(p.session, p.out)
<1>1. s.on /\ Commit(d, o) /\ UNCHANGED down
  BY DEF Flush
<1>2. OwnStep(s, p.session, p.out, past[s.gen], room[s.gen]) /\ UpdatesOnly(p.out)
  BY <1>1, SessionParts, FlushOK
<1>3. o.session = p.session /\ o.out = p.out
  BY DEF ends
<1>4. \A i \in 1..Len(p.out) : CopyOK(p.out[i], past[p.out[i].gen])
  BY <1>2, UpdatesAreNoCopies
<1> HIDE DEF o, p
<1> QED
  BY <1>1, <1>2, <1>3, <1>4, OwnSafe

(* What is unacked is sent again, on time or early.                         *)
LEMMA ResendSafe ==
    ASSUME NEW n \in Nat, TypeTo(n), TypeOK, TypeOK', Safe, NEW d \in Device, Resend(d)
    PROVE  Safe'
<1> DEFINE s == session[d]
           p == resend(s)
           o == ends(p.session, p.out)
<1>1. s.on /\ Commit(d, o) /\ UNCHANGED down
  BY DEF Resend
<1>2. OwnStep(s, p.session, p.out, past[s.gen], room[s.gen]) /\ UpdatesOnly(p.out)
  BY <1>1, SessionParts, ResendStepOK
<1>3. o.session = p.session /\ o.out = p.out
  BY DEF ends
<1>4. \A i \in 1..Len(p.out) : CopyOK(p.out[i], past[p.out[i].gen])
  BY <1>2, UpdatesAreNoCopies
<1> HIDE DEF o, p
<1> QED
  BY <1>1, <1>2, <1>3, <1>4, OwnSafe

(* A settled session's copy of the room is what the room is.                *)
LEMMA CopyOfRoom ==
    ASSUME NEW s \in Session, NEW log \in Seq(SUBSET Op), NEW row,
           LocalOK(s, log, row), settled(s)
    PROVE  /\ CopyOK(Snapshot(s.gen, s.seq, s.doc), log)
           /\ CopyOK(Rotate(s.gen, s.seq, rebuild(s.doc)), log)
<1>1. s.doc = first(log, s.seq) /\ s.seq \in 0..Len(log)
  BY SettledIsRoom
<1>2. s.seq <= Len(log)
  BY <1>1
<1> QED
  BY <1>1, <1>2 DEF CopyOK, Snapshot, Rotate

(* A rotation is asked.                                                     *)
LEMMA AskRotateSafe ==
    ASSUME NEW n \in Nat, TypeTo(n), TypeOK, TypeOK', Safe, NEW d \in Device, AskRotate(d)
    PROVE  Safe'
<1> DEFINE s == session[d]
           t == [s EXCEPT !.asked = TRUE]
           f == Rotate(s.gen, s.seq, rebuild(s.doc))
           out == <<f>>
           o == ends(t, out)
           log == past[s.gen]
<1>1. /\ s.on /\ settled(s) /\ s.online /\ UNCHANGED down
      /\ Commit(d, o)
  BY DEF AskRotate, settled, synced
<1>2. /\ s \in SessionTo(n) /\ log \in Seq(SUBSET Op) /\ LocalOK(s, log, room[s.gen])
      /\ s \in Session
  BY <1>1, SessionParts, Parts
<1>3. OwnStep(s, t, out, log, room[s.gen])
  BY <1>1, <1>2, AskRotateOK
<1>4. o.session = t /\ o.out = out
  BY DEF ends
<1>5. f.gen = s.gen /\ CopyOK(f, log)
  <2>1. f.gen = s.gen
    BY DEF Rotate
  <2> HIDE DEF s, log
  <2>2. CopyOK(f, log)
    BY <1>1, <1>2, CopyOfRoom
  <2> QED
    BY <2>1, <2>2
<1> HIDE DEF f
<1>6. \A i \in 1..Len(out) : CopyOK(out[i], past[out[i].gen])
  BY <1>5
<1> HIDE DEF o, t, out
<1> QED
  BY <1>1, <1>3, <1>4, <1>6, OwnSafe

-----------------------------------------------------------------------------
(* A frame is handled.                                                      *)

(* A frame more to send.                                                    *)
LEMMA AppendOut ==
    ASSUME NEW U \in Seq(Frame), NEW out \in Seq(Frame), NEW f \in Frame
    PROVE  U \o Append(out, f) = (U \o out) \o <<f>> /\ Append(out, f) \in Seq(Frame)
<1>1. Append(out, f) = out \o <<f>> /\ <<f>> \in Seq(Frame)
  BY AppendIsConcat
<1> QED
  BY <1>1, ConcatAssociative

(* A frame of another room, or for a note that is not open, is dropped.     *)
LEMMA ReceiveOther ==
    ASSUME TypeOK, TypeOK', Safe, NEW d \in Device, down[d] # <<>>,
           ~(session[d].on /\ Head(down[d]).gen = session[d].gen),
           NEW o, Commit(d, o), o.session = session[d], o.out = <<>>,
           down' = [down EXCEPT ![d] = Tail(@)]
    PROVE  Safe'
<1> DEFINE s == session[d]
           U == up[here(d)]
           D == down[d]
           F == follows[here(d)]
           log == past[s.gen]
           row == room[s.gen]
<1>1. linked[d]
  BY DEF Safe, WireOK
<1>2. /\ s \in Session /\ U \in Seq(Frame) /\ D \in Seq(Answer) /\ log \in Seq(SUBSET Op)
  BY Parts
<1>3. down'[d] = Tail(D) /\ \A x \in Device \ {d} : down'[x] = down[x]
  BY DEF TypeOK
<1>4. s.on => LocalOK(s, log, row)
  BY DEF Safe, SessionOK
<1>5. ASSUME s.on PROVE Conn(s, U \o <<>>, Tail(D), F, log, row)
  <2>1. Conn(s, U, D, F, log, row)
    BY <1>1, <1>5 DEF Safe, WireOK, Held
  <2>2. ~isNews(s, Head(D)) /\ D # <<>>
    BY <1>5 DEF isNews
  <2>3. U \o <<>> = U
    BY <1>2
  <2> HIDE DEF s, U, D, F, log, row
  <2>4. Conn(s, U, Tail(D), F, log, row)
    BY <1>2, <2>1, <2>2, ConnSkip
  <2> QED
    BY <2>3, <2>4
<1>6. <<>> \in Seq(Frame) /\ \A i \in 1..Len(<<>>) :
         <<>>[i].type # "Sub" /\ CopyOK(<<>>[i], past[<<>>[i].gen])
  OBVIOUS
<1> QED
  BY <1>1, <1>2, <1>3, <1>4, <1>5, <1>6, CommitSafe, ZenonT(60)

(* The session's outcome is kept by its compaction.                         *)
LEMMA CompactingOK ==
    ASSUME NEW n \in Nat, NEW o \in OutcomeTo(n), NEW U \in Seq(Frame),
           NEW D \in Seq(Answer), NEW F, NEW log \in Seq(SUBSET Op), NEW row,
           compactionDue(o), OwnText(o.out), Conn(o.session, U \o o.out, D, F, log, row)
    PROVE  LET t == compacting(o).session
               out == compacting(o).out
           IN  /\ t \in Session /\ t.on = o.session.on /\ t.gen = o.session.gen
               /\ out \in Seq(Frame) /\ Conn(t, U \o out, D, F, log, row)
               /\ \A i \in 1..Len(out) : /\ out[i].type # "Sub"
                                         /\ out[i].gen = o.session.gen => CopyOK(out[i], log)
                                         /\ out[i].gen # o.session.gen =>
                                               out[i].type \in {"Update", "Seed"}
<1> DEFINE s == o.session
           t == [s EXCEPT !.compacted = s.seq]
           f == Snapshot(s.gen, s.seq, s.doc)
           V == o.out
           W == U \o V
           out == Append(V, f)
<1>1. s \in SessionTo(n) /\ V \in Seq(FrameTo(n)) /\ s \in Session /\ V \in Seq(Frame)
  <2>1. s \in SessionTo(n) /\ V \in Seq(FrameTo(n))
    BY DEF OutcomeTo
  <2>2. V \in Seq(Frame)
    BY <2>1, FrameToIsFrame
  <2> QED
    BY <2>1, <2>2, SessionToIsSession
<1>2. settled(s) /\ s.online /\ LocalOK(s, log, row) /\ Conn(s, W, D, F, log, row)
  BY DEF compactionDue, Conn
<1>3. compacting(o).session = t /\ compacting(o).out = out
  BY DEF compacting, OutcomeTo
<1>4. W \in Seq(Frame)
  BY <1>1, SeqTypes
<1>5. f \in Frame /\ f.type = "Snapshot" /\ f.gen = s.gen
  <2>1. f \in FrameTo(n)
    BY <1>1, FrameTypes DEF SessionTo
  <2> QED
    BY <2>1, FrameToIsFrame DEF Snapshot
<1> HIDE DEF s, W
<1>6. OwnStep(s, t, <<f>>, log, row) /\ CopyOK(f, log)
  BY <1>1, <1>2, CompactOK, CopyOfRoom
<1>7. /\ t \in Session /\ Same(s, t) /\ t.online = s.online /\ t.on = s.on
      /\ PlaceOK(t, log, row) /\ OwesOK(t, {}, log) /\ OutOK(t, <<f>>) /\ t.gen = s.gen
      /\ <<f>> \in Seq(Frame)
  BY <1>6 DEF OwnStep, Same, After
<1> HIDE DEF t, f
<1>8. Conn(t, W \o <<f>>, D, F, log, row)
  BY <1>1, <1>2, <1>4, <1>7, ConnStep
<1>9. U \o out = W \o <<f>> /\ out \in Seq(Frame)
  BY <1>1, <1>5, AppendOut DEF W
<1>10. ASSUME NEW i \in 1..Len(out)
       PROVE  /\ out[i].type # "Sub" /\ (out[i].gen = s.gen => CopyOK(out[i], log))
              /\ (out[i].gen # s.gen => out[i].type \in {"Update", "Seed"})
  <2>1. CASE i \in 1..Len(V)
    <3>1. out[i] = V[i]
      BY <1>1, <1>5, <2>1
    <3>2. V[i].type \in {"Update", "Seed"}
      BY <2>1 DEF OwnText
    <3> QED
      BY <3>1, <3>2 DEF CopyOK
  <2>2. CASE i \notin 1..Len(V)
    <3>1. out[i] = f
      BY <1>1, <1>5, <2>2, SMTT(40)
    <3> QED
      BY <1>5, <1>6, <3>1
  <2> QED
    BY <2>1, <2>2
<1> QED
  BY <1>3, <1>7, <1>8, <1>9, <1>10 DEF s

(* A frame of the session's room, and a compaction if it leads.             *)
LEMMA ReceiveMine ==
    ASSUME NEW n \in Nat, TypeTo(n), TypeOK, TypeOK', Safe, NEW d \in Device, Receive(d),
           session[d].on, Head(down[d]).gen = session[d].gen
    PROVE  Safe'
<1> DEFINE s == session[d]
           c == here(d)
           U == up[c]
           D == down[d]
           F == follows[c]
           log == past[s.gen]
           row == room[s.gen]
           f == Head(D)
           h == handle(d, s, f)
           m == n + 2
<1>1. D # <<>> /\ down' = [down EXCEPT ![d] = Tail(@)]
  BY DEF Receive
<1>2. linked[d]
  BY <1>1 DEF Safe, WireOK
<1>3. m \in Nat /\ TypeTo(m) /\ fresh(d) \in 0..m
  BY TypeToGrows, FreshType
<1>4. /\ s \in SessionTo(m) /\ U \in Seq(Frame) /\ D \in Seq(AnswerTo(m)) /\ D \in Seq(Answer)
      /\ log \in Seq(SUBSET Op) /\ FilesOK /\ c \in Socket
  <2>1. s \in SessionTo(m) /\ D \in Seq(AnswerTo(m)) /\ FilesOK
    BY <1>3 DEF TypeTo, SessionsTo, WireTo
  <2> QED
    BY <2>1, Parts
<1>5. f \in AnswerTo(m)
  BY <1>1, <1>4, SeqTypes
<1>6. f.type = "State" /\ lost(s, f) => s.gen # MaxGen
  <2>1. f.type = "State" /\ lost(s, f) => s.gen < MaxGen
    BY DEF Receive
  <2> QED
    BY <2>1, RoomAssumption
<1>7. h \in OutcomeTo(m)
  BY <1>3, <1>4, <1>5, <1>6, HandleType
<1>8. Conn(s, U, D, F, log, row)
  BY <1>2 DEF Safe, WireOK, Held
<1>9. /\ h.session.on = s.on /\ h.session.gen = s.gen /\ OwnText(h.out)
      /\ Conn(h.session, U \o h.out, Tail(D), F, log, row)
  <2> HIDE DEF s, U, D, F, log, row, m
  <2>1. f.gen = s.gen
    BY DEF s, D
  <2> QED
    BY <1>1, <1>3, <1>4, <1>8, <2>1, HandleOK
<1>10. PICK o \in {h, compacting(h)} :
          Commit(d, o) /\ (o = h \/ (o = compacting(h) /\ compactionDue(h)))
  <2>1. \E p \in {h}, leads \in BOOLEAN :
           /\ leads => compactionDue(p)
           /\ Commit(d, IF leads THEN compacting(p) ELSE p)
    BY DEF Receive
  <2> HIDE DEF h
  <2> QED
    BY <2>1
<1> HIDE DEF h
<1>11. PICK t, out : t = o.session /\ out = o.out
  OBVIOUS
<1>12. /\ t \in Session /\ out \in Seq(Frame) /\ t.on = s.on /\ t.gen = s.gen
       /\ Conn(t, U \o out, Tail(D), F, log, row)
       /\ \A i \in 1..Len(out) : /\ out[i].type # "Sub"
                                 /\ out[i].gen = s.gen => CopyOK(out[i], log)
                                 /\ out[i].gen # s.gen => out[i].type \in {"Update", "Seed"}
  <2>1. CASE o = h
    <3>1. h.session \in Session /\ h.out \in Seq(Frame)
      <4>1. h.session \in SessionTo(m) /\ h.out \in Seq(FrameTo(m))
        BY <1>7 DEF OutcomeTo
      <4> QED
        BY <1>3, <4>1, SessionToIsSession, FrameToIsFrame
    <3>2. \A i \in 1..Len(out) : /\ out[i].type # "Sub"
                                 /\ CopyOK(out[i], log)
                                 /\ out[i].type \in {"Update", "Seed"}
      BY <1>9, <1>11, <2>1 DEF OwnText, CopyOK
    <3> QED
      BY <1>9, <1>11, <2>1, <3>1, <3>2
  <2>2. CASE o = compacting(h) /\ compactionDue(h)
    <3>1. Tail(D) \in Seq(Answer)
      BY <1>1, <1>4, SeqTypes
    <3> DEFINE E == Tail(D)
    <3> HIDE DEF E
    <3>2. E \in Seq(Answer) /\ Conn(h.session, U \o h.out, E, F, log, row)
      BY <1>9, <3>1 DEF E
    <3> HIDE DEF s, U, D, F, log, row, m
    <3>3. /\ t \in Session /\ t.on = h.session.on /\ t.gen = h.session.gen
          /\ out \in Seq(Frame) /\ Conn(t, U \o out, E, F, log, row)
          /\ \A i \in 1..Len(out) : /\ out[i].type # "Sub"
                                    /\ out[i].gen = h.session.gen => CopyOK(out[i], log)
                                    /\ out[i].gen # h.session.gen =>
                                          out[i].type \in {"Update", "Seed"}
      BY <1>3, <1>4, <1>7, <1>9, <1>11, <2>2, <3>2, CompactingOK, ZenonT(60)
    <3> QED
      BY <1>9, <3>3 DEF E
  <2> QED
    BY <1>10, <2>1, <2>2
<1>13. \A i \in 1..Len(out) : out[i].type # "Sub" /\ CopyOK(out[i], past[out[i].gen])
  BY <1>12 DEF CopyOK
<1>14. down'[d] = Tail(D) /\ \A x \in Device \ {d} : down'[x] = down[x]
  BY <1>1 DEF TypeOK
<1>15. LocalOK(t, past[t.gen], room[t.gen])
  BY <1>12 DEF Conn
<1>16. Conn(t, U \o out, down'[d], F, past[t.gen], room[t.gen])
  BY <1>12, <1>14
<1> HIDE DEF D, log, row
<1> QED
  BY <1>2, <1>10, <1>11, <1>12, <1>13, <1>14, <1>15, <1>16, CommitSafe

(* Any frame.                                                               *)
LEMMA ReceiveSafe ==
    ASSUME NEW n \in Nat, TypeTo(n), TypeOK, TypeOK', Safe, NEW d \in Device, Receive(d)
    PROVE  Safe'
<1>1. CASE session[d].on /\ Head(down[d]).gen = session[d].gen
  BY <1>1, ReceiveMine
<1>2. CASE ~(session[d].on /\ Head(down[d]).gen = session[d].gen)
  <2> DEFINE p == ends(session[d], <<>>)
  <2>1. p.session = session[d] /\ p.out = <<>> /\ ~compactionDue(p)
    BY DEF ends, compactionDue
  <2>2. \E q \in {p}, leads \in BOOLEAN :
           /\ leads => compactionDue(q)
           /\ Commit(d, IF leads THEN compacting(q) ELSE q)
    BY <1>2 DEF Receive
  <2> HIDE DEF p
  <2>3. Commit(d, p)
    BY <2>1, <2>2
  <2>4. down[d] # <<>> /\ down' = [down EXCEPT ![d] = Tail(@)]
    BY DEF Receive
  <2> QED
    BY <1>2, <2>1, <2>3, <2>4, ReceiveOther
<1> QED
  BY <1>1, <1>2

-----------------------------------------------------------------------------
(* Steps without a frame.                                                   *)

(* A step that changes nothing the invariant speaks of.                     *)
LEMMA UnchangedSafe ==
    ASSUME Safe, UNCHANGED <<room, past, up, down, cur, linked, follows, session,
                             unwritten, stored>>
    PROVE  Safe'
<1>1. CopiesOK'
  BY DEF Safe, CopiesOK
<1>2. ASSUME NEW g \in Gen PROVE RoomOK(g)'
  <2>1. RoomOK(g)
    BY DEF Safe
  <2> QED
    BY <2>1 DEF RoomOK
<1>3. ASSUME NEW d \in Device
      PROVE  SessionOK(d)' /\ WireOK(d)' /\ AgreedOK(unwritten[d])' /\ AgreedOK(stored[d])'
  <2>1. /\ SessionOK(d) /\ WireOK(d) /\ AgreedOK(unwritten[d]) /\ AgreedOK(stored[d])
    BY DEF Safe
  <2>2. SessionOK(d)' /\ AgreedOK(unwritten[d])' /\ AgreedOK(stored[d])'
    BY <2>1 DEF SessionOK, AgreedOK, InUse
  <2>3. here(d)' = here(d)
    BY DEF here
  <2>4. WireOK(d)'
    BY <2>1, <2>3 DEF WireOK, Held
  <2> QED
    BY <2>2, <2>4
<1> QED
  BY <1>1, <1>2, <1>3 DEF Safe

(* The files that were agreed on are the room's, wherever they are kept.    *)
LEMMA WriteAgreedSafe ==
    ASSUME TypeOK, Safe, NEW d \in Device, WriteAgreed(d) PROVE Safe'
<1>1. UNCHANGED <<hub, wire, session>>
  BY DEF WriteAgreed
<1>2. /\ unwritten'[d] = None /\ stored'[d] \in {stored[d], unwritten[d]}
      /\ \A x \in Device \ {d} : unwritten'[x] = unwritten[x] /\ stored'[x] = stored[x]
  BY DEF WriteAgreed, TypeOK
<1>3. AgreedOK(stored[d]) /\ AgreedOK(unwritten[d]) /\ SessionOK(d) /\ WireOK(d)
  BY DEF Safe
<1>4. AgreedOK(unwritten[d])' /\ AgreedOK(stored[d])'
  BY <1>1, <1>2, <1>3 DEF AgreedOK, InUse, hub
<1>5. SessionOK(d)'
  BY <1>1, <1>3 DEF SessionOK, InUse, hub
<1>6. here(d)' = here(d)
  BY <1>1 DEF here, wire
<1>7. WireOK(d)'
  BY <1>1, <1>3, <1>6 DEF WireOK, Held, hub, wire
<1>8. CopiesOK'
  BY <1>1 DEF Safe, CopiesOK, hub, wire
<1>9. UNCHANGED <<room, past, up, down, cur, linked, follows, session>>
  BY <1>1 DEF hub, wire
<1> QED
  BY <1>2, <1>4, <1>5, <1>7, <1>8, <1>9, DeviceFrame

(* A session changes by itself, and sends nothing.                          *)
LEMMA LocalSafe ==
    ASSUME TypeOK, Safe, NEW d \in Device, session[d].on,
           UNCHANGED <<hub, wire, unwritten, stored>>,
           NEW t, session' = [session EXCEPT ![d] = t],
           OwnStep(session[d], t, <<>>, past[session[d].gen], room[session[d].gen])
    PROVE  Safe'
<1> DEFINE s == session[d]
           c == here(d)
           U == up[c]
           D == down[d]
           F == follows[c]
           log == past[s.gen]
           row == room[s.gen]
<1>1. /\ t \in Session /\ t.on = s.on /\ t.gen = s.gen /\ Same(s, t) /\ t.online = s.online
      /\ PlaceOK(t, log, row) /\ OwesOK(t, {}, log) /\ OutOK(t, <<>>)
  BY DEF OwnStep, Same, After
<1>2. /\ s \in Session /\ U \in Seq(Frame) /\ D \in Seq(Answer) /\ log \in Seq(SUBSET Op)
      /\ U \o <<>> = U /\ <<>> \in Seq(Frame)
  BY Parts
<1>3. /\ UNCHANGED <<room, past, up, down, cur, linked, follows, unwritten, stored>>
      /\ session'[d] = t /\ \A x \in Device \ {d} : session'[x] = session[x]
  BY DEF hub, wire, TypeOK
<1>4. here(d)' = c
  BY <1>3 DEF here
<1>5. SessionOK(d) /\ WireOK(d) /\ AgreedOK(unwritten[d]) /\ AgreedOK(stored[d])
  BY DEF Safe
<1>6. SessionOK(d)'
  <2>1. LocalOK(t, log, row) /\ InUse(s.gen)
    BY <1>1, <1>5 DEF SessionOK, LocalOK
  <2> QED
    BY <1>1, <1>3, <2>1 DEF SessionOK, InUse
<1>7. WireOK(d)'
  <2>1. CASE linked[d]
    <3>1. LeavesOK(s, U, F) /\ Conn(s, U, D, F, log, row)
      BY <1>5, <2>1 DEF WireOK, Held
    <3> HIDE DEF s, U, D, F, log, row, c
    <3>2. \A i \in 1..Len(<<>>) : <<>>[i].type # "Sub"
      OBVIOUS
    <3>3. LeavesOK(t, U \o <<>>, F)
      BY <1>1, <1>2, <3>1, <3>2, LeavesOut
    <3>4. Conn(t, U \o <<>>, D, F, log, row)
      BY <1>1, <1>2, <3>1, ConnStep
    <3>5. LeavesOK(t, U, F) /\ Conn(t, U, D, F, log, row)
      BY <1>2, <3>3, <3>4
    <3>6. Held(d)'
      BY <1>1, <1>3, <1>4, <3>5 DEF Held, s, U, D, F, log, row, c
    <3> QED
      BY <1>3, <2>1, <3>6 DEF WireOK
  <2>2. CASE ~linked[d]
    BY <1>1, <1>3, <1>5, <2>2 DEF WireOK
  <2> QED
    BY <2>1, <2>2
<1>8. AgreedOK(unwritten[d])' /\ AgreedOK(stored[d])'
  BY <1>3, <1>5 DEF AgreedOK, InUse
<1>9. CopiesOK'
  BY <1>3 DEF Safe, CopiesOK
<1> QED
  BY <1>3, <1>6, <1>7, <1>8, <1>9, DeviceFrame

(* A keystroke.                                                             *)
LEMMA TypeSafe ==
    ASSUME NEW n \in Nat, TypeTo(n), TypeOK, Safe, NEW d \in Device, NEW e \in Edit, Type(d, e)
    PROVE  Safe'
<1> DEFINE s == session[d]
           ops == inserts(d, s.client, {e})
           t == [s EXCEPT !.doc = @ \cup ops, !.pending = @ \cup ops]
<1>1. s.on /\ UNCHANGED <<hub, wire, unwritten, stored>>
  BY DEF Type
<1>2. CASE s.bound
  <2>1. session' = [session EXCEPT ![d].doc = @ \cup ops, ![d].pending = @ \cup ops]
    BY <1>2 DEF Type
  <2>2. session' = [session EXCEPT ![d] = t]
    BY <2>1 DEF TypeOK
  <2>3. ops \in SUBSET OpTo(n)
    <3>1. s.client \in 0..n
      BY <1>1, SessionParts DEF SessionTo
    <3> QED
      BY <3>1, InsertsType
  <2> HIDE DEF ops
  <2>4. OwnStep(s, t, <<>>, past[s.gen], room[s.gen])
    BY <1>1, <2>3, SessionParts, TypeStepOK
  <2> HIDE DEF t
  <2> QED
    BY <1>1, <2>2, <2>4, LocalSafe
<1>3. CASE ~s.bound
  <2>1. session' = session
    BY <1>3 DEF Type
  <2> QED
    BY <1>1, <2>1, UnchangedSafe DEF hub, wire
<1> QED
  BY <1>2, <1>3

-----------------------------------------------------------------------------
(* A session leaves its room, and another one starts.                       *)

(* Whatever a socket still follows is left, and asked to be.                *)
AllLeft(U, F) ==
    /\ \A g \in F : \E i \in 1..Len(U) : U[i] = Unsub(g)
    /\ \A i \in 1..Len(U) : U[i].type = "Sub" =>
          \E j \in 1..Len(U) : j > i /\ U[j] = Unsub(U[i].gen)

(* What a session sends as it ends: its last updates, then Unsub.           *)
LEMMA PartingParts ==
    ASSUME NEW n \in Nat, NEW s \in SessionTo(n)
    PROVE  /\ parting(s) \in Seq(Frame) /\ Len(parting(s)) >= 1
           /\ parting(s)[Len(parting(s))] = Unsub(s.gen)
           /\ \A i \in 1..Len(parting(s)) : /\ parting(s)[i].gen = s.gen
                                            /\ parting(s)[i].type \in {"Update", "Unsub"}
<1>1. parting(s) \in Seq(Frame)
  BY PartingType, FrameToIsFrame
<1> DEFINE f == Update(s.gen, s.sent + 1, s.pending)
           u == Unsub(s.gen)
<1>2. f.gen = s.gen /\ f.type = "Update" /\ u.gen = s.gen /\ u.type = "Unsub"
  BY DEF Update, Unsub
<1> DEFINE A == IF s.pending # {} /\ s.online THEN <<f>> ELSE <<>>
<1>3. parting(s) = A \o <<u>>
  BY DEF parting
<1>4. f \in Frame /\ u \in Frame
  <2>1. s.gen \in Gen /\ s.sent + 1 \in Nat /\ s.pending \in SUBSET OpTo(n)
    BY DEF SessionTo
  <2> HIDE DEF f, u
  <2>2. f \in FrameTo(n) /\ u \in FrameTo(n)
    BY <2>1, FrameTypes DEF f, u
  <2> QED
    BY <2>2, FrameToIsFrame
<1> HIDE DEF f
<1>5. A \in Seq(Frame) /\ \A i \in 1..Len(A) : A[i] = f
  BY <1>4
<1> HIDE DEF A, u
<1>6. /\ Len(A \o <<u>>) = Len(A) + 1 /\ (A \o <<u>>)[Len(A) + 1] = u /\ Len(A) \in Nat
      /\ \A i \in 1..Len(A) : (A \o <<u>>)[i] = A[i]
  BY <1>4, <1>5, AppendAt
<1> DEFINE P == A \o <<u>>
<1> HIDE DEF P
<1>7. Len(P) >= 1 /\ P[Len(P)] = u
  BY <1>6 DEF P
<1>8. ASSUME NEW i \in 1..Len(P)
      PROVE  P[i].gen = s.gen /\ P[i].type \in {"Update", "Unsub"}
  <2>1. i \in 1..Len(A) \/ i = Len(A) + 1
    BY <1>6 DEF P
  <2>2. P[i] = f \/ P[i] = u
    BY <1>5, <1>6, <2>1 DEF P
  <2> QED
    BY <1>2, <2>2
<1> QED
  BY <1>1, <1>3, <1>7, <1>8 DEF P, u

(* So everything its socket follows is left.                                *)
LEMMA PartingLeaves ==
    ASSUME NEW n \in Nat, NEW s \in SessionTo(n), NEW U \in Seq(Frame), NEW F, LeavesOK(s, U, F)
    PROVE  AllLeft(U \o parting(s), F)
<1> DEFINE P == parting(s)
           V == U \o P
           last == Len(V)
<1>1. /\ P \in Seq(Frame) /\ Len(P) \in Nat /\ Len(P) >= 1 /\ P[Len(P)] = Unsub(s.gen)
      /\ \A i \in 1..Len(P) : P[i].type \in {"Update", "Unsub"}
  BY PartingParts
<1> HIDE DEF P
<1>2. /\ Len(U) \in Nat /\ Len(V) = Len(U) + Len(P)
      /\ \A j \in 1..Len(U) : V[j] = U[j]
      /\ \A j \in (Len(U) + 1)..Len(V) : V[j] = P[j - Len(U)]
  BY <1>1, ConcatProperties
<1>3. /\ last \in 1..Len(V) /\ V[last] = Unsub(s.gen)
      /\ \A j \in 1..Len(U) : j < last /\ j \in 1..Len(V)
  <2>1. last \in (Len(U) + 1)..Len(V) /\ last - Len(U) = Len(P)
    BY <1>1, <1>2
  <2> QED
    BY <1>1, <1>2, <2>1
<1>4. ASSUME NEW i \in 1..Len(V), V[i].type = "Sub" PROVE i \in 1..Len(U) /\ V[i] = U[i]
  <2>1. CASE i \notin 1..Len(U)
    <3>1. i \in (Len(U) + 1)..Len(V) /\ i - Len(U) \in 1..Len(P)
      BY <1>1, <1>2, <2>1
    <3>2. V[i] = P[i - Len(U)]
      BY <1>2, <3>1
    <3> QED
      BY <1>1, <1>4, <3>1, <3>2
  <2> QED
    BY <1>2, <2>1
<1> HIDE DEF V, last
<1>5. \A g \in F : \E i \in 1..Len(V) : V[i] = Unsub(g)
  BY <1>2, <1>3 DEF LeavesOK
<1>6. ASSUME NEW i \in 1..Len(V), V[i].type = "Sub"
      PROVE  \E j \in 1..Len(V) : j > i /\ V[j] = Unsub(V[i].gen)
  <2>1. i \in 1..Len(U) /\ V[i] = U[i]
    BY <1>4, <1>6
  <2>2. CASE V[i].gen = s.gen
    <3>1. last > i
      BY <1>3, <2>1 DEF last
    <3> QED
      BY <1>3, <2>2, <3>1
  <2>3. CASE \E j \in 1..Len(U) : j > i /\ U[j] = Unsub(U[i].gen)
    BY <1>2, <1>3, <2>1, <2>3
  <2> QED
    BY <1>6, <2>1, <2>2, <2>3 DEF LeavesOK
<1>7. AllLeft(V, F)
  BY <1>5, <1>6 DEF AllLeft
<1> QED
  BY <1>7 DEF V, P

(* A session that starts is in place.                                       *)
LEMMA NewSession ==
    ASSUME NEW g \in Gen, NEW known \in Nat, NEW client \in Nat,
           NEW log \in Seq(SUBSET Op), NEW row, known <= Len(log)
    PROVE  LET t == Opened(g, known, client)
           IN  /\ t \in Session /\ t.on /\ t.gen = g /\ ~t.joined /\ ~t.online /\ t.seq = 0
               /\ LocalOK(t, log, row)
<1> DEFINE t == Opened(g, known, client)
<1>1. t \in Session
  <2>1. client \in 0..client
    OBVIOUS
  <2>2. t \in SessionTo(client)
    BY <2>1, OpenedType
  <2> QED
    BY <2>2, SessionToIsSession
<1>2. /\ t.on = TRUE /\ t.gen = g /\ t.joined = FALSE /\ t.online = FALSE /\ t.seq = 0
      /\ t.known = known /\ t.left = None /\ t.name = 0 /\ t.moved = FALSE /\ t.doc = {}
      /\ t.pending = {} /\ t.unacked = {}
  BY DEF Opened
<1> HIDE DEF t
<1>3. PlaceOK(t, log, row)
  BY <1>2 DEF PlaceOK
<1>4. OwesOK(t, {}, log)
  BY <1>2, OutgoingOf DEF OwesOK
<1> QED
  BY <1>1, <1>2, <1>3, <1>4 DEF LocalOK, t

(* A session starts in a room that none of the socket's frames is about.    *)
LEMMA NewConn ==
    ASSUME NEW t \in Session, t.on, ~t.joined, ~t.online, t.seq = 0,
           NEW U \in Seq(Frame), NEW D \in Seq(Answer), NEW F,
           NEW log \in Seq(SUBSET Op), NEW row, LocalOK(t, log, row),
           \A i \in 1..Len(U) : U[i].gen <= t.gen /\ U[i].gen # t.gen,
           \A i \in 1..Len(D) : D[i].gen <= t.gen /\ D[i].gen # t.gen,
           t.gen \notin F, AllLeft(U, F)
    PROVE  /\ Conn(t, U \o <<Sub(t.gen, 0)>>, D, F, log, row)
           /\ LeavesOK(t, U \o <<Sub(t.gen, 0)>>, F)
<1> DEFINE f == Sub(t.gen, 0)
           V == U \o <<f>>
<1>1. f.type = "Sub" /\ f.gen = t.gen /\ f.since = 0 /\ t.gen \in Gen /\ t.gen \in Nat
  BY SessionFields DEF Sub
<1>2. f \in Frame
  BY <1>1 DEF Frame, Sub
<1>3. /\ Len(U) \in Nat /\ Len(V) = Len(U) + 1 /\ V[Len(U) + 1] = f
      /\ \A i \in 1..Len(U) : V[i] = U[i]
  BY <1>2, AppendAt
<1> HIDE DEF V, f
<1>4. \A i \in 1..Len(V) : i = Len(U) + 1 \/ (i \in 1..Len(U) /\ V[i] = U[i])
  BY <1>3
<1>5. \A i \in 1..Len(V) : V[i].gen = t.gen => i = Len(U) + 1 /\ V[i] = f
  BY <1>3, <1>4
<1>6. UpOK(t, f)
  BY <1>1 DEF UpOK
<1>7. \A i \in 1..Len(V) : UpOK(t, V[i])
  <2> SUFFICES ASSUME NEW i \in 1..Len(V) PROVE UpOK(t, V[i])
    OBVIOUS
  <2>1. CASE i = Len(U) + 1
    BY <1>3, <1>6, <2>1
  <2>2. CASE i \in 1..Len(U) /\ V[i] = U[i]
    BY <2>2 DEF UpOK
  <2> QED
    BY <1>4, <2>1, <2>2
<1>8. AsksOK(t, V, D, F)
  <2>1. \A i \in 1..Len(V) : V[i].gen = t.gen => Alone(t, V, i) /\ V[i].type = "Sub"
    BY <1>1, <1>5 DEF Alone
  <2>2. \A j \in 1..Len(D) : D[j].gen # t.gen
    OBVIOUS
  <2> QED
    BY <1>7, <2>1, <2>2 DEF AsksOK
<1>9. AnswersOK(t, D, log, row)
  <2>1. ASSUME NEW i \in 1..Len(D)
        PROVE  DownOK(t, D[i], log, row) /\ ~isAnswer(t, D[i]) /\ ~isNews(t, D[i])
    <3>1. D[i] \in Answer
      OBVIOUS
    <3> QED
      BY <3>1, DownOther
  <2> QED
    BY <2>1 DEF AnswersOK
<1>10. Conn(t, V, D, F, log, row)
  BY <1>8, <1>9 DEF Conn
<1>11. \A i \in 1..Len(U) : i \in 1..Len(V)
  BY <1>3
<1>12. \A g \in F : \E i \in 1..Len(V) : V[i] = Unsub(g)
  BY <1>3, <1>11 DEF AllLeft
<1>13. ASSUME NEW i \in 1..Len(V), V[i].type = "Sub"
       PROVE  (t.on /\ V[i].gen = t.gen) \/ \E j \in 1..Len(V) : j > i /\ V[j] = Unsub(V[i].gen)
  <2>1. CASE i = Len(U) + 1
    BY <1>1, <1>3, <2>1
  <2>2. CASE i \in 1..Len(U) /\ V[i] = U[i]
    <3>1. PICK j \in 1..Len(U) : j > i /\ U[j] = Unsub(U[i].gen)
      BY <1>13, <2>2 DEF AllLeft
    <3> QED
      BY <1>3, <1>11, <2>2, <3>1
  <2> QED
    BY <1>4, <2>1, <2>2
<1>14. LeavesOK(t, V, F)
  BY <1>12, <1>13 DEF LeavesOK
<1> QED
  BY <1>10, <1>14 DEF V, f

(* A session starts where the socket has nothing of that room.              *)
LEMMA BeginSafe ==
    ASSUME TypeOK, Safe, NEW d \in Device, NEW g \in Gen, NEW known \in Nat,
           NEW frames \in Seq(Frame), Begin(d, g, known, frames), fresh(d) \in Nat,
           UNCHANGED <<hub, down, cur, linked, follows, unwritten, stored>>,
           InUse(g), known <= Len(past[g]),
           \A i \in 1..Len(frames) : frames[i].type \in {"Update", "Unsub"},
           linked[d] =>
              /\ AllLeft(up[here(d)] \o frames, follows[here(d)])
              /\ \A i \in 1..Len(up[here(d)] \o frames) :
                    /\ (up[here(d)] \o frames)[i].gen <= g
                    /\ (up[here(d)] \o frames)[i].gen # g
              /\ \A i \in 1..Len(down[d]) : down[d][i].gen <= g /\ down[d][i].gen # g
              /\ g \notin follows[here(d)]
    PROVE  Safe'
<1> DEFINE c == here(d)
           t == Opened(g, known, fresh(d))
           out == Append(frames, Sub(g, t.seq))
           log == past[g]
           row == room[g]
           U == up[c] \o frames
           D == down[d]
           F == follows[c]
<1>1. session' = [session EXCEPT ![d] = t] /\ Send(d, out)
  BY DEF Begin
<1>2. /\ log \in Seq(SUBSET Op) /\ c \in Socket /\ up[c] \in Seq(Frame) /\ D \in Seq(Answer)
      /\ U \in Seq(Frame)
  BY Parts, SeqTypes
<1>3. /\ t \in Session /\ t.on /\ t.gen = g /\ ~t.joined /\ ~t.online /\ t.seq = 0
      /\ LocalOK(t, log, row)
  BY <1>2, NewSession
<1>4. UNCHANGED <<room, past, down, cur, linked, follows, unwritten, stored>>
  BY DEF hub
<1>5. session'[d] = t /\ \A x \in Device \ {d} : session'[x] = session[x]
  BY <1>1 DEF TypeOK
<1>6. Sub(g, 0) \in Frame /\ Sub(g, 0).type = "Sub"
  BY DEF Sub, Frame
<1>7. out \in Seq(Frame) /\ up[c] \o out = U \o <<Sub(t.gen, 0)>>
  <2> DEFINE f == Sub(g, 0)
             V == up[c]
  <2>1. f \in Frame /\ V \in Seq(Frame) /\ out = Append(frames, f) /\ f = Sub(t.gen, 0)
    BY <1>2, <1>3, <1>6
  <2> HIDE DEF f, V, out, t
  <2>2. V \o Append(frames, f) = (V \o frames) \o <<f>> /\ Append(frames, f) \in Seq(Frame)
    BY <2>1, AppendOut
  <2> QED
    BY <2>1, <2>2 DEF V
<1>8. \A i \in 1..Len(out) : CopyOK(out[i], past[out[i].gen])
  <2>1. \A i \in 1..Len(out) : out[i].type \in {"Update", "Unsub", "Sub"}
    <3> SUFFICES ASSUME NEW i \in 1..Len(out) PROVE out[i].type \in {"Update", "Unsub", "Sub"}
      OBVIOUS
    <3>1. out = Append(frames, Sub(g, 0))
      BY <1>3
    <3>2. i \in 1..Len(frames) \/ out[i] = Sub(g, 0)
      BY <1>6, <3>1
    <3>3. i \in 1..Len(frames) => out[i] = frames[i]
      BY <1>6, <3>1
    <3> QED
      BY <1>6, <3>2, <3>3
  <2> QED
    BY <2>1 DEF CopyOK
<1>9. CopiesOK'
  BY <1>1, <1>4, <1>7, <1>8, CopiesSent DEF Safe
<1>10. SessionOK(d)'
  BY <1>3, <1>4, <1>5 DEF SessionOK, InUse
<1>11. here(d)' = c
  BY <1>4 DEF here
<1> HIDE DEF t, out
<1>12. WireOK(d)'
  <2>1. CASE linked[d]
    <3>1. /\ AllLeft(U, F) /\ g \notin F
          /\ \A i \in 1..Len(U) : U[i].gen <= t.gen /\ U[i].gen # t.gen
          /\ \A i \in 1..Len(D) : D[i].gen <= t.gen /\ D[i].gen # t.gen
      BY <1>3, <2>1
    <3>2. up'[c] = U \o <<Sub(t.gen, 0)>>
      BY <1>1, <1>7, <2>1, SendParts
    <3>3. past'[g] = log /\ room'[g] = row /\ follows'[c] = F /\ down'[d] = D /\ linked'[d]
      BY <1>4, <2>1
    <3> HIDE DEF U, D, F, log, row
    <3>4. /\ Conn(t, U \o <<Sub(t.gen, 0)>>, D, F, log, row)
          /\ LeavesOK(t, U \o <<Sub(t.gen, 0)>>, F)
      BY <1>2, <1>3, <3>1, NewConn
    <3>5. Held(d)'
      BY <1>3, <1>5, <1>11, <3>2, <3>3, <3>4 DEF Held
    <3> QED
      BY <3>3, <3>5 DEF WireOK
  <2>2. CASE ~linked[d]
    <3>1. down[d] = <<>>
      BY <2>2 DEF Safe, WireOK
    <3> QED
      BY <1>3, <1>4, <1>5, <2>2, <3>1 DEF WireOK
  <2> QED
    BY <2>1, <2>2
<1>13. AgreedOK(unwritten[d])' /\ AgreedOK(stored[d])'
  <2>1. AgreedOK(unwritten[d]) /\ AgreedOK(stored[d])
    BY DEF Safe
  <2> QED
    BY <1>4, <2>1 DEF AgreedOK, InUse
<1>14. \A e \in Socket : e[1] # d => up'[e] = up[e] /\ follows'[e] = follows[e]
  BY <1>1, <1>4, SendParts
<1> QED
  BY <1>4, <1>5, <1>9, <1>10, <1>12, <1>13, <1>14, DeviceFrame

(* Where a note was last agreed on, its room is in use that far.            *)
LEMMA KnownIsRoom ==
    ASSUME TypeOK, Safe, NEW d \in Device, NEW g \in Gen
    PROVE  /\ knownAt(d, g) \in Nat /\ knownAt(d, g) <= Len(past[g])
           /\ lastAgreed(d) # None => lastAgreed(d).gen \in Gen /\ InUse(lastAgreed(d).gen)
<1> DEFINE v == lastAgreed(d)
<1>1. v \in Agreed \cup {None} /\ AgreedOK(v)
  BY Parts DEF lastAgreed, Safe
<1>2. Len(past[g]) \in Nat
  BY Parts
<1>3. v # None => v.gen \in Gen /\ v.seq \in Nat
  BY <1>1 DEF Agreed
<1>4. v # None => v.seq <= Len(past[v.gen]) /\ InUse(v.gen)
  BY <1>1 DEF AgreedOK
<1> HIDE DEF v
<1>5. knownAt(d, g) = IF v # None /\ v.gen = g THEN v.seq ELSE 0
  BY DEF knownAt, v
<1>6. knownAt(d, g) \in Nat /\ knownAt(d, g) <= Len(past[g])
  BY <1>2, <1>3, <1>4, <1>5
<1> QED
  BY <1>3, <1>4, <1>6 DEF v

(* A note is opened, on a quiet wire.                                       *)
LEMMA OpenSafe ==
    ASSUME Kept, NEW n \in Nat, TypeTo(n), TypeOK, Safe, NEW d \in Device, Open(d)
    PROVE  Safe'
<1> DEFINE s == session[d]
           U == up[here(d)]
           D == down[d]
           F == follows[here(d)]
           g == IF lastAgreed(d) # None THEN lastAgreed(d).gen ELSE 0
           known == knownAt(d, g)
<1>1. /\ ~s.on /\ U \o D = <<>> /\ Begin(d, g, known, <<>>)
      /\ UNCHANGED <<hub, down, cur, linked, follows, file, tally>>
  BY DEF Open, Kept
<1>2. U \in Seq(Frame) /\ D \in Seq(Answer)
  BY Parts
<1>3. U = <<>> /\ D = <<>>
  <2>1. Len(U) \in Nat /\ Len(D) \in Nat /\ Len(U \o D) = Len(U) + Len(D)
    BY <1>2
  <2>2. Len(U) = 0 /\ Len(D) = 0
    BY <1>1, <2>1
  <2> QED
    BY <1>2, <2>2
<1>4. g \in Gen /\ InUse(g)
  <2>1. 0 \in Gen
    BY RoomAssumption DEF Gen
  <2>2. CASE lastAgreed(d) # None
    BY <2>1, <2>2, KnownIsRoom
  <2>3. CASE lastAgreed(d) = None
    BY <2>1, <2>3 DEF InUse
  <2> QED
    BY <2>2, <2>3
<1>5. known \in Nat /\ known <= Len(past[g])
  BY <1>4, KnownIsRoom
<1>6. fresh(d) \in Nat
  BY FreshType
<1>7. <<>> \in Seq(Frame) /\ \A i \in 1..Len(<<>>) : <<>>[i].type \in {"Update", "Unsub"}
  OBVIOUS
<1>8. ASSUME linked[d] PROVE F = {}
  <2>1. LeavesOK(s, U, F)
    BY <1>8 DEF Safe, WireOK, Held
  <2> QED
    BY <1>1, <1>3, <2>1 DEF LeavesOK
<1>9. U \o <<>> = <<>> /\ Len(<<>>) = 0
  BY <1>3
<1>10. ASSUME linked[d]
       PROVE  /\ AllLeft(U \o <<>>, F)
              /\ \A i \in 1..Len(U \o <<>>) : (U \o <<>>)[i].gen <= g /\ (U \o <<>>)[i].gen # g
              /\ \A i \in 1..Len(D) : D[i].gen <= g /\ D[i].gen # g
              /\ g \notin F
  BY <1>3, <1>8, <1>9, <1>10 DEF AllLeft
<1>11. UNCHANGED <<hub, down, cur, linked, follows, unwritten, stored>>
  BY <1>1 DEF file
<1>12. PICK h \in Gen, k \in Nat : h = g /\ k = known
  BY <1>4, <1>5
<1>13. Begin(d, h, k, <<>>) /\ InUse(h) /\ k <= Len(past[h])
  BY <1>1, <1>4, <1>5, <1>12
<1>14. linked[d] =>
          /\ AllLeft(U \o <<>>, F)
          /\ \A i \in 1..Len(U \o <<>>) : (U \o <<>>)[i].gen <= h /\ (U \o <<>>)[i].gen # h
          /\ \A i \in 1..Len(D) : D[i].gen <= h /\ D[i].gen # h
          /\ h \notin F
  BY <1>10, <1>12
<1> QED
  BY <1>6, <1>7, <1>11, <1>13, <1>14, BeginSafe

(* A session moves on to the room's next generation.                        *)
LEMMA FollowSafe ==
    ASSUME NEW n \in Nat, TypeTo(n), TypeOK, Safe, NEW d \in Device, Follow(d)
    PROVE  Safe'
<1> DEFINE s == session[d]
           c == here(d)
           U == up[c]
           D == down[d]
           F == follows[c]
           g == s.gen + 1
           k == IF knownAt(d, g) < 1 THEN 1 ELSE knownAt(d, g)
           P == parting(s)
           log == past[s.gen]
           row == room[s.gen]
<1>1. /\ s.on /\ s.moved /\ g \in Gen /\ Begin(d, g, k, P)
      /\ UNCHANGED <<hub, down, cur, linked, follows, file, tally>>
  BY DEF Follow
<1>2. /\ s \in Session /\ s \in SessionTo(n) /\ s.gen \in Gen /\ s.gen \in Nat
      /\ U \in Seq(Frame) /\ D \in Seq(Answer) /\ F \in SUBSET Gen /\ c \in Socket
  <2>1. s \in SessionTo(n)
    BY DEF TypeTo, SessionsTo
  <2> QED
    BY <2>1, Parts, SessionFields
<1>3. past[g] # <<>> /\ InUse(g)
  <2>1. row.moved /\ RoomOK(s.gen)
    BY <1>1, <1>2 DEF Safe, SessionOK, LocalOK, PlaceOK
  <2> QED
    BY <2>1 DEF RoomOK, InUse
<1>4. k \in Nat /\ k <= Len(past[g])
  <2> DEFINE j == knownAt(d, g)
             len == Len(past[g])
  <2>1. j \in Nat /\ j <= len
    BY <1>1, KnownIsRoom
  <2>2. len \in Nat /\ len >= 1
    <3>1. past[g] \in Seq(SUBSET Op)
      BY <1>1, Parts
    <3> QED
      BY <1>3, <3>1
  <2> HIDE DEF j, len
  <2>3. (IF j < 1 THEN 1 ELSE j) \in Nat /\ (IF j < 1 THEN 1 ELSE j) <= len
    BY <2>1, <2>2
  <2> QED
    BY <2>3 DEF j, len
<1>5. /\ P \in Seq(Frame)
      /\ \A i \in 1..Len(P) : P[i].gen = s.gen /\ P[i].type \in {"Update", "Unsub"}
  BY <1>2, PartingParts
<1>6. fresh(d) \in Nat
  BY FreshType
<1>7. ASSUME linked[d]
      PROVE  /\ AllLeft(U \o P, F)
             /\ \A i \in 1..Len(U \o P) : (U \o P)[i].gen <= g /\ (U \o P)[i].gen # g
             /\ \A i \in 1..Len(D) : D[i].gen <= g /\ D[i].gen # g
             /\ g \notin F
  <2>1. LeavesOK(s, U, F) /\ Conn(s, U, D, F, log, row)
    BY <1>1, <1>7 DEF Safe, WireOK, Held
  <2> HIDE DEF s, U, D, F, log, row
  <2>2. AllLeft(U \o P, F)
    BY <1>2, <2>1, PartingLeaves
  <2>3. ASSUME NEW x \in Nat, x <= s.gen PROVE x <= g /\ x # g
    BY <1>2, <2>3
  <2>4. \A i \in 1..Len(U) : U[i].gen \in Nat /\ U[i].gen <= s.gen
    <3>1. \A i \in 1..Len(U) : U[i] \in Frame /\ UpOK(s, U[i])
      BY <1>2, <2>1 DEF Conn, AsksOK
    <3> QED
      BY <3>1 DEF UpOK, Frame, Gen
  <2>5. \A i \in 1..Len(D) : D[i].gen \in Nat /\ D[i].gen <= s.gen
    <3>1. \A i \in 1..Len(D) : D[i] \in Answer /\ DownOK(s, D[i], log, row)
      BY <1>2, <2>1 DEF Conn, AnswersOK
    <3>2. \A i \in 1..Len(D) : D[i].gen \in Gen
      BY <3>1, AnswerFields
    <3> QED
      BY <3>1, <3>2 DEF DownOK, Gen
  <2>6. g \notin F
    <3>1. g \in F => g <= s.gen
      BY <1>1, <1>2, <2>1, FollowsOlder DEF Conn
    <3> QED
      BY <1>2, <2>3, <3>1
  <2>7. ASSUME NEW i \in 1..Len(U \o P)
        PROVE  (U \o P)[i].gen <= g /\ (U \o P)[i].gen # g
    <3> HIDE DEF P
    <3>1. /\ Len(U) \in Nat /\ Len(P) \in Nat /\ Len(U \o P) = Len(U) + Len(P)
          /\ \A j \in 1..Len(U) : (U \o P)[j] = U[j]
          /\ \A j \in (Len(U) + 1)..Len(U \o P) : (U \o P)[j] = P[j - Len(U)]
      BY <1>2, <1>5, ConcatProperties
    <3>2. CASE i \in 1..Len(U)
      <4>1. (U \o P)[i].gen \in Nat /\ (U \o P)[i].gen <= s.gen
        BY <2>4, <3>1, <3>2
      <4> QED
        BY <2>3, <4>1
    <3>3. CASE i \notin 1..Len(U)
      <4>1. i \in (Len(U) + 1)..Len(U \o P) /\ i - Len(U) \in 1..Len(P)
        BY <3>1, <3>3
      <4>2. (U \o P)[i].gen = s.gen
        BY <1>5, <3>1, <4>1
      <4> QED
        BY <1>2, <4>2
    <3> QED
      BY <3>2, <3>3
  <2>8. \A i \in 1..Len(D) : D[i].gen <= g /\ D[i].gen # g
    BY <2>3, <2>5
  <2> QED
    BY <2>2, <2>6, <2>7, <2>8
<1>8. UNCHANGED <<hub, down, cur, linked, follows, unwritten, stored>>
  BY <1>1 DEF file
<1>9. PICK h \in Gen, j \in Nat : h = g /\ j = k
  BY <1>1, <1>4
<1>10. Begin(d, h, j, P) /\ InUse(h) /\ j <= Len(past[h])
  BY <1>1, <1>3, <1>4, <1>9
<1>11. \A i \in 1..Len(P) : P[i].type \in {"Update", "Unsub"}
  BY <1>5
<1>12. linked[d] =>
          /\ AllLeft(U \o P, F)
          /\ \A i \in 1..Len(U \o P) : (U \o P)[i].gen <= h /\ (U \o P)[i].gen # h
          /\ \A i \in 1..Len(D) : D[i].gen <= h /\ D[i].gen # h
          /\ h \notin F
  BY <1>7, <1>9
<1> HIDE DEF P
<1> QED
  BY <1>5, <1>6, <1>8, <1>10, <1>11, <1>12, BeginSafe

(* A note is closed: its session leaves, the socket stays.                  *)
LEMMA LeftOK ==
    ASSUME NEW s, NEW U, NEW F, AllLeft(U, F) PROVE LeavesOK(s, U, F)
BY DEF AllLeft, LeavesOK

(* A note is closed.                                                        *)
LEMMA CloseSafe ==
    ASSUME NEW n \in Nat, TypeTo(n), TypeOK, Safe, NEW d \in Device, Close(d)
    PROVE  Safe'
<1> DEFINE s == session[d]
           c == here(d)
           U == up[c]
           F == follows[c]
           P == parting(s)
<1>1. /\ Send(d, P) /\ session' = [session EXCEPT ![d] = Off]
      /\ UNCHANGED <<room, past, down, cur, linked, follows, unwritten, stored>>
  BY DEF Close, hub
<1>2. s \in SessionTo(n) /\ U \in Seq(Frame) /\ c \in Socket
  <2>1. s \in SessionTo(n)
    BY DEF TypeTo, SessionsTo
  <2> QED
    BY <2>1, Parts
<1>3. P \in Seq(Frame) /\ \A i \in 1..Len(P) : CopyOK(P[i], past[P[i].gen])
  BY <1>2, PartingParts DEF CopyOK
<1>4. session'[d] = Off /\ \A x \in Device \ {d} : session'[x] = session[x]
  BY <1>1 DEF TypeOK
<1>5. Off.on = FALSE /\ Off.online = FALSE
  BY DEF Off, Opened
<1>6. SessionOK(d)'
  BY <1>4, <1>5 DEF SessionOK
<1>7. here(d)' = c
  BY <1>1 DEF here
<1> HIDE DEF P
<1>8. WireOK(d)'
  <2>1. CASE linked[d]
    <3>1. LeavesOK(s, U, F)
      BY <2>1 DEF Safe, WireOK, Held
    <3>2. AllLeft(U \o P, F)
      BY <1>2, <3>1, PartingLeaves DEF P
    <3>3. up'[c] = U \o P
      BY <1>1, <2>1, SendParts
    <3>4. Held(d)'
      BY <1>1, <1>4, <1>5, <1>7, <3>2, <3>3, LeftOK DEF Held
    <3> QED
      BY <1>1, <2>1, <3>4 DEF WireOK
  <2>2. CASE ~linked[d]
    <3>1. down[d] = <<>>
      BY <2>2 DEF Safe, WireOK
    <3> QED
      BY <1>1, <1>4, <1>5, <2>2, <3>1 DEF WireOK
  <2> QED
    BY <2>1, <2>2
<1>9. CopiesOK'
  BY <1>1, <1>3, CopiesSent DEF Safe
<1>10. AgreedOK(unwritten[d])' /\ AgreedOK(stored[d])'
  <2>1. AgreedOK(unwritten[d]) /\ AgreedOK(stored[d])
    BY DEF Safe
  <2> QED
    BY <1>1, <2>1 DEF AgreedOK, InUse
<1>11. \A e \in Socket : e[1] # d => up'[e] = up[e] /\ follows'[e] = follows[e]
  BY <1>1, SendParts
<1> QED
  BY <1>1, <1>4, <1>6, <1>8, <1>9, <1>10, <1>11, DeviceFrame

-----------------------------------------------------------------------------
(* Sockets come and go.                                                     *)

(* Fewer frames, or a Sub alone.                                            *)
LEMMA CopiesGone ==
    ASSUME CopiesOK, UNCHANGED past,
           \A k \in Socket : up'[k] = up[k] \/ \A i \in 1..Len(up'[k]) : up'[k][i].type = "Sub"
    PROVE  CopiesOK'
<1> SUFFICES ASSUME NEW k \in Socket, NEW i \in 1..Len(up'[k])
             PROVE  CopyOK(up'[k][i], past[up'[k][i].gen])
  BY DEF CopiesOK
<1>1. CASE up'[k] = up[k]
  BY <1>1 DEF CopiesOK
<1>2. CASE up'[k][i].type = "Sub"
  BY <1>2 DEF CopyOK
<1> QED
  BY <1>1, <1>2

(* The hub drops a dead socket.                                             *)
LEMMA SweepSafe ==
    ASSUME TypeOK, Safe, NEW k \in Socket, Sweep(k) PROVE Safe'
<1>1. /\ UNCHANGED <<room, past, down, cur, linked, session, unwritten, stored>>
      /\ \A d \in Device : linked[d] => here(d) # k
      /\ \A c \in Socket : c # k => up'[c] = up[c] /\ follows'[c] = follows[c]
      /\ up'[k] = <<>>
  BY DEF Sweep, hub, file, TypeOK
<1>2. ASSUME NEW c \in Socket
      PROVE  up'[c] = up[c] \/ \A i \in 1..Len(up'[c]) : up'[c][i].type = "Sub"
  BY <1>1
<1>3. CopiesOK'
  BY <1>1, <1>2, CopiesGone DEF Safe
<1>4. ASSUME NEW g \in Gen PROVE RoomOK(g)'
  <2>1. RoomOK(g)
    BY DEF Safe
  <2> QED
    BY <1>1, <2>1 DEF RoomOK
<1>5. ASSUME NEW d \in Device
      PROVE  SessionOK(d)' /\ WireOK(d)' /\ AgreedOK(unwritten[d])' /\ AgreedOK(stored[d])'
  <2>1. /\ SessionOK(d) /\ WireOK(d) /\ AgreedOK(unwritten[d]) /\ AgreedOK(stored[d])
    BY DEF Safe
  <2>2. SessionOK(d)' /\ AgreedOK(unwritten[d])' /\ AgreedOK(stored[d])'
    BY <1>1, <2>1 DEF SessionOK, AgreedOK, InUse
  <2>3. here(d)' = here(d) /\ here(d) \in Socket
    BY <1>1, Parts DEF here
  <2>4. linked[d] => up'[here(d)] = up[here(d)] /\ follows'[here(d)] = follows[here(d)]
    BY <1>1, <2>3
  <2>5. WireOK(d)'
    BY <1>1, <2>1, <2>3, <2>4 DEF WireOK, Held
  <2> QED
    BY <2>2, <2>5
<1> QED
  BY <1>3, <1>4, <1>5 DEF Safe

(* A session whose socket is lost is where it was.                          *)
LEMMA OfflineOK ==
    ASSUME NEW s \in Session, NEW log, NEW row, LocalOK(s, log, row)
    PROVE  /\ LocalOK(offline(s), log, row) /\ offline(s).on = s.on
           /\ offline(s).gen = s.gen /\ ~offline(s).online
<1> DEFINE t == offline(s)
<1>1. /\ t.on = s.on /\ t.gen = s.gen /\ t.online = FALSE /\ t.left = None
      /\ t.joined = s.joined /\ t.moved = s.moved /\ t.seq = s.seq /\ t.known = s.known
      /\ t.name = s.name /\ t.doc = s.doc /\ t.pending = s.pending
      /\ t.unacked = s.unacked /\ t.sent = s.sent
  BY DEF offline, Session
<1> HIDE DEF t
<1>2. PlaceOK(t, log, row)
  BY <1>1 DEF LocalOK, PlaceOK
<1>3. OwesOK(t, {}, log)
  BY <1>1 DEF LocalOK, OwesOK
<1> QED
  BY <1>1, <1>2, <1>3 DEF LocalOK, t

(* A device's socket is lost.                                               *)
LEMMA UnlinkSafe ==
    ASSUME TypeOK, Safe, NEW d \in Device, Unlink(d), NEW t, ~t.online,
           session' = [session EXCEPT ![d] = t],
           t.on => /\ session[d].on /\ t.gen = session[d].gen
                   /\ LocalOK(t, past[t.gen], room[t.gen]),
           unwritten' = unwritten \/ unwritten' = [unwritten EXCEPT ![d] = None]
    PROVE  Safe'
<1>1. /\ UNCHANGED <<room, past, cur, follows, stored>> /\ linked'[d] = FALSE
      /\ down'[d] = <<>> /\ session'[d] = t
      /\ \A x \in Device \ {d} : /\ session'[x] = session[x] /\ down'[x] = down[x]
                                 /\ linked'[x] = linked[x] /\ unwritten'[x] = unwritten[x]
  BY DEF Unlink, hub, TypeOK
<1>2. here(d) \in Socket /\ here(d)[1] = d
  BY Parts DEF here
<1>3. \A k \in Socket : up'[k] = up[k] \/ (up'[k] = <<>> /\ k = here(d))
  BY <1>2 DEF Unlink, TypeOK
<1>4. CopiesOK'
  <2>1. \A k \in Socket : up'[k] = up[k] \/ \A i \in 1..Len(up'[k]) : up'[k][i].type = "Sub"
    BY <1>3
  <2> QED
    BY <1>1, <2>1, CopiesGone DEF Safe
<1>5. SessionOK(d)'
  <2>1. t.on => InUse(t.gen)
    BY DEF Safe, SessionOK
  <2> QED
    BY <1>1, <2>1 DEF SessionOK, InUse
<1>6. WireOK(d)'
  BY <1>1 DEF WireOK
<1>7. AgreedOK(unwritten[d])' /\ AgreedOK(stored[d])'
  <2>1. AgreedOK(unwritten[d]) /\ AgreedOK(stored[d])
    BY DEF Safe
  <2>2. unwritten'[d] \in {None, unwritten[d]}
    BY DEF TypeOK
  <2> QED
    BY <1>1, <2>1, <2>2 DEF AgreedOK, InUse
<1>8. \A k \in Socket : k[1] # d => up'[k] = up[k] /\ follows'[k] = follows[k]
  BY <1>1, <1>2, <1>3
<1> QED
  BY <1>1, <1>4, <1>5, <1>6, <1>7, <1>8, DeviceFrame

(* The connection drops.                                                    *)
LEMMA DisconnectSafe ==
    ASSUME TypeOK, Safe, NEW d \in Device, Disconnect(d) PROVE Safe'
<1> DEFINE s == session[d]
           t == offline(s)
<1>1. /\ Unlink(d) /\ session' = [session EXCEPT ![d] = t] /\ unwritten' = unwritten
  BY DEF Disconnect
<1>2. s \in Session
  BY Parts
<1>3. s.on => /\ LocalOK(t, past[s.gen], room[s.gen])
  BY <1>2, OfflineOK DEF Safe, SessionOK
<1>4. t.on = s.on /\ t.gen = s.gen /\ ~t.online
  BY <1>2 DEF offline, Session
<1> HIDE DEF t
<1> QED
  BY <1>1, <1>3, <1>4, UnlinkSafe

(* The app dies.                                                            *)
LEMMA CrashSafe ==
    ASSUME TypeOK, Safe, NEW d \in Device, Crash(d) PROVE Safe'
<1>1. /\ Unlink(d) /\ session' = [session EXCEPT ![d] = Off]
      /\ unwritten' = [unwritten EXCEPT ![d] = None]
  BY DEF Crash
<1>2. Off.on = FALSE /\ Off.online = FALSE
  BY DEF Off, Opened
<1> QED
  BY <1>1, <1>2, UnlinkSafe

(* A socket just opened asks for the room from where the session is.        *)
LEMMA AskedConn ==
    ASSUME NEW s \in Session, s.on, ~s.online, NEW log \in Seq(SUBSET Op), NEW row,
           LocalOK(s, log, row)
    PROVE  /\ Conn(s, <<Sub(s.gen, s.seq)>>, <<>>, {}, log, row)
           /\ LeavesOK(s, <<Sub(s.gen, s.seq)>>, {})
<1> DEFINE f == Sub(s.gen, s.seq)
           U == <<f>>
<1>1. f.type = "Sub" /\ f.gen = s.gen /\ f.since = s.seq /\ s.gen \in Nat /\ s.seq \in Nat
  BY SessionFields DEF Sub
<1> HIDE DEF f
<1>2. Len(U) = 1 /\ U[1] = f /\ \A i \in 1..Len(U) : i = 1
  OBVIOUS
<1> HIDE DEF U
<1>3. UpOK(s, f)
  BY <1>1 DEF UpOK
<1>4. \A i \in 1..Len(U) : U[i] = f
  BY <1>2
<1>5. AsksOK(s, U, <<>>, {})
  BY <1>1, <1>2, <1>3, <1>4 DEF AsksOK, Alone
<1>6. AnswersOK(s, <<>>, log, row)
  BY DEF AnswersOK
<1>7. LeavesOK(s, U, {})
  BY <1>1, <1>4 DEF LeavesOK
<1> QED
  BY <1>5, <1>6, <1>7 DEF Conn, U, f

(* A new socket asks for the room from where the session is.                *)
LEMMA ConnectSafe ==
    ASSUME TypeOK, Safe, NEW d \in Device, Connect(d) PROVE Safe'
<1> DEFINE s == session[d]
           next == <<d, 1 - cur[d]>>
           log == past[s.gen]
           row == room[s.gen]
           U == IF s.on THEN <<Sub(s.gen, s.seq)>> ELSE <<>>
<1>1. /\ ~linked[d] /\ linked' = [linked EXCEPT ![d] = TRUE]
      /\ cur' = [cur EXCEPT ![d] = 1 - @]
      /\ follows' = [follows EXCEPT ![next] = {}] /\ up' = [up EXCEPT ![next] = U]
      /\ UNCHANGED <<room, past, down, session, unwritten, stored>>
  BY DEF Connect, hub, file
<1>2. next \in Socket /\ next[1] = d
  <2>1. cur[d] \in {0, 1}
    BY DEF TypeOK
  <2>2. 1 - cur[d] \in {0, 1}
    BY <2>1
  <2>3. next[1] = d
    OBVIOUS
  <2> QED
    BY <2>2, <2>3, Zenon DEF Socket
<1>3. here(d)' = next /\ linked'[d]
  BY <1>1 DEF here, TypeOK
<1>4. up'[next] = U /\ follows'[next] = {}
  BY <1>1, <1>2 DEF TypeOK
<1>5. \A k \in Socket : k # next => up'[k] = up[k] /\ follows'[k] = follows[k]
  BY <1>1 DEF TypeOK
<1>6. down[d] = <<>> /\ ~s.online /\ SessionOK(d)
  BY <1>1 DEF Safe, WireOK
<1>7. s \in Session /\ log \in Seq(SUBSET Op)
  BY Parts
<1>8. CopiesOK'
  <2>1. \A i \in 1..Len(U) : U[i].type = "Sub"
    BY DEF Sub
  <2>2. \A k \in Socket : up'[k] = up[k] \/ \A i \in 1..Len(up'[k]) : up'[k][i].type = "Sub"
    BY <1>4, <1>5, <2>1
  <2> QED
    BY <1>1, <2>2, CopiesGone DEF Safe
<1>9. SessionOK(d)'
  BY <1>1, <1>6 DEF SessionOK, InUse
<1>10. LeavesOK(s, U, {}) /\ (s.on => Conn(s, U, <<>>, {}, log, row))
  <2>1. CASE s.on
    <3>1. LocalOK(s, log, row)
      BY <1>6, <2>1 DEF SessionOK
    <3> HIDE DEF s, log, row
    <3>2. /\ Conn(s, <<Sub(s.gen, s.seq)>>, <<>>, {}, log, row)
          /\ LeavesOK(s, <<Sub(s.gen, s.seq)>>, {})
      BY <1>6, <1>7, <2>1, <3>1, AskedConn
    <3> QED
      BY <2>1, <3>2
  <2>2. CASE ~s.on
    <3>1. U = <<>>
      BY <2>2
    <3> QED
      BY <2>2, <3>1 DEF LeavesOK
  <2> QED
    BY <2>1, <2>2
<1>11. WireOK(d)'
  <2> HIDE DEF U
  <2>1. Held(d)'
    BY <1>1, <1>3, <1>4, <1>6, <1>10 DEF Held
  <2> QED
    BY <1>3, <2>1 DEF WireOK
<1>12. AgreedOK(unwritten[d])' /\ AgreedOK(stored[d])'
  <2>1. AgreedOK(unwritten[d]) /\ AgreedOK(stored[d])
    BY DEF Safe
  <2> QED
    BY <1>1, <2>1 DEF AgreedOK, InUse
<1>13. \A x \in Device \ {d} :
          /\ session'[x] = session[x] /\ down'[x] = down[x] /\ cur'[x] = cur[x]
          /\ linked'[x] = linked[x] /\ unwritten'[x] = unwritten[x]
          /\ stored'[x] = stored[x]
  BY <1>1 DEF TypeOK
<1>14. \A k \in Socket : k[1] # d => up'[k] = up[k] /\ follows'[k] = follows[k]
  BY <1>2, <1>5
<1>15. UNCHANGED <<room, past>>
  BY <1>1
<1> QED
  BY <1>8, <1>9, <1>11, <1>12, <1>13, <1>14, <1>15, DeviceFrame

-----------------------------------------------------------------------------
(* The invariant holds.                                                     *)

(* Before anything happened.                                                *)
LEMMA InitSafe == ASSUME Init PROVE Safe
<1>1. \A g \in Gen : past[g] = <<>> /\ room[g] = NoRow
  BY DEF Init
<1>2. \A g \in Gen : RoomOK(g)
  <2> SUFFICES ASSUME NEW g \in Gen PROVE RoomOK(g)
    OBVIOUS
  <2>1. ~NoRow.moved /\ NoRow.snapSeq = 0 /\ NoRow.snap = {} /\ NoRow.deltas = <<>>
        /\ NoRow.log = 0
    BY DEF NoRow
  <2>2. first(<<>>, 0) = {}
    BY FirstNext
  <2>3. SubSeq(<<>>, 1, 0) = <<>> /\ Len(<<>>) = 0
    OBVIOUS
  <2>4. RowIsLog(NoRow, <<>>)
    BY <2>1, <2>2, <2>3 DEF RowIsLog
  <2> QED
    BY <1>1, <2>1, <2>4 DEF RoomOK
<1>3. CopiesOK
  BY DEF Init, CopiesOK
<1>4. ASSUME NEW d \in Device
      PROVE  SessionOK(d) /\ WireOK(d) /\ AgreedOK(unwritten[d]) /\ AgreedOK(stored[d])
  <2>1. session[d] = Off /\ up[here(d)] = <<>> /\ follows[here(d)] = {} /\ linked[d]
        /\ unwritten[d] = None /\ stored[d] = None
    BY DEF Init, here, Socket
  <2>2. ~Off.on
    BY DEF Off, Opened
  <2>3. LeavesOK(session[d], <<>>, {})
    BY DEF LeavesOK
  <2>4. Held(d)
    BY <2>1, <2>2, <2>3 DEF Held
  <2> QED
    BY <2>1, <2>2, <2>4 DEF SessionOK, WireOK, AgreedOK
<1> QED
  BY <1>2, <1>3, <1>4 DEF Safe

(* Whatever a device does.                                                  *)
LEMMA DeviceSafe ==
    ASSUME Kept, NEW n \in Nat, TypeTo(n), TypeOK, TypeOK', Safe, NEW d \in Device,
           \/ Act(d) \/ EarlyAckTimeout(d) \/ AskRotate(d) \/ Save(d) \/ WriteAgreed(d)
           \/ Disconnect(d) \/ Crash(d) \/ Close(d)
           \/ \E e \in Edit : Type(d, e)
    PROVE  Safe'
<1>1. CASE Receive(d)
  BY <1>1, ReceiveSafe
<1>2. CASE Open(d)
  BY <1>2, OpenSafe
<1>3. CASE Bind(d)
  BY <1>3, BindSafe
<1>4. CASE Flush(d)
  BY <1>4, FlushSafe
<1>5. CASE AckTimeout(d) \/ EarlyAckTimeout(d)
  <2>1. Resend(d)
    BY <1>5 DEF AckTimeout, EarlyAckTimeout
  <2> QED
    BY <2>1, ResendSafe
<1>6. CASE Follow(d)
  BY <1>6, FollowSafe
<1>7. CASE Connect(d)
  BY <1>7, ConnectSafe
<1>8. CASE AskRotate(d)
  BY <1>8, AskRotateSafe
<1>9. CASE Save(d)
  BY <1>9, UnchangedSafe DEF Save, hub, wire
<1>10. CASE WriteAgreed(d)
  BY <1>10, WriteAgreedSafe
<1>11. CASE Disconnect(d)
  BY <1>11, DisconnectSafe
<1>12. CASE Crash(d)
  BY <1>12, CrashSafe
<1>13. CASE Close(d)
  BY <1>13, CloseSafe
<1>14. CASE \E e \in Edit : Type(d, e)
  BY <1>14, TypeSafe
<1> QED
  BY <1>1, <1>2, <1>3, <1>4, <1>5, <1>6, <1>7, <1>8, <1>9, <1>10, <1>11, <1>12, <1>13, <1>14
  DEF Act

(* The invariant is inductive, given the types.                             *)
LEMMA NextSafe ==
    ASSUME Kept, NEW n \in Nat, TypeTo(n), TypeOK, TypeOK', Safe, [Next]_vars PROVE Safe'
<1>1. CASE \E k \in Socket : HubStep(k) \/ HubOver(k) \/ Sweep(k)
  BY <1>1, HubSafe, SweepSafe
<1>2. CASE \E d \in Device :
              \/ Act(d) \/ EarlyAckTimeout(d) \/ AskRotate(d) \/ Save(d) \/ WriteAgreed(d)
              \/ Disconnect(d) \/ Crash(d) \/ Close(d)
              \/ \E e \in Edit : Type(d, e)
  BY <1>2, DeviceSafe
<1>3. ~Wipe
  BY DEF Kept, Wipe, fault
<1>4. CASE UNCHANGED vars
  BY <1>4, UnchangedSafe DEF vars, hub, wire, file
<1> QED
  BY <1>1, <1>2, <1>3, <1>4 DEF Next

(* So it holds with the types, from the first state on.                     *)
LEMMA SafeHolds == ASSUME Kept PROVE Spec => [](TypeOK /\ Safe)
<1>1. TypeInv /\ TypeOK /\ TypeOK' /\ Safe /\ [Next]_vars => Safe'
  <2> SUFFICES ASSUME TypeInv, TypeOK, TypeOK', Safe, [Next]_vars PROVE Safe'
    OBVIOUS
  <2>1. PICK n \in Nat : TypeTo(n)
    BY DEF TypeInv
  <2> QED
    BY <2>1, NextSafe
<1>2. Init => Safe
  BY InitSafe
<1> QED
  BY <1>1, <1>2, TypesBounded, TypesHold, PTL DEF Spec

-----------------------------------------------------------------------------
(* What it says of the system.                                              *)

(* A settled device owes nothing: it shows what the room told it.           *)
LEMMA SafeAgreed == ASSUME TypeOK, Safe PROVE AgreedIsRoom
<1> SUFFICES ASSUME NEW d \in Device, settled(session[d])
             PROVE  /\ session[d].seq <= Len(past[session[d].gen])
                    /\ session[d].doc = upTo(session[d].gen, session[d].seq)
  BY DEF AgreedIsRoom
<1> DEFINE s == session[d]
           log == past[s.gen]
<1>1. s \in Session /\ s.gen \in Gen /\ log \in Seq(SUBSET Op) /\ s.seq \in Nat
  BY Parts DEF Session
<1>2. s.on /\ s.joined /\ s.pending = {} /\ s.unacked = {}
  BY DEF settled, synced
<1>3. LocalOK(s, log, room[s.gen])
  BY <1>2 DEF Safe, SessionOK
<1>4. s.seq <= Len(log) /\ first(log, s.seq) \subseteq s.doc
  BY <1>2, <1>3 DEF LocalOK, PlaceOK
<1>5. outgoing(s.unacked) = {}
  BY <1>2 DEF outgoing
<1>6. s.doc \subseteq first(log, s.seq)
  BY <1>2, <1>3, <1>5 DEF LocalOK, OwesOK
<1>7. upTo(s.gen, s.seq) = first(log, s.seq)
  BY <1>1, <1>4, UpToIsFirst
<1> QED
  BY <1>4, <1>6, <1>7

(* Rows are logs, and successors complete.                                  *)
LEMMA SafeKept == ASSUME TypeOK, Safe PROVE RoomKept
<1>1. RoomIsItsLog
  <2> SUFFICES ASSUME NEW g \in Gen, ~room[g].moved
               PROVE  room[g].snap \cup merged(room[g].deltas) = merged(past[g])
    BY DEF RoomIsItsLog
  <2>1. RowIsLog(room[g], past[g])
    BY DEF Safe, RoomOK
  <2>2. room[g] \in Row /\ past[g] \in Seq(SUBSET Op)
    BY Parts
  <2>3. merged(past[g]) = first(past[g], Len(past[g]))
    BY <2>2, MergedIsFirst
  <2> QED
    BY <2>1, <2>2, <2>3, RowText
<1>2. SuccessorComplete
  BY DEF SuccessorComplete, Safe, RoomOK
<1> QED
  BY <1>1, <1>2 DEF RoomKept

(* What is shown and not owed was told by the room.                         *)
LEMMA SafeTracked == ASSUME TypeOK, Safe PROVE OwnEditsTracked
<1> SUFFICES ASSUME NEW d \in Device, session[d].on
             PROVE  session[d].doc \subseteq merged(past[session[d].gen])
                        \cup session[d].pending \cup outgoing(session[d].unacked)
  BY DEF OwnEditsTracked
<1> DEFINE s == session[d]
           log == past[s.gen]
<1>1. s \in Session /\ log \in Seq(SUBSET Op) /\ s.seq \in Nat
  BY Parts DEF Session
<1>2. LocalOK(s, log, room[s.gen])
  BY DEF Safe, SessionOK
<1>3. s.seq <= Len(log) /\ s.doc \subseteq first(log, s.seq) \cup s.pending \cup outgoing(s.unacked)
  BY <1>2 DEF LocalOK, PlaceOK, OwesOK
<1>4. first(log, s.seq) \subseteq merged(log)
  BY <1>1, <1>3, MergedIsFirst, FirstIncludes
<1> QED
  BY <1>3, <1>4

(* While no log is lost and notes are reopened on a quiet wire, what a      *)
(* settled device calls agreed (session.ts settle), and may put in place of *)
(* the log, is exactly the room at its `seq`: for any devices, updates,     *)
(* resends, rate drops, dead sockets, crashes, rotations and generations.   *)
THEOREM AgreedTextIsRoom == ASSUME Kept PROVE Spec => []AgreedIsRoom
<1>1. TypeOK /\ Safe => AgreedIsRoom
  BY SafeAgreed
<1> QED
  BY <1>1, SafeHolds, PTL

(* And a room's row is its whole log, however compactions by several        *)
(* leaders interleave (store.ts compact); a rotated room's whole text is in *)
(* its successor's first update (docs.ts rotate).                           *)
THEOREM RoomIsKept == ASSUME Kept PROVE Spec => []RoomKept
<1>1. TypeOK /\ Safe => RoomKept
  BY SafeKept
<1> QED
  BY <1>1, SafeHolds, PTL

(* And an edit shown is in the room, or still pending or unacked, so it is  *)
(* sent again (session.ts sendUpdate, ack-queue.ts).                        *)
THEOREM EditsAreTracked == ASSUME Kept PROVE Spec => []OwnEditsTracked
<1>1. TypeOK /\ Safe => OwnEditsTracked
  BY SafeTracked
<1> QED
  BY <1>1, SafeHolds, PTL

=============================================================================
