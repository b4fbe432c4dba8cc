------------------------------ MODULE RoomStore ------------------------------
(***************************************************************************)
(* One live document as the relay's hub stores it (hub/store.ts): a row    *)
(* with a log of encrypted updates, a snapshot that stands for the first   *)
(* of them, and, once the document moved, a pointer instead of both.       *)
(*                                                                         *)
(* An update is a set of CRDT operations; merging updates is union.  An    *)
(* operation inserts an edit, under the client id of the Y.Doc that made   *)
(* it, or cuts an earlier insertion of it away.                            *)
(***************************************************************************)
EXTENDS Naturals, Sequences

CONSTANTS Edit, Device

Op == [edit : Edit, by : Device, client : Nat, cut : BOOLEAN]

(* Use(value), with the value worked out once.                              *)
With(value, Use(_)) == CHOOSE used \in {Use(v) : v \in {value}} : TRUE

(* Operations whose edit shows: inserted and not cut.                       *)
live(ops) == {o \in ops : ~o.cut /\ [o EXCEPT !.cut = TRUE] \notin ops}

(* What a reader of the document sees.                                      *)
Text(ops) == {o.edit : o \in live(ops)}

(* A fresh document holding just the text, each run under the client id     *)
(* that typed it.                                                           *)
rebuild(ops) == live(ops)

-----------------------------------------------------------------------------
(* log: the random name drawn with the first row, 0 for none; the deltas    *)
(* follow the snapshot, which stands for the first snapSeq updates.         *)
Row == [log : Nat, deltas : Seq(SUBSET Op), snap : SUBSET Op, snapSeq : Nat,
        moved : BOOLEAN]

NoRow == [log |-> 0, deltas |-> <<>>, snap |-> {}, snapSeq |-> 0, moved |-> FALSE]

exists(row) == row.log # 0 \/ row.moved

head(row) == row.snapSeq + Len(row.deltas)

merged(updates) == UNION {updates[i] : i \in DOMAIN updates}

(* insert: one more delta; the first one draws the log's name.              *)
insert(row, ops, name) ==
    [row EXCEPT !.log = IF exists(row) THEN @ ELSE name, !.deltas = Append(@, ops)]

(* Mutant: a second seed is appended to a room that has one.                *)
seedsAnything(row) == TRUE

seeds(row) == ~exists(row)

(* Mutant: the room is rebuilt whatever was appended since.                 *)
rotatesAnyHead(row, target, upto) == ~row.moved /\ seeds(target)

rotates(row, target, upto) == ~row.moved /\ head(row) = upto /\ seeds(target)

markMoved(row) ==
    [row EXCEPT !.deltas = <<>>, !.snap = {}, !.snapSeq = 0, !.moved = TRUE]

(* state: the snapshot only when `since` predates it, and the deltas after  *)
(* both; count is the number of deltas sent.                                *)
state(row, since) ==
    LET whole == since < row.snapSeq
        from  == IF whole THEN row.snapSeq ELSE since
        count == IF from < head(row) THEN head(row) - from ELSE 0
    IN  [head |-> head(row), log |-> row.log, whole |-> whole, count |-> count,
         ops |-> (IF whole THEN row.snap ELSE {})
                 \cup merged(SubSeq(row.deltas, from - row.snapSeq + 1, Len(row.deltas)))]

(* Mutant: a snapshot replaces the whole log, whatever it covers.           *)
compactAll(row, upto, ops) ==
    [row EXCEPT !.snap = ops, !.snapSeq = head(row), !.deltas = <<>>]

compact(row, upto, ops) ==
    LET covered == IF upto < head(row) THEN upto ELSE head(row)
    IN  IF covered <= row.snapSeq THEN row
        ELSE [row EXCEPT !.snap = ops, !.snapSeq = covered,
                  !.deltas = SubSeq(@, covered - row.snapSeq + 1, Len(@))]
=============================================================================
