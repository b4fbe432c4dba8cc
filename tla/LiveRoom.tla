------------------------------- MODULE LiveRoom -------------------------------
(***************************************************************************)
(* Live editing of one note: each device that has it open keeps a CRDT     *)
(* document in step with the note's room on the relay.  The hub stores and *)
(* forwards updates it cannot read; a device joins by folding its file     *)
(* into the room three-way, and sends what is typed until it is echoed.    *)
(* A room is rebuilt as its next generation to shed history (a rotation),  *)
(* and when the hub lost its log; devices follow the pointer left behind.  *)
(*                                                                         *)
(* A text is the set of edits it shows; every edit is made by one user.    *)
(* Nobody deletes: whatever leaves a text was taken out by the program.    *)
(* A session's queue runs one step at a time and drops what it had queued  *)
(* for a dead socket (epoch), so a handler with its awaits is one step and *)
(* frames in the queue are frames still on the wire.                       *)
(***************************************************************************)
EXTENDS RoomStore, FiniteSets

CONSTANTS
    Start,         \* the text every device's file has at first
    None,          \* no text, no agreement
    CompactAfter,  \* COMPACT_AFTER
    MaxGen,        \* bound: the last generation of the note's room
    MaxRotations,  \* bound: rotations the users ask for
    MaxSaves,      \* bound: writes of files and agreed texts
    MaxSent,       \* bound: updates a session sent when its ack timer fires
    Fault,         \* which faults happen
    MaxFaults      \* bound: how many of them

ASSUME RoomAssumption ==
    /\ Start \subseteq Edit /\ \A text \in SUBSET Edit : None # text
    /\ CompactAfter \in Nat \ {0} /\ MaxGen \in Nat
    /\ MaxRotations \in Nat /\ MaxSaves \in Nat /\ MaxSent \in Nat /\ MaxFaults \in Nat
    /\ Fault \subseteq {"drop", "late", "over", "early", "crash", "close", "reopen", "wipe",
                  "unnamed"}

Gen == 0..MaxGen
(* A device's sockets: the one it uses and the one it used before, which    *)
(* the hub may still be reading.                                            *)
Socket == Device \X {0, 1}

VARIABLES
    room,      \* the hub's row of each generation
    names,     \* log names drawn
    up,        \* per socket, frames on their way to the hub
    down,      \* per device, frames on their way to its session
    cur,       \* per device, which of its sockets it uses
    linked,    \* per device, whether that socket is up
    follows,   \* per socket, the generations the hub forwards to it
    session,   \* per device, its LiveSession
    view,      \* per device, the text in the open editor
    disk,      \* per device, the text in the file
    unwritten, \* per device, the agreed text still in memory
    stored,    \* per device, the agreed text kept in the plugin's folder
    typed, rotations, saves, faults,  \* counters behind the bounds
    past       \* history: every update of each generation's log

hub  == <<room, names, past>>
wire == <<up, down, cur, linked, follows>>
file == <<view, disk, unwritten, stored>>
tally == <<typed, rotations, saves, faults>>
vars == <<hub, wire, session, file, tally>>

-----------------------------------------------------------------------------
(* Frames.                                                                  *)

Frame == [type : {"Sub"}, gen : Gen, since : Nat]
    \cup [type : {"Unsub"}, gen : Gen]
    \cup [type : {"Seed"}, gen : Gen, ops : SUBSET Op]
    \cup [type : {"Update"}, gen : Gen, n : Nat, ops : SUBSET Op]
    \cup [type : {"Snapshot", "Rotate"}, gen : Gen, upto : Nat, ops : SUBSET Op]

StateFrame == [type : {"State"}, gen : Gen, head : Nat, log : Nat, whole : BOOLEAN,
               count : Nat, ops : SUBSET Op]

Answer == StateFrame
    \cup [type : {"Fanout"}, gen : Gen, seq : Nat, ops : SUBSET Op]
    \cup [type : {"Echo"}, gen : Gen, seq : Nat, n : Nat]
    \cup [type : {"Moved"}, gen : Gen]

Sub(g, since)        == [type |-> "Sub", gen |-> g, since |-> since]
Unsub(g)             == [type |-> "Unsub", gen |-> g]
Seed(g, ops)         == [type |-> "Seed", gen |-> g, ops |-> ops]
Update(g, n, ops)    == [type |-> "Update", gen |-> g, n |-> n, ops |-> ops]
Snapshot(g, upto, ops) == [type |-> "Snapshot", gen |-> g, upto |-> upto, ops |-> ops]
Rotate(g, upto, ops) == [type |-> "Rotate", gen |-> g, upto |-> upto, ops |-> ops]
Moved(g)             == [type |-> "Moved", gen |-> g]
Fanout(g, seq, ops)  == [type |-> "Fanout", gen |-> g, seq |-> seq, ops |-> ops]
Echo(g, seq, n)      == [type |-> "Echo", gen |-> g, seq |-> seq, n |-> n]

State(g, since) ==
    LET answer == state(room[g], since)
    IN  [type |-> "State", gen |-> g, head |-> answer.head, log |-> answer.log,
         whole |-> answer.whole, count |-> answer.count, ops |-> answer.ops]

here(d) == <<d, cur[d]>>

(* fault: one more of the faults this instance allows.                      *)
fault(kind) == kind \in Fault /\ faults < MaxFaults /\ faults' = faults + 1

-----------------------------------------------------------------------------
(* The hub (relay hub/docs.ts).                                             *)

(* What a socket is answered, and what the room's other followers get.      *)
Deliver(s, answers, g, fanout) ==
    down' = [d \in Device |->
        IF ~linked[d] THEN down[d]
        ELSE IF here(d) = s THEN down[d] \o answers
        ELSE IF g \in follows[here(d)] THEN down[d] \o fanout
        ELSE down[d]]

(* The hub takes the socket's next frame.                                   *)
Takes(s, types) ==
    /\ up[s] # <<>>
    /\ Head(up[s]).type \in types
    /\ up' = [up EXCEPT ![s] = Tail(@)]
    /\ UNCHANGED <<session, file, cur, linked, typed, rotations, saves>>

(* Only frames for a room the socket follows count, and a moved room        *)
(* answers with its pointer, whatever was asked.                            *)
TakesLive(s, type) ==
    /\ Takes(s, {type})
    /\ Head(up[s]).gen \in follows[s]
    /\ ~room[Head(up[s]).gen].moved
    /\ UNCHANGED <<follows, faults>>

Log(g, ops) ==
    /\ room' = [room EXCEPT ![g] = insert(@, ops, names + 1)]
    /\ names' = IF exists(room[g]) THEN names ELSE names + 1
    /\ past' = [past EXCEPT ![g] = Append(@, ops)]

(* logged: the echo is the sender's ack, by its own counter.                *)
Logged(s, g, n, ops) ==
    LET seq == head(room[g]) + 1
    IN  /\ Log(g, ops)
        /\ Deliver(s, <<Echo(g, seq, n)>>, g, <<Fanout(g, seq, ops)>>)

HubSub(s) ==
    LET f == Head(up[s])
        moved == room[f.gen].moved
    IN  /\ Takes(s, {"Sub"})
        /\ follows' = [follows EXCEPT ![s] = IF moved THEN @ ELSE @ \cup {f.gen}]
        /\ Deliver(s, <<IF moved THEN Moved(f.gen) ELSE State(f.gen, f.since)>>, f.gen, <<>>)
        /\ UNCHANGED <<hub, faults>>

HubUnsub(s) ==
    /\ Takes(s, {"Unsub"})
    /\ Head(up[s]).gen \in follows[s]
    /\ follows' = [follows EXCEPT ![s] = @ \ {Head(up[s]).gen}]
    /\ UNCHANGED <<hub, down, faults>>

HubIgnores(s) ==
    /\ Takes(s, {"Unsub", "Seed", "Update", "Snapshot", "Rotate"})
    /\ Head(up[s]).gen \notin follows[s]
    /\ UNCHANGED <<hub, down, follows, faults>>

HubSendsMoved(s) ==
    LET g == Head(up[s]).gen
    IN  /\ Takes(s, {"Seed", "Update", "Snapshot", "Rotate"})
        /\ g \in follows[s] /\ room[g].moved
        /\ Deliver(s, <<Moved(g)>>, g, <<>>)
        /\ UNCHANGED <<hub, follows, faults>>

(* Concurrent seeds would double the text: the loser gets the room.         *)
HubSeed(s) ==
    LET f == Head(up[s])
    IN  /\ TakesLive(s, "Seed")
        /\ IF seeds(room[f.gen])
           THEN Logged(s, f.gen, 0, f.ops)
           ELSE Deliver(s, <<State(f.gen, 0)>>, f.gen, <<>>) /\ UNCHANGED hub

HubUpdate(s) ==
    /\ TakesLive(s, "Update")
    /\ Logged(s, Head(up[s]).gen, Head(up[s]).n, Head(up[s]).ops)

HubSnapshot(s) ==
    LET f == Head(up[s])
    IN  /\ TakesLive(s, "Snapshot")
        /\ room' = [room EXCEPT ![f.gen] =
                        IF exists(@) THEN compact(@, f.upto, f.ops) ELSE @]
        /\ UNCHANGED <<names, past, down>>

(* An update after `upto` would be acked here and missing there: then the   *)
(* rotator gets the room instead.                                           *)
HubRotate(s) ==
    LET f == Head(up[s])
        g == f.gen
        target == g + 1
    IN  /\ TakesLive(s, "Rotate")
        /\ IF rotates(room[g], room[target], f.upto)
           THEN /\ room' = [room EXCEPT ![g] = markMoved(@),
                                ![target] = insert(@, f.ops, names + 1)]
                /\ names' = names + 1
                /\ past' = [past EXCEPT ![target] = Append(@, f.ops)]
                /\ Deliver(s, <<Moved(g)>>, g, <<Moved(g)>>)
           ELSE Deliver(s, <<State(g, f.upto)>>, g, <<>>) /\ UNCHANGED hub

(* A write past the socket's rate is dropped unanswered.  The burst covers  *)
(* what a socket asks when it opens, so Sub and Seed are never over it.     *)
HubOver(s) ==
    /\ fault("over")
    /\ Takes(s, {"Update", "Snapshot", "Rotate"})
    /\ UNCHANGED <<hub, down, follows>>

HubStep(s) ==
    HubSub(s) \/ HubUnsub(s) \/ HubIgnores(s) \/ HubSendsMoved(s) \/ HubSeed(s)
        \/ HubUpdate(s) \/ HubSnapshot(s) \/ HubRotate(s)

(* The hub finds out that a socket its device gave up on is dead.           *)
Sweep(s) ==
    /\ \A d \in Device : linked[d] => here(d) # s
    /\ up[s] # <<>>
    /\ up' = [up EXCEPT ![s] = <<>>]
    /\ follows' = [follows EXCEPT ![s] = {}]
    /\ UNCHANGED <<hub, down, cur, linked, session, file, tally>>

-----------------------------------------------------------------------------
(* A session (live/session): what it knows and what it still owes the room. *)

Outgoing == [n : Nat, ops : SUBSET Op]
Left == [upto : Nat, log : Nat]

(* from: the disk read the open merged in; seed: the text it offered to an  *)
(* empty room, if any; seq, compacted, name, known, left: the room's log as *)
(* far as this device knows (RoomLog); asked: a rotation it waits for;      *)
(* client: its Y.Doc's id; bound: the editor follows the document.          *)
Session ==
    [on : BOOLEAN, gen : Gen, client : Nat, joined : BOOLEAN, online : BOOLEAN,
     moved : BOOLEAN, bound : BOOLEAN, asked : BOOLEAN, from : (SUBSET Edit) \cup {None},
     seed : SUBSET (SUBSET Op), doc : SUBSET Op, pending : SUBSET Op,
     unacked : SUBSET Outgoing, sent : Nat, seq : Nat, compacted : Nat, name : Nat,
     known : Nat, left : Left \cup {None}]

Opened(g, known, client) ==
    [on |-> TRUE, gen |-> g, client |-> client, joined |-> FALSE, online |-> FALSE,
     moved |-> FALSE, bound |-> FALSE, asked |-> FALSE, from |-> None, seed |-> {},
     doc |-> {}, pending |-> {}, unacked |-> {}, sent |-> 0, seq |-> 0,
     compacted |-> 0, name |-> 0, known |-> known, left |-> None]

Off == [Opened(0, 0, 0) EXCEPT !.on = FALSE]

synced(s)  == s.on /\ s.joined /\ ~s.moved
settled(s) == synced(s) /\ s.pending = {} /\ s.unacked = {}
outgoing(unacked) == UNION {u.ops : u \in unacked}

inserts(d, client, edits) ==
    [edit : edits, by : {d}, client : {client}, cut : {FALSE}]

(* Mutant: a change made here goes in though the room already shows it.     *)
mergeOverRoom(d, s, base, incoming) ==
    LET ops == inserts(d, s.client, incoming \ base)
    IN  [s EXCEPT !.doc = @ \cup ops, !.pending = @ \cup ops]

carried(frames) ==
    UNION {frames[i].ops : i \in {j \in DOMAIN frames : "ops" \in DOMAIN frames[j]}}

(* A new Y.Doc draws a client id that nothing anywhere bears.               *)
fresh(d) ==
    LET ops == (UNION {merged(past[g]) : g \in Gen})
               \cup (UNION {session[x].doc : x \in Device})
               \cup (UNION {UNION session[x].seed : x \in Device})
               \cup (UNION {carried(up[s]) : s \in Socket})
               \cup (UNION {carried(down[x]) : x \in Device})
        drawn == {session[d].client} \cup {o.client : o \in {p \in ops : p.by = d}}
    IN  CHOOSE n \in 1..(Cardinality(drawn) + 1) : n \notin drawn

(* A text as a document of its own.                                         *)
scratch(d) == inserts(d, fresh(d), view[d])

(* mergeThreeWay and the patch that brings the document there: this         *)
(* device's changes since `base` on top of the room.                        *)
merge(d, s, base, incoming) ==
    LET mine == incoming \ (base \cup Text(s.doc))
        undone == {o \in live(s.doc) : o.edit \in base \ incoming}
        ops == inserts(d, s.client, mine) \cup {[o EXCEPT !.cut = TRUE] : o \in undone}
    IN  [s EXCEPT !.doc = @ \cup ops, !.pending = @ \cup ops]

(* A step's outcome: the session after it, the frames it sends, whether it  *)
(* ends in settle().                                                        *)
ends(s, out)    == [session |-> s, out |-> out, settles |-> FALSE]
settles(s, out) == [session |-> s, out |-> out, settles |-> TRUE]

(* sendUpdate: unacked before it is sent, whether or not the socket is up.  *)
ship(s, ops) ==
    LET n == s.sent + 1
    IN  [session |-> [s EXCEPT !.sent = n, !.unacked = @ \cup {[n |-> n, ops |-> ops]}],
         out |-> IF s.online THEN <<Update(s.gen, n, ops)>> ELSE <<>>]

(* takeUnacked, then everything of it again as one update.                  *)
resend(s) ==
    IF s.unacked = {} THEN [session |-> s, out |-> <<>>]
    ELSE ship([s EXCEPT !.unacked = {}], outgoing(s.unacked))

(* Mutant: going online counts what the last socket sent as received.       *)
goOnlineForgetting(s) ==
    [session |-> [s EXCEPT !.online = TRUE, !.unacked = {}], out |-> <<>>]

goOnline(s) == resend([s EXCEPT !.online = TRUE])

(* Mutant: only the update the echo names is dealt with.                    *)
ackOne(s, n) ==
    [session |-> [s EXCEPT !.unacked = {u \in @ : u.n > n}], out |-> <<>>]

(* ack: what went out before update n and is still unacked was dropped.     *)
ack(s, n) ==
    LET dropped == {u \in s.unacked : u.n < n}
        rest == [s EXCEPT !.unacked = {u \in @ : u.n > n}]
    IN  IF \A u \in s.unacked : u.n # n
        THEN [session |-> s, out |-> <<>>]
        ELSE IF dropped = {} THEN [session |-> rest, out |-> <<>>]
        ELSE ship(rest, outgoing(dropped))

-----------------------------------------------------------------------------
(* The agreed text of the note (AgreedTexts): the latest, and the one fit   *)
(* to be a merge base, which is never ahead of the file.                    *)

Agreed == [text : SUBSET Edit, gen : Gen, seq : Nat]

lastAgreed(d) == IF unwritten[d] # None THEN unwritten[d] ELSE stored[d]

base(d) ==
    IF unwritten[d] # None /\ unwritten[d].text = disk[d] THEN unwritten[d].text
    ELSE IF stored[d] # None THEN stored[d].text
    ELSE Start

-----------------------------------------------------------------------------
(* Frames as the session handles them.                                      *)

lost(s, f) ==
    \/ f.log # 0 /\ s.name # 0 /\ f.log # s.name
    \/ f.head < s.seq \/ f.head < s.known

(* moveOn: a room that lost its log is rebuilt as its next generation;      *)
(* asked again on a log still unchanged, the successor has one.             *)
moveOn(d, s, f) ==
    LET content == IF s.joined THEN rebuild(s.doc)
                   ELSE scratch(d)
    IN  IF s.left = [upto |-> f.head, log |-> f.log]
        THEN ends([s EXCEPT !.online = FALSE, !.moved = TRUE, !.asked = FALSE], <<>>)
        ELSE ends([s EXCEPT !.online = FALSE, !.left = [upto |-> f.head, log |-> f.log]],
                  <<Rotate(s.gen, f.head, content)>>)

(* Mutant: the deltas are counted back from where this device was.          *)
reachedFromOld(s, f) ==
    [s EXCEPT !.doc = @ \cup f.ops, !.seq = f.head,
        !.name = IF f.log # 0 THEN f.log ELSE @,
        !.compacted = IF f.whole \/ s.seq = 0 THEN s.seq - f.count ELSE @]

(* RoomLog.reached, with the frame's updates applied.                       *)
reached(s, f) ==
    [s EXCEPT !.doc = @ \cup f.ops, !.seq = f.head,
        !.name = IF f.log # 0 THEN f.log ELSE @,
        !.compacted = IF f.whole \/ s.seq = 0 THEN f.head - f.count ELSE @]

(* join on an empty room: only one with no history is seeded.               *)
offerSeed(d, s) ==
    With(scratch(d), LAMBDA text :
        ends([s EXCEPT !.seed = {text}, !.from = view[d]], <<Seed(s.gen, text)>>))

(* join on a room with history: this device's own changes since the base    *)
(* are replayed onto it.                                                    *)
reconcile(d, s) ==
    [merge(d, s, base(d), view[d]) EXCEPT !.seed = {}, !.from = view[d], !.joined = TRUE]

onState(d, s, f) ==
    IF lost(s, f) THEN moveOn(d, s, f)
    ELSE With(reached(s, f), LAMBDA read :
        IF ~s.joined /\ f.head = 0 THEN offerSeed(d, read)
        ELSE With(IF s.joined THEN read ELSE reconcile(d, read), LAMBDA joined :
            IF s.online THEN settles([joined EXCEPT !.asked = FALSE], <<>>)
            ELSE With(goOnline(joined), LAMBDA online : settles(online.session, online.out))))

onFanout(s, f) ==
    IF ~s.joined \/ s.left # None THEN ends(s, <<>>)
    ELSE settles([s EXCEPT !.doc = @ \cup f.ops, !.seq = f.seq], <<>>)

onEcho(s, f) ==
    LET at == [s EXCEPT !.seq = f.seq]
        seeded == [at EXCEPT !.doc = @ \cup UNION s.seed, !.seed = {}, !.joined = TRUE]
    IN  IF s.joined
        THEN With(ack(at, f.n), LAMBDA acked : settles(acked.session, acked.out))
        ELSE IF s.seed # {}
        THEN With(goOnline(seeded), LAMBDA taken : settles(taken.session, taken.out))
        ELSE settles(at, <<>>)

onMoved(s) == ends([s EXCEPT !.moved = TRUE, !.asked = FALSE], <<>>)

handle(d, s, f) ==
    CASE f.type = "State"  -> onState(d, s, f)
      [] f.type = "Fanout" -> onFanout(s, f)
      [] f.type = "Echo"   -> onEcho(s, f)
      [] f.type = "Moved"  -> onMoved(s)

(* settle's compaction: the leader folds the log into a snapshot once it is *)
(* long enough; every writer may believe it leads.                          *)
compactionDue(o) ==
    /\ o.settles /\ settled(o.session) /\ o.session.online
    /\ o.session.seq - o.session.compacted >= CompactAfter

compacting(o) ==
    LET s == o.session
    IN  [o EXCEPT !.session = [s EXCEPT !.compacted = s.seq],
                  !.out = Append(@, Snapshot(s.gen, s.seq, s.doc))]

Send(d, frames) ==
    up' = IF linked[d] THEN [up EXCEPT ![here(d)] = @ \o frames] ELSE up

(* The outcome of a step takes effect: with nothing outstanding the text is *)
(* agreed, and a bound editor shows the document.                           *)
Commit(d, o) ==
    LET s == o.session
    IN  /\ session' = [session EXCEPT ![d] = s]
        /\ Send(d, o.out)
        /\ view' = IF s.bound THEN [view EXCEPT ![d] = Text(s.doc)] ELSE view
        /\ unwritten' = IF o.settles /\ settled(s)
                        THEN [unwritten EXCEPT ![d] =
                                 [text |-> Text(s.doc), gen |-> s.gen, seq |-> s.seq]]
                        ELSE unwritten
        /\ UNCHANGED <<hub, cur, linked, follows, disk, stored>>

-----------------------------------------------------------------------------
(* A device.                                                                *)

Init ==
    /\ room = [g \in Gen |-> NoRow] /\ names = 0 /\ past = [g \in Gen |-> <<>>]
    /\ up = [s \in Socket |-> <<>>] /\ down = [d \in Device |-> <<>>]
    /\ cur = [d \in Device |-> 0] /\ linked = [d \in Device |-> TRUE]
    /\ follows = [s \in Socket |-> {}]
    /\ session = [d \in Device |-> Off]
    /\ view = [d \in Device |-> Start] /\ disk = [d \in Device |-> Start]
    /\ unwritten = [d \in Device |-> None] /\ stored = [d \in Device |-> None]
    /\ typed = {} /\ rotations = 0 /\ saves = 0 /\ faults = 0

(* The next frame of the queue is handled.                                  *)
Receive(d) ==
    LET s == session[d]
        f == Head(down[d])
        mine == s.on /\ f.gen = s.gen
    IN  /\ down[d] # <<>>
        /\ (mine /\ f.type = "State" /\ lost(s, f)) => s.gen < MaxGen
        /\ \E o \in {IF mine THEN handle(d, s, f) ELSE ends(s, <<>>)}, leads \in BOOLEAN :
              /\ leads => compactionDue(o)
              /\ Commit(d, IF leads THEN compacting(o) ELSE o)
        /\ down' = [down EXCEPT ![d] = Tail(@)]
        /\ UNCHANGED tally

(* A session starts: where the note was last agreed on, or at the start.    *)
Begin(d, g, known, frames) ==
    \E s \in {Opened(g, known, fresh(d))} :
        /\ session' = [session EXCEPT ![d] = s]
        /\ Send(d, Append(frames, Sub(g, s.seq)))

knownAt(d, g) ==
    IF lastAgreed(d) # None /\ lastAgreed(d).gen = g THEN lastAgreed(d).seq ELSE 0

(* With "reopen", also while frames of the session before are on the wire.  *)
Open(d) ==
    /\ ~session[d].on
    /\ "reopen" \in Fault \/ up[here(d)] \o down[d] = <<>>
    /\ LET g == IF lastAgreed(d) # None THEN lastAgreed(d).gen ELSE 0
       IN  Begin(d, g, knownAt(d, g), <<>>)
    /\ UNCHANGED <<hub, down, cur, linked, follows, file, tally>>

(* Mutant: the editor takes the document as it is.                          *)
adoptNothing(d, s) == [s EXCEPT !.from = None]

(* Keystrokes typed while the room was answering go in before the editor    *)
(* follows it.                                                              *)
adopt(d, s) ==
    IF s.from = None \/ s.from = view[d] THEN [s EXCEPT !.from = None]
    ELSE [merge(d, s, s.from, view[d]) EXCEPT !.from = None]

Bind(d) ==
    /\ synced(session[d]) /\ ~session[d].bound
    /\ \E s \in {adopt(d, session[d])} : Commit(d, ends([s EXCEPT !.bound = TRUE], <<>>))
    /\ UNCHANGED <<down, tally>>

Type(d, e) ==
    LET s == session[d]
        ops == inserts(d, s.client, {e})
    IN  /\ s.on /\ e \notin typed \cup Start
        /\ typed' = typed \cup {e}
        /\ view' = [view EXCEPT ![d] = @ \cup {e}]
        /\ session' = IF s.bound
                      THEN [session EXCEPT ![d].doc = @ \cup ops, ![d].pending = @ \cup ops]
                      ELSE session
        /\ UNCHANGED <<hub, wire, disk, unwritten, stored, rotations, saves, faults>>

Flush(d) ==
    LET s == session[d]
    IN  /\ s.on /\ s.pending # {}
        /\ \E o \in {ship([s EXCEPT !.pending = {}], s.pending)} :
              Commit(d, ends(o.session, o.out))
        /\ UNCHANGED <<down, tally>>

(* Silent past ACK_PATIENCE_MS: everything unacked goes out again.          *)
Resend(d) ==
    /\ session[d].on /\ session[d].online /\ session[d].unacked # {}
    /\ session[d].sent < MaxSent
    /\ \E o \in {resend(session[d])} : Commit(d, ends(o.session, o.out))
    /\ UNCHANGED <<down, typed, rotations, saves>>

inFlight(d) ==
    \/ up[here(d)] # <<>>
    \/ \E i \in DOMAIN down[d] : down[d][i].type = "Echo"

(* Mutant: the timer stops with the first echo, whatever else is unacked.   *)
AckTimeoutOnce(d) ==
    /\ ~inFlight(d) /\ session[d].seq = 0
    /\ Resend(d) /\ UNCHANGED faults

AckTimeout(d)      == ~inFlight(d) /\ Resend(d) /\ UNCHANGED faults
EarlyAckTimeout(d) ==
    /\ inFlight(d) /\ Resend(d)
    /\ "early" \in Fault /\ faults < MaxFaults /\ faults' = faults + 1

(* The user has the room rebuilt (rotate), once nothing is outstanding.     *)
AskRotate(d) ==
    LET s == session[d]
    IN  /\ settled(s) /\ s.online /\ ~s.asked /\ s.gen < MaxGen
        /\ rotations < MaxRotations /\ rotations' = rotations + 1
        /\ Commit(d, ends([s EXCEPT !.asked = TRUE],
                          <<Rotate(s.gen, s.seq, rebuild(s.doc))>>))
        /\ UNCHANGED <<down, typed, saves, faults>>

(* dispose: the rest goes out, then Unsub.                                  *)
parting(s) ==
    (IF s.pending # {} /\ s.online THEN <<Update(s.gen, s.sent + 1, s.pending)>> ELSE <<>>)
        \o <<Unsub(s.gen)>>

(* A moved room hands the note to its successor, which starts at 1.         *)
Follow(d) ==
    LET s == session[d]
        g == s.gen + 1
        known == knownAt(d, g)
    IN  /\ s.on /\ s.moved /\ g \in Gen
        /\ Begin(d, g, IF known < 1 THEN 1 ELSE known, parting(s))
        /\ UNCHANGED <<hub, down, cur, linked, follows, file, tally>>

(* The view saves a moment after it changed.                                *)
Save(d) ==
    /\ session[d].on /\ disk[d] # view[d]
    /\ saves < MaxSaves /\ saves' = saves + 1
    /\ disk' = [disk EXCEPT ![d] = view[d]]
    /\ UNCHANGED <<hub, wire, session, view, unwritten, stored, typed, rotations, faults>>

(* Mutant: the agreed text is kept whatever the file holds.                 *)
WriteAgreedAhead(d) ==
    /\ unwritten[d] # None
    /\ saves < MaxSaves /\ saves' = saves + 1
    /\ unwritten' = [unwritten EXCEPT ![d] = None]
    /\ stored' = [stored EXCEPT ![d] = unwritten[d]]
    /\ UNCHANGED <<hub, wire, session, view, disk, typed, rotations, faults>>

(* The agreed text is kept once the file holds it, and after a few tries    *)
(* not asked about any more.                                                *)
WriteAgreed(d) ==
    /\ unwritten[d] # None
    /\ saves < MaxSaves /\ saves' = saves + 1
    /\ unwritten' = [unwritten EXCEPT ![d] = None]
    /\ stored' = IF unwritten[d].text = disk[d]
                 THEN [stored EXCEPT ![d] = unwritten[d]] ELSE stored
    /\ UNCHANGED <<hub, wire, session, view, disk, typed, rotations, faults>>

-----------------------------------------------------------------------------
(* Sockets and faults.                                                      *)

(* onConnectionChange: a lost socket answers no rotation and no request to  *)
(* move on.                                                                 *)
offline(s) == [s EXCEPT !.online = FALSE, !.asked = FALSE, !.left = None]

(* The device's socket is gone; what it had sent is gone with it, or still  *)
(* on its way to the hub.                                                   *)
Unlink(d) ==
    /\ linked' = [linked EXCEPT ![d] = FALSE]
    /\ down' = [down EXCEPT ![d] = <<>>]
    /\ up' = IF "late" \in Fault THEN up ELSE [up EXCEPT ![here(d)] = <<>>]
    /\ UNCHANGED <<hub, cur, follows, stored, typed, rotations, saves>>

Disconnect(d) ==
    /\ linked[d] /\ fault("drop")
    /\ Unlink(d)
    /\ session' = [session EXCEPT ![d] = offline(@)]
    /\ UNCHANGED <<view, disk, unwritten>>

Connect(d) ==
    LET s == session[d]
        next == <<d, 1 - cur[d]>>
    IN  /\ ~linked[d]
        /\ linked' = [linked EXCEPT ![d] = TRUE]
        /\ cur' = [cur EXCEPT ![d] = 1 - @]
        /\ follows' = [follows EXCEPT ![next] = {}]
        /\ up' = [up EXCEPT ![next] = IF s.on THEN <<Sub(s.gen, s.seq)>> ELSE <<>>]
        /\ UNCHANGED <<hub, down, session, file, tally>>

(* The app dies: what was not on disk is lost, and so is its socket.        *)
Crash(d) ==
    /\ session[d].on /\ fault("crash")
    /\ Unlink(d)
    /\ session' = [session EXCEPT ![d] = Off]
    /\ view' = [view EXCEPT ![d] = disk[d]]
    /\ unwritten' = [unwritten EXCEPT ![d] = None]
    /\ UNCHANGED disk

(* The note is closed: the file is saved and the session leaves the room,   *)
(* the socket stays.                                                        *)
Close(d) ==
    /\ session[d].on /\ fault("close")
    /\ Send(d, parting(session[d]))
    /\ session' = [session EXCEPT ![d] = Off]
    /\ disk' = [disk EXCEPT ![d] = view[d]]
    /\ UNCHANGED <<hub, down, cur, linked, follows, view, unwritten, stored,
                   typed, rotations, saves>>

(* The hub loses every log, and its sockets; with "unnamed", also while a   *)
(* device has not been told the name of the log it is in.                   *)
Wipe ==
    /\ fault("wipe") /\ names > 0
    /\ "unnamed" \in Fault \/ \A d \in Device : session[d].seq > 0 => session[d].name # 0
    /\ room' = [g \in Gen |-> NoRow]
    /\ past' = [g \in Gen |-> <<>>]
    /\ up' = [s \in Socket |-> <<>>] /\ follows' = [s \in Socket |-> {}]
    /\ down' = [d \in Device |-> <<>>] /\ linked' = [d \in Device |-> FALSE]
    /\ session' = [d \in Device |-> offline(session[d])]
    /\ UNCHANGED <<names, cur, file, typed, rotations, saves>>

Act(d) ==
    \/ Receive(d) \/ Open(d) \/ Bind(d) \/ Flush(d) \/ AckTimeout(d) \/ Follow(d)
    \/ Connect(d)

Next ==
    \/ \E s \in Socket : HubStep(s) \/ HubOver(s) \/ Sweep(s)
    \/ \E d \in Device :
          \/ Act(d) \/ EarlyAckTimeout(d) \/ AskRotate(d) \/ Save(d) \/ WriteAgreed(d)
          \/ Disconnect(d) \/ Crash(d) \/ Close(d)
          \/ \E e \in Edit : Type(d, e)
    \/ Wipe

Spec == Init /\ [][Next]_vars

(* The hub handles what reaches it; a device's queue and timers run, its    *)
(* socket comes back, and a note that was open is opened again.             *)
Fairness ==
    /\ WF_vars(\E s \in Socket : HubStep(s))
    /\ \A d \in Device : WF_vars(Act(d))

FairSpec == Spec /\ Fairness

-----------------------------------------------------------------------------
(* Properties.                                                              *)

(* Every variable holds what its declaration says.                          *)
TypeOK ==
    /\ room \in [Gen -> Row] /\ names \in Nat
    /\ past \in [Gen -> Seq(SUBSET Op)]
    /\ up \in [Socket -> Seq(Frame)] /\ down \in [Device -> Seq(Answer)]
    /\ cur \in [Device -> {0, 1}] /\ linked \in [Device -> BOOLEAN]
    /\ follows \in [Socket -> SUBSET Gen]
    /\ session \in [Device -> Session]
    /\ view \in [Device -> SUBSET Edit] /\ disk \in [Device -> SUBSET Edit]
    /\ unwritten \in [Device -> Agreed \cup {None}]
    /\ stored \in [Device -> Agreed \cup {None}]
    /\ typed \subseteq Edit /\ rotations \in 0..MaxRotations
    /\ saves \in 0..MaxSaves /\ faults \in 0..MaxFaults

upTo(g, seq) == merged(SubSeq(past[g], 1, seq))

(* With nothing of its own outstanding, a device's document is exactly the  *)
(* room at `seq` (session.ts settle): that text is called agreed, and a     *)
(* snapshot of it may replace the log.                                      *)
AgreedIsRoom ==
    \A d \in Device : LET s == session[d] IN
        settled(s) /\ s.online =>
            s.seq <= Len(past[s.gen]) /\ s.doc = upTo(s.gen, s.seq)

(* However updates, compactions by several leaders and late snapshots       *)
(* interleave, a room's row stands for every update it ever logged          *)
(* (store.ts compact: they would lose log).                                 *)
RoomIsItsLog ==
    \A g \in Gen : exists(room[g]) /\ ~room[g].moved =>
        room[g].snap \cup merged(room[g].deltas) = merged(past[g])

(* A rotation loses no edit the old room acked: the successor starts with   *)
(* its whole text (docs.ts rotate: acked here and missing there).           *)
SuccessorComplete ==
    \A g \in Gen : room[g].moved => Text(merged(past[g])) \subseteq Text(past[g + 1][1])

(* A room is what its log says, and so is the room that follows it: no       *)
(* compaction, late snapshot or rotation loses an edit.                      *)
RoomKept == RoomIsItsLog /\ SuccessorComplete

(* An edit is always pending or unacked until the room has it (session.ts   *)
(* sendUpdate), through lost sockets, frames dropped past the rate and      *)
(* early resends.                                                           *)
OwnEditsTracked ==
    \A d \in Device : LET s == session[d] IN
        s.on => s.doc \subseteq merged(past[s.gen]) \cup s.pending \cup outgoing(s.unacked)

(* No room shows an edit twice: seeds, resends, joins, keystrokes adopted   *)
(* and successors never insert what the room has (docs.ts seed: concurrent  *)
(* seeds would double the text).                                            *)
NoDoubling ==
    \A g \in Gen : \A o, p \in live(merged(past[g])) : o.edit = p.edit => o = p

(* No merge takes out of a room what nobody deleted (agreed-texts.ts base:  *)
(* one ahead of the note's file would undo the rest on open).               *)
NothingUndone == \A g \in Gen : \A o \in merged(past[g]) : ~o.cut

(* While a note stays open its text loses nothing: not when the room is     *)
(* joined, bound, rebuilt or followed to its successor.                     *)
ViewKeeps ==
    [][\A d \in Device : session[d].on /\ session'[d].on => view[d] \subseteq view'[d]]_vars

Agree ==
    \A d, x \in Device : synced(session[d]) /\ view[d] = view[x] /\ disk[x] \subseteq view[d]

(* Once faults and typing stop, every device shows the same text, with all  *)
(* that reached a disk.                                                     *)
Converges == <>[]Agree
=============================================================================
