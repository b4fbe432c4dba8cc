---------------------------- MODULE LiveDrawings ----------------------------
(* A drawing that several devices edit (live/drawing, drawing): element by   *)
(* element in a room while their views are bound to it, and as a file while  *)
(* they are not.  The hub is a log that loses nothing here (LiveRoom has its *)
(* faults), a device has one view of the drawing, and its client id in Yjs   *)
(* is its number.                                                            *)
(*                                                                           *)
(* An element's content is the edit that made it (by), and over is the edits *)
(* it was made over while nobody else was dragging them.                     *)
EXTENDS Naturals, Sequences

CONSTANTS
    Device, Element, Nonce, None,
    Races,         \* "hold": an element is opened for editing and not changed;
                   \* "seed": a room is seeded from a file that dropped elements
    MaxEdits, MaxOpens,
    MaxVersion,    \* two that drag one element bump it past each other without end
    MaxMishaps     \* drags, early saves, crashes, reloads, glimpses of another file

VARIABLES
    log,           \* the room's updates, as the hub has them
    heard,         \* how many of them each device applied
    doc,           \* each device's Y.Map of elements
    view,          \* each device's view and its binding
    file,          \* the drawing's file on each device
    base,          \* the elements each device's room last agreed on
    vault, synced, \* the file in storage, and each device's baseline of it
    past,          \* edits that an edit in the room was made over
    ever,          \* the same of the vault, its latest notes and all its images
    edits, opens, mishaps
dvars == <<log, heard, doc, view, file, base, vault, synced, past, ever,
           edits, opens, mishaps>>

Nothing == [x \in Element |-> None]
Closed == [at |-> "closed", scene |-> Nothing, from |-> None, seen |-> [x \in Element |-> 0],
           staged |-> Nothing, dirty |-> FALSE, holding |-> None, elsewhere |-> FALSE,
           missed |-> FALSE]

DInit ==
    \E x \in Element :
       LET first == [v |-> 1, n |-> 1, del |-> FALSE, by |-> 0, over |-> {}]
           drawing == [els |-> [Nothing EXCEPT ![x] = first], notes |-> 0, images |-> {}]
       IN  /\ log = <<>> /\ heard = [d \in Device |-> 0]
           /\ doc = [d \in Device |-> Nothing] /\ view = [d \in Device |-> Closed]
           /\ file = [d \in Device |-> drawing] /\ vault = drawing
           /\ synced = [d \in Device |-> drawing]
           /\ base = [d \in Device |-> drawing.els]
           /\ past = {}
           /\ ever = [past |-> {}, notes |-> 0, images |-> {}]
           /\ edits = 0 /\ opens = 0 /\ mishaps = 0

-----------------------------------------------------------------------------
(* The rules of drawing/merge.ts.                                            *)

(* Mutant: of one version, neither wins.                                     *)
winsByVersion(a, b) == a.v > b.v

wins(a, b) == IF a.v # b.v THEN a.v > b.v ELSE a.n < b.n

alive(a) == a # None /\ ~a.del
same(a, b) == a # None /\ b # None /\ a.v = b.v /\ a.n = b.n

(* Mutant: what one side dropped stays.                                      *)
mergeUnion(before, mine, theirs) ==
    [x \in Element |->
       IF mine[x] # None /\ theirs[x] # None
       THEN IF wins(theirs[x], mine[x]) THEN theirs[x] ELSE mine[x]
       ELSE IF mine[x] # None THEN mine[x] ELSE theirs[x]]

(* mergeElements: the winner, and what one side alone has unless the other   *)
(* dropped it unchanged.                                                     *)
mergeElements(before, mine, theirs) ==
    [x \in Element |->
       IF mine[x] # None /\ theirs[x] # None
       THEN IF wins(theirs[x], mine[x]) THEN theirs[x] ELSE mine[x]
       ELSE LET one == IF mine[x] # None THEN mine[x] ELSE theirs[x]
            IN  IF same(one, before[x]) THEN None ELSE one]

(* Mutant: this device's notes are the file's.                               *)
mergeAsHost(was, mine, theirs) ==
    [els |-> mergeElements(was.els, mine.els, theirs.els), notes |-> mine.notes,
     images |-> mine.images \cup theirs.images]

(* mergeDrawings, where the notes did not change on both sides.              *)
mergeDrawings(was, mine, theirs) ==
    [els |-> mergeElements(was.els, mine.els, theirs.els),
     notes |-> IF theirs.notes # was.notes THEN theirs.notes ELSE mine.notes,
     images |-> mine.images \cup theirs.images]

-----------------------------------------------------------------------------
(* The Y.Map: of two writes of a key, the one made over the other, else the  *)
(* one of the greater client. A path is the clients that wrote on top of one *)
(* another.                                                                  *)
beats(p, q) ==
    \E i \in 1..Len(p) :
        /\ \A j \in 1..(i - 1) : j <= Len(q) /\ p[j] = q[j]
        /\ i > Len(q) \/ p[i] > q[i]

joined(a, b) ==
    CASE a = None -> b [] b = None -> a
      [] OTHER -> IF beats(b.path, a.path) THEN b ELSE a

heldIn(map) == [x \in Element |-> IF map[x] = None THEN None ELSE map[x].el]

(* DrawingModel.put of several elements, by device d.                        *)
put(d, map, els) ==
    [x \in Element |->
       IF els[x] # None /\ (map[x] = None \/ wins(els[x], map[x].el))
       THEN [path |-> (IF map[x] = None THEN <<>> ELSE map[x].path) \o <<d>>, el |-> els[x]]
       ELSE map[x]]

written(map, next) == [x \in Element |-> IF map[x] # next[x] THEN next[x] ELSE None]
overIn(map) == UNION {map[x].el.over : x \in {y \in Element : map[y] # None}}

(* What a device wrote goes to the hub as one update.                        *)
ships(map, next) ==
    IF map = next THEN UNCHANGED <<log, past>>
    ELSE /\ log' = Append(log, written(map, next))
         /\ past' = past \cup overIn(written(map, next))

(* The log's writes of each element, and the one that stands.                *)
replayed(upto) ==
    [x \in Element |->
        LET writes == {log[i][x] : i \in {j \in 1..upto : log[j][x] # None}}
        IN  IF writes = {} THEN None
            ELSE CHOOSE w \in writes : \A o \in writes : o = w \/ beats(w.path, o.path)]

-----------------------------------------------------------------------------
(* Editing.                                                                  *)
(* A new element's nonce is no other's of its version.                       *)
elements(x) ==
    {log[i][x].el : i \in {j \in 1..Len(log) : log[j][x] # None}}
    \cup {vault.els[x]}
    \cup UNION {{view[d].scene[x], view[d].staged[x], file[d].els[x], synced[d].els[x],
                base[d][x]} : d \in Device}
fresh(x, v) == {n \in Nonce : \A a \in elements(x) : a # None /\ a.v = v => a.n # n}
dragged(x, d) == \E e \in Device \ {d} : view[e].holding = x

edited(x, d, was, n, gone) ==
    [v |-> was.v + 1, n |-> n, del |-> gone, by |-> edits + 1,
     over |-> was.over \cup (IF dragged(x, d) THEN {} ELSE {was.by})]
drawn(n) == [v |-> 1, n |-> n, del |-> FALSE, by |-> edits + 1, over |-> {}]

(* An element is drawn, changed or deleted in a view, which may hold it on.  *)
(* Excalidraw changes it in place, a staged one with it.                     *)
Edit(d, x) ==
    LET v == view[d]
        was == v.scene[x]
    IN  /\ v.at # "closed" /\ ~v.elsewhere /\ v.holding \in {None, x}
        /\ edits < MaxEdits /\ edits' = edits + 1
        /\ was = None \/ alive(was)
        /\ \E n \in fresh(x, IF was = None THEN 1 ELSE was.v + 1), gone \in BOOLEAN :
              LET now == IF was = None THEN drawn(n) ELSE edited(x, d, was, n, gone)
              IN  /\ gone => was # None
                  /\ \E on \in {None} \cup (IF gone THEN {} ELSE {x}) :
                        /\ on # None => v.holding = x \/ mishaps < MaxMishaps
                        /\ mishaps' = IF on = v.holding \/ on = None THEN mishaps ELSE mishaps + 1
                        /\ view' = [view EXCEPT ![d].scene[x] = now, ![d].dirty = TRUE,
                               ![d].holding = on,
                               ![d].staged[x] = IF @ # None /\ @ = was THEN now ELSE @]
        /\ UNCHANGED <<log, heard, doc, file, base, vault, synced, past, ever, opens>>

(* It is let go of, or opened for editing.                                   *)
Hold(d, x) ==
    /\ view[d].at # "closed" /\ ~view[d].elsewhere
    /\ \/ view[d].holding = x /\ view' = [view EXCEPT ![d].holding = None]
       \/ /\ "hold" \in Races /\ view[d].holding = None /\ alive(view[d].scene[x])
          /\ view' = [view EXCEPT ![d].holding = x]
    /\ UNCHANGED <<log, heard, doc, file, base, vault, synced, past, ever, edits,
                   opens, mishaps>>

(* The file changed while no room is open: an element of it, which a save    *)
(* may leave out once deleted, or the notes and images around it.            *)
ColdEdit(d, x) ==
    LET was == file[d].els[x]
    IN  /\ view[d].at = "closed" /\ edits < MaxEdits /\ edits' = edits + 1
        /\ \/ \E n \in fresh(x, IF was = None THEN 1 ELSE was.v + 1) :
                /\ was = None \/ alive(was)
                /\ file' = [file EXCEPT ![d].els[x] =
                       IF was = None THEN drawn(n) ELSE edited(x, d, was, n, FALSE)]
           \/ alive(was) /\ file' = [file EXCEPT ![d].els[x] = None]
           \/ file' = [file EXCEPT ![d].notes = edits + 1]
           \/ file' = [file EXCEPT ![d].images = @ \cup {edits + 1}]
        /\ UNCHANGED <<log, heard, doc, view, base, vault, synced, past, ever, opens, mishaps>>

-----------------------------------------------------------------------------
(* The binding (bindDrawing).                                                *)
lags(v, map, x) == v.scene[x] # None /\ map[x] # None /\ wins(map[x].el, v.scene[x])

(* Mutant: an edit made over a newer version goes in at its own.             *)
landedAsIs(v, map, x, n) == v.scene[x]

landed(v, map, x, n) ==
    IF lags(v, map, x) THEN [v.scene[x] EXCEPT !.v = map[x].el.v + 1, !.n = n]
    ELSE v.scene[x]

(* report of some elements.                                                  *)
reported(v, map, some, n) ==
    LET here == {x \in some : v.scene[x] # None}
        now == [x \in Element |-> IF x \in here THEN landed(v, map, x, n) ELSE v.scene[x]]
    IN  [v EXCEPT !.scene = now,
            !.seen = [x \in Element |-> IF x \in here THEN now[x].v ELSE v.seen[x]],
            !.staged = [x \in Element |->
                IF x \in here /\ ~(map[x] # None /\ same(map[x].el, now[x]))
                THEN now[x] ELSE v.staged[x]]]

(* Excalidraw's reconcileElements: the newer, unless this view is editing it.*)
reconciled(v, map, some) ==
    [v EXCEPT !.scene = [x \in Element |->
        IF x \in some /\ map[x] # None /\ v.holding # x
              /\ (v.scene[x] = None \/ lags(v, map, x))
        THEN map[x].el ELSE v.scene[x]]]

(* Mutant: what the view kept is not told.                                   *)
showRoomOnly(v, map, some, n) ==
    [reconciled(v, map, some) EXCEPT !.missed = FALSE]

showRoom(v, map, some, n) ==
    [reported(reconciled(v, map, some), map, some, n) EXCEPT !.missed = FALSE]

(* Nonces of the elements a report moved past the room's.                    *)
bumped(v, map, some) == {x \in some : lags(v, map, x)}
bumps(v, map, some, n) ==
    \A x \in bumped(v, map, some) :
        map[x].el.v < MaxVersion /\ n \in fresh(x, map[x].el.v + 1)

(* onChange, at a render.                                                    *)
Render(d) ==
    LET v == view[d]
        changed == {x \in Element : v.scene[x] # None /\ v.seen[x] # v.scene[x].v}
    IN  /\ v.at = "bound" /\ v.dirty /\ ~v.elsewhere
        /\ \E n \in Nonce :
              /\ bumps(v, doc[d], changed, n)
              /\ view' = [view EXCEPT ![d] =
                     [reported(v, doc[d], changed, n) EXCEPT !.dirty = FALSE]]
        /\ UNCHANGED <<log, heard, doc, file, base, vault, synced, past, ever, edits, opens,
                       mishaps>>

(* drain: what is staged goes in the room, where it beats the room's.        *)
drains(d) ==
    LET next == put(d, doc[d], view[d].staged)
    IN  doc' = [doc EXCEPT ![d] = next] /\ ships(doc[d], next)

Drain(d) ==
    /\ view[d].at # "closed" /\ view[d].staged # Nothing
    /\ drains(d) /\ view' = [view EXCEPT ![d].staged = Nothing]
    /\ UNCHANGED <<heard, file, base, vault, synced, ever, edits, opens, mishaps>>

(* An update comes, and a bound view shows it (onRoom).                      *)
Receive(d) ==
    LET v == view[d]
        next == [x \in Element |-> joined(doc[d][x], log[heard[d] + 1][x])]
        keys == {x \in Element : doc[d][x] # next[x]}
        some == IF v.missed THEN Element ELSE keys
    IN  /\ v.at # "closed" /\ heard[d] < Len(log)
        /\ heard' = [heard EXCEPT ![d] = @ + 1] /\ doc' = [doc EXCEPT ![d] = next]
        /\ IF v.at # "bound" \/ keys = {} THEN UNCHANGED view
           ELSE IF v.elsewhere
           THEN view' = [view EXCEPT ![d].missed = TRUE]
           ELSE \E n \in Nonce :
                   /\ bumps(reconciled(v, next, some), next, some, n)
                   /\ view' = [view EXCEPT ![d] = showRoom(v, next, some, n)]
        /\ UNCHANGED <<log, file, base, vault, synced, past, ever, edits, opens, mishaps>>

(* The view names another file for a moment.                                 *)
Glimpse(d) ==
    /\ view[d].at = "bound"
    /\ \/ /\ ~view[d].elsewhere /\ view[d].holding = None
          /\ mishaps < MaxMishaps /\ mishaps' = mishaps + 1
       \/ view[d].elsewhere /\ UNCHANGED mishaps
    /\ view' = [view EXCEPT ![d].elsewhere = ~@]
    /\ UNCHANGED <<log, heard, doc, file, base, vault, synced, past, ever, edits, opens>>

-----------------------------------------------------------------------------
(* The session (join, adopt, settle), the view's saves and the file sync.    *)

(* DrawingModel.merge, what the file dropped deleted for everyone.           *)
gains(d, map, before, incoming, n) ==
    LET room == heldIn(map)
        merged == mergeElements(before, incoming, room)
    IN  put(d, map, [x \in Element |->
            IF merged[x] = None /\ alive(room[x]) THEN edited(x, d, room[x], n, TRUE)
            ELSE merged[x]])

(* An empty room takes the file, another is merged with it.                  *)
Join(d) ==
    LET room == replayed(Len(log))
        ours == file[d].els
        lost == {x \in Element : alive(base[d][x]) /\ ours[x] = None}
        drops == {x \in Element : /\ room[x] # None /\ alive(room[x].el)
                                  /\ mergeElements(base[d], ours, heldIn(room))[x] = None}
    IN  /\ view[d].at = "closed" /\ opens < MaxOpens /\ opens' = opens + 1
        /\ log = <<>> /\ lost # {} => "seed" \in Races
        /\ \E n \in Nonce :
              LET next == IF log = <<>> THEN put(d, Nothing, ours)
                          ELSE gains(d, room, base[d], ours, n)
              IN  /\ \A x \in drops : n \in fresh(x, room[x].el.v + 1)
                  /\ doc' = [doc EXCEPT ![d] = next]
                  /\ log' = IF log # <<>> /\ next = room THEN log
                            ELSE Append(log, written(room, next))
                  /\ past' = past \cup overIn(written(room, next)) \cup
                         UNION {base[d][x].over \cup {base[d][x].by} : x \in lost}
        /\ edits' = IF drops = {} THEN edits ELSE edits + 1
        /\ heard' = [heard EXCEPT ![d] = Len(log')]
        /\ view' = [view EXCEPT ![d] =
               [Closed EXCEPT !.at = "joined", !.scene = ours, !.from = ours]]
        /\ UNCHANGED <<file, base, vault, synced, ever, mishaps>>

(* Bound, a view first gives what it gained since the join read the file.    *)
Bind(d) ==
    LET v == view[d]
        next == IF v.from = None \/ v.from = v.scene THEN doc[d]
                ELSE put(d, doc[d], mergeElements(v.from, v.scene, heldIn(doc[d])))
    IN  /\ v.at = "joined"
        /\ doc' = [doc EXCEPT ![d] = next] /\ ships(doc[d], next)
        /\ \E n \in Nonce :
              /\ bumps(reconciled(v, next, Element), next, Element, n)
              /\ view' = [view EXCEPT ![d] =
                     [showRoom(v, next, Element, n) EXCEPT !.at = "bound", !.from = None]]
        /\ UNCHANGED <<heard, file, base, vault, synced, ever, edits, opens, mishaps>>

(* A reloaded view shows the file: its binding is stale, and it binds again. *)
Reload(d) ==
    /\ view[d].at = "bound" /\ ~view[d].elsewhere
    /\ mishaps < MaxMishaps /\ mishaps' = mishaps + 1
    /\ drains(d)
    /\ view' = [view EXCEPT ![d] = [Closed EXCEPT !.at = "joined", !.scene = file[d].els]]
    /\ UNCHANGED <<heard, file, base, vault, synced, ever, edits, opens>>

(* Mutant: the room is agreed before the file holds it.                      *)
agreesAlways(els, map) == TRUE

(* DRAWING.holds                                                             *)
agrees(els, map) ==
    \A x \in Element : IF alive(els[x]) \/ alive(map[x]) THEN same(els[x], map[x]) ELSE TRUE

(* The view saves, maybe without its deleted elements; what was settled when *)
(* the file holds it is the base of the next join.                           *)
saves(d) ==
    \E kept \in BOOLEAN :
       LET els == [x \in Element |-> IF kept \/ alive(view[d].scene[x])
                                     THEN view[d].scene[x] ELSE None]
       IN  /\ file' = [file EXCEPT ![d].els = els]
           /\ base' = IF view[d].staged = Nothing /\ agrees(els, heldIn(doc[d]))
                      THEN [base EXCEPT ![d] = heldIn(doc[d])] ELSE base

Save(d) ==
    /\ view[d].at = "bound" /\ ~view[d].elsewhere /\ saves(d)
    /\ mishaps < MaxMishaps /\ mishaps' = mishaps + 1
    /\ UNCHANGED <<log, heard, doc, view, vault, synced, past, ever, edits, opens>>

(* Closed, what is staged still goes; crashed, it is gone.                   *)
Close(d) ==
    /\ view[d].at = "bound" /\ ~view[d].elsewhere /\ saves(d) /\ ships(doc[d], put(d, doc[d], view[d].staged))
    /\ view' = [view EXCEPT ![d] = Closed] /\ doc' = [doc EXCEPT ![d] = Nothing]
    /\ heard' = [heard EXCEPT ![d] = 0]
    /\ UNCHANGED <<vault, synced, ever, edits, opens, mishaps>>

Crash(d) ==
    /\ view[d].at # "closed" /\ mishaps < MaxMishaps /\ mishaps' = mishaps + 1
    /\ view' = [view EXCEPT ![d] = Closed] /\ doc' = [doc EXCEPT ![d] = Nothing]
    /\ heard' = [heard EXCEPT ![d] = 0]
    /\ UNCHANGED <<log, file, base, vault, synced, past, ever, edits, opens>>

(* sceneOf: what a file is, whatever view it was saved with.                 *)
sameScene(a, b) == a.notes = b.notes /\ a.images = b.images /\ agrees(a.els, b.els)

(* A closed drawing is pulled, pushed, or merged where both sides changed.   *)
SyncFile(d) ==
    LET mine == file[d]
        was == synced[d]
    IN  /\ view[d].at = "closed" /\ ~sameScene(mine, vault)
        /\ CASE sameScene(mine, was) ->
                   file' = [file EXCEPT ![d] = vault] /\ UNCHANGED <<vault, ever>>
             [] ~sameScene(mine, was) /\ sameScene(vault, was) ->
                   /\ vault' = mine /\ UNCHANGED file
                   /\ ever' = [past |-> ever.past \cup UNION {mine.els[x].over :
                                   x \in {y \in Element : mine.els[y] # None}},
                               notes |-> IF mine.notes > ever.notes THEN mine.notes
                                         ELSE ever.notes,
                               images |-> ever.images \cup mine.images]
             [] OTHER ->
                   /\ mine.notes = was.notes \/ vault.notes \in {was.notes, mine.notes}
                   /\ file' = [file EXCEPT ![d] = mergeDrawings(was, mine, vault)]
                   /\ UNCHANGED <<vault, ever>>
        /\ synced' = [synced EXCEPT ![d] = vault']
        /\ UNCHANGED <<log, heard, doc, view, base, past, edits, opens, mishaps>>

DNext ==
    \E d \in Device :
       \/ \E x \in Element : Edit(d, x) \/ Hold(d, x) \/ ColdEdit(d, x)
       \/ Render(d) \/ Drain(d) \/ Receive(d) \/ Glimpse(d)
       \/ Join(d) \/ Bind(d) \/ Reload(d) \/ Save(d) \/ Close(d) \/ Crash(d) \/ SyncFile(d)

-----------------------------------------------------------------------------
settled(d) ==
    /\ view[d].at = "bound" /\ heard[d] = Len(log)
    /\ view[d].staged = Nothing /\ ~view[d].dirty /\ view[d].holding = None
    /\ ~view[d].elsewhere /\ ~view[d].missed
quiet == \A d \in Device : view[d].at = "closed" \/ settled(d)
bound == {d \in Device : view[d].at = "bound"}

(* Once nothing is on its way, every bound view shows the room, and one room.*)
ViewsAgree ==
    quiet => \A d \in bound :
        /\ view[d].scene = heldIn(doc[d])
        /\ \A e \in bound : heldIn(doc[d]) = heldIn(doc[e])

(* No element goes back to what somebody had edited, in room or vault.       *)
NothingReverts ==
    /\ quiet => \A d \in bound, x \in Element :
           doc[d][x] # None => doc[d][x].el.by \notin past
    /\ \A x \in Element : vault.els[x] # None => vault.els[x].by \notin ever.past

(* The notes around a drawing never go back, and its images stay.            *)
AroundStays == vault.notes = ever.notes /\ ever.images \subseteq vault.images

DrawingSafe == ViewsAgree /\ NothingReverts /\ AroundStays
=============================================================================
