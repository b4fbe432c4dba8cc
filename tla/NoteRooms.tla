------------------------------ MODULE NoteRooms ------------------------------
(* One live note as its file is renamed (live/workspace/sessions.ts, room.ts, *)
(* rename.ts): on each device a pass keeps the rooms in step with the views,  *)
(* a renamed file carries its room along and moves it at the hub into the new *)
(* path's first free generation, and every other device renames its file and  *)
(* follows the pointer.  A room's name is made of a path and a generation.    *)
EXTENDS Naturals, FiniteSets, FiniteSetsExt

CONSTANTS
    Device, Path, None,
    Start,          \* the path the note is at first
    MaxGen,         \* generations a path may go through (MAX_WALK)
    MaxRenames, MaxCloses, MaxTimeouts

VARIABLES
    hub,            \* per path and generation, the hub's row of the room
    file,           \* per device, the path of its file
    shown,          \* per device, whether a view edits the file live
    rooms,          \* per device and path, the room kept for it, or None
    bound,          \* per device, the path its view is bound under, or None
    cold,           \* per device, the paths left to the file sync until closed
    agreed,         \* per device and path, the generation last agreed there, or None
    wanted,         \* per device, a refresh asked for
    pass,           \* per device, its running refresh
    mover,          \* per device, the room it is moving at the hub, or None
    used
nvars == <<hub, file, shown, rooms, bound, cold, agreed, wanted, pass, mover, used>>

Empty == [at |-> "empty"]
Open == [at |-> "live"]
Resting == [at |-> "rest"]
nowhere == [k \in Path |-> None]

NInit ==
    /\ hub = [k \in Path |-> [g \in 0..MaxGen |-> Empty]]
    /\ file = [d \in Device |-> Start]
    /\ shown = [d \in Device |-> TRUE]
    /\ rooms = [d \in Device |-> nowhere]
    /\ bound = [d \in Device |-> None]
    /\ cold = [d \in Device |-> {}]
    /\ agreed = [d \in Device |-> nowhere]
    /\ wanted = [d \in Device |-> TRUE]
    /\ pass = [d \in Device |-> Resting]
    /\ mover = [d \in Device |-> None]
    /\ used = [renames |-> 0, closes |-> 0, timeouts |-> 0]

spend(what, max) == used[what] < max /\ used' = [used EXCEPT ![what] = @ + 1]

row(r) == hub[r.lineage][r.gen]
synced(r) == r.joined /\ r.moved = None
newRoom(lineage, gen) ==
    [lineage |-> lineage, gen |-> gen, joined |-> FALSE, moved |-> None, renaming |-> None]
ask(d) == wanted' = [wanted EXCEPT ![d] = TRUE]

-----------------------------------------------------------------------------
(* The person.  While the note is closed the file sync may have moved it to   *)
(* where another device has it.                                               *)
Rename(d, to) ==
    /\ spend("renames", MaxRenames) /\ file[d] # to
    /\ file' = [file EXCEPT ![d] = to]
    /\ ask(d)
    /\ UNCHANGED <<hub, shown, rooms, bound, cold, agreed, pass, mover>>

CloseView(d) ==
    /\ spend("closes", MaxCloses) /\ shown[d]
    /\ shown' = [shown EXCEPT ![d] = FALSE]
    /\ ask(d)
    /\ UNCHANGED <<hub, file, rooms, bound, cold, agreed, pass, mover>>

OpenView(d) ==
    /\ ~shown[d] /\ rooms[d] = nowhere /\ pass[d] = Resting /\ ~wanted[d]
    /\ shown' = [shown EXCEPT ![d] = TRUE]
    /\ \E e \in Device : file' = [file EXCEPT ![d] = file[e]]
    /\ ask(d)
    /\ UNCHANGED <<hub, rooms, bound, cold, agreed, pass, mover, used>>

-----------------------------------------------------------------------------
(* A room's session and the hub.                                              *)

(* The room answered: an empty one is seeded with the file, any other takes   *)
(* the file in.                                                               *)
Join(d, k) ==
    LET r == rooms[d][k]
    IN  /\ r # None /\ ~r.joined /\ r.moved = None /\ row(r).at # "moved"
        /\ rooms' = [rooms EXCEPT ![d][k].joined = TRUE]
        /\ hub' = [hub EXCEPT ![r.lineage][r.gen] = Open]
        /\ agreed' = [agreed EXCEPT ![d][r.lineage] = r.gen]
        /\ ask(d)
        /\ UNCHANGED <<file, shown, bound, cold, pass, mover, used>>

isMoving(d, r) == mover[d] # None /\ r.renaming = mover[d].key

(* The pointer reaches a device, joined or not; the mover returns "moved".    *)
SeeMoved(d, k) ==
    LET r == rooms[d][k]
    IN  /\ r # None /\ r.moved = None /\ row(r).at = "moved"
        /\ rooms' = [rooms EXCEPT ![d][k].moved = row(r)]
        /\ mover' = [mover EXCEPT ![d] = IF isMoving(d, r) THEN None ELSE @]
        /\ ask(d)
        /\ UNCHANGED <<hub, file, shown, bound, cold, agreed, pass, used>>

-----------------------------------------------------------------------------
(* moveRoom: probe the path's generations, then rotate the room into the first*)
(* free one.                                                                  *)

still(d) == rooms[d][mover[d].key] # None /\ isMoving(d, rooms[d][mover[d].key])

(* Mutant: a room another note holds is walked past.                          *)
probePast(k, g) ==
    CASE hub[k][g].at = "empty" -> "free"
      [] OTHER -> "moved"

probe(k, g) ==
    CASE hub[k][g].at = "empty" -> "free"
      [] hub[k][g].at = "moved" -> "moved"
      [] OTHER -> "taken"

Probe(d) ==
    LET m == mover[d]
    IN  /\ m # None /\ still(d) /\ m.at = "probe"
        /\ mover' = [mover EXCEPT ![d] =
              CASE probe(m.key, m.gen) = "free" -> [m EXCEPT !.at = "rotate"]
                [] probe(m.key, m.gen) = "moved" /\ m.gen < MaxGen -> [m EXCEPT !.gen = @ + 1]
                [] OTHER -> [m EXCEPT !.at = "refused"]]
        /\ UNCHANGED <<hub, file, shown, rooms, bound, cold, agreed, wanted, pass, used>>

(* The hub takes it only into a room with nothing in it, out of one that did  *)
(* not move; refused, the next attempt probes again.  The row keeps the       *)
(* pointer and the sealed note of the new path.                               *)
Rotate(d) ==
    LET m == mover[d]
        r == rooms[d][m.key]
        accepted == row(r).at = "live" /\ hub[m.key][m.gen].at = "empty"
    IN  /\ m # None /\ still(d) /\ m.at = "rotate" /\ synced(r)
        /\ hub' = IF ~accepted THEN hub
                  ELSE [hub EXCEPT ![r.lineage][r.gen] =
                                      [at |-> "moved", path |-> m.key, gen |-> m.gen],
                                   ![m.key][m.gen] = Open]
        /\ mover' = [mover EXCEPT ![d] =
                        IF accepted THEN [m EXCEPT !.at = "sent"]
                        ELSE [m EXCEPT !.at = "probe", !.gen = 0]]
        /\ UNCHANGED <<file, shown, rooms, bound, cold, agreed, wanted, pass, used>>

(* relocate's end without a move.  Renamed again meanwhile, the next pass     *)
(* moves the room on; nowhere to go, the note starts over at its path.        *)
Relocated(d) ==
    /\ mover' = [mover EXCEPT ![d] = None]
    /\ rooms' = [rooms EXCEPT ![d] = [k \in Path |->
           CASE rooms[d][k] = None -> None
             [] still(d) /\ k = mover[d].key -> None
             [] isMoving(d, rooms[d][k]) -> [rooms[d][k] EXCEPT !.renaming = None]
             [] OTHER -> rooms[d][k]]]
    /\ ask(d)
    /\ UNCHANGED <<hub, file, shown, bound, cold, agreed, pass>>

MoveRefused(d) ==
    /\ mover[d] # None /\ (mover[d].at = "refused" \/ ~still(d))
    /\ Relocated(d) /\ UNCHANGED used

(* Twenty attempts unanswered or busy.                                        *)
MoveTimesOut(d) ==
    /\ mover[d] # None /\ still(d) /\ spend("timeouts", MaxTimeouts)
    /\ Relocated(d)

-----------------------------------------------------------------------------
(* One refresh: carryRenamed, detachStale, closeLeftRooms with what `follow`  *)
(* awaits, forgetColdCauses, bindOpenNotes.                                   *)

(* A renamed file takes its synced room along.                                *)
carried(d) ==
    LET to == file[d]
    IN  IF ~shown[d] \/ rooms[d][to] # None THEN rooms[d]
        ELSE LET from == {k \in Path : rooms[d][k] # None /\ synced(rooms[d][k])}
             IN  IF from = {} THEN rooms[d]
                 ELSE LET k == CHOOSE k \in from : TRUE
                      IN  [rooms[d] EXCEPT ![to] = rooms[d][k], ![k] = None]

moving(k, r) == r # None /\ r.lineage # k /\ r.renaming = None /\ synced(r)

stays(d, k, r) == shown[d] /\ k = file[d] /\ r.moved = None /\ k \notin cold[d]

StartPass(d) ==
    LET here == file[d]
        room == carried(d)[here]
        at == IF moving(here, room) THEN [room EXCEPT !.renaming = here] ELSE room
        staying == at # None /\ stays(d, here, at)
    IN  /\ pass[d] = Resting /\ wanted[d]
        /\ wanted' = [wanted EXCEPT ![d] = FALSE]
        /\ rooms' = [rooms EXCEPT ![d] = [nowhere EXCEPT ![here] = IF staying THEN at ELSE None]]
        /\ bound' = [bound EXCEPT ![d] =
              IF staying /\ @ # None /\ rooms[d][@] = room THEN here ELSE None]
        /\ mover' = [mover EXCEPT ![d] =
              IF ~staying THEN None
              ELSE IF moving(here, room) THEN [at |-> "probe", key |-> here, gen |-> 0] ELSE @]
        /\ pass' = [pass EXCEPT ![d] =
              IF shown[d] /\ at # None /\ at.moved # None
              THEN [at |-> "follow", from |-> at, path |-> here]
              ELSE IF shown[d] THEN [at |-> "bind"] ELSE Resting]
        /\ cold' = [cold EXCEPT ![d] = IF shown[d] THEN @ \cap {here} ELSE {}]
        /\ UNCHANGED <<hub, file, shown, agreed, used>>

(* RoomOpener.follow and the open after it.  In the room once, the device     *)
(* takes the file along, its base too; otherwise it steps past the room, as a *)
(* new note.  A pointer to neither leaves the note to the file sync.          *)
FollowPointer(d) ==
    LET from == pass[d].from
        next == from.moved
        successor == next.path = from.lineage /\ next.gen = from.gen + 1
        along == ~successor /\ from.joined
        ours == next.path \in {from.renaming, pass[d].path}
        path == IF along THEN next.path ELSE from.lineage
        gen == IF along THEN next.gen ELSE from.gen + 1
    IN  /\ pass[d].at = "follow" /\ gen <= MaxGen
        /\ IF along /\ ~ours /\ file[d] # pass[d].path
           THEN /\ cold' = [cold EXCEPT ![d] = @ \cup {pass[d].path}]
                /\ UNCHANGED <<file, rooms, agreed>>
           ELSE LET now == IF along /\ ~ours THEN next.path ELSE file[d]
                IN  /\ file' = [file EXCEPT ![d] = now]
                    /\ rooms' = [rooms EXCEPT ![d][now] = newRoom(path, gen)]
                    /\ agreed' = IF along THEN [agreed EXCEPT ![d][path] = gen] ELSE agreed
                    /\ UNCHANGED cold
        /\ wanted' = [wanted EXCEPT ![d] = @ \/ file'[d] # file[d]]
        /\ pass' = [pass EXCEPT ![d].at = "bind"]
        /\ UNCHANGED <<hub, shown, bound, mover, used>>

(* The rooms still without one are opened; a synced room takes the view.      *)
BindNote(d) ==
    LET here == file[d]
        r == rooms[d][here]
    IN  /\ pass[d].at = "bind"
        /\ IF bound[d] # None \/ here \in cold[d] \/ ~shown[d] THEN UNCHANGED <<rooms, bound>>
           ELSE IF r = None
           THEN /\ rooms' = [rooms EXCEPT ![d][here] =
                       newRoom(here, IF agreed[d][here] = None THEN 0 ELSE agreed[d][here])]
                /\ UNCHANGED bound
           ELSE /\ bound' = [bound EXCEPT ![d] = IF synced(r) THEN here ELSE None]
                /\ UNCHANGED rooms
        /\ pass' = [pass EXCEPT ![d] = Resting]
        /\ UNCHANGED <<hub, file, shown, cold, agreed, wanted, mover, used>>

NNext ==
    \E d \in Device :
        \/ CloseView(d) \/ OpenView(d)
        \/ Probe(d) \/ Rotate(d) \/ MoveRefused(d) \/ MoveTimesOut(d)
        \/ StartPass(d) \/ FollowPointer(d) \/ BindNote(d)
        \/ \E k \in Path : Rename(d, k) \/ Join(d, k) \/ SeeMoved(d, k)

-----------------------------------------------------------------------------
(* Properties.                                                                *)

settled(d) ==
    /\ ~wanted[d] /\ pass[d] = Resting /\ mover[d] = None
    /\ \A k \in Path : rooms[d][k] # None => synced(rooms[d][k]) /\ row(rooms[d][k]).at # "moved"

roomOf(d) == rooms[d][bound[d]]

(* Whatever renames crossed, with nothing left on its way two devices that    *)
(* have the note live are in one room exactly when their files are at one     *)
(* path, and it is a room of that path: nobody types into a room the others   *)
(* left, or into another path's.                                              *)
OneRoomAPath ==
    \A d, e \in Device :
        (settled(d) /\ settled(e) /\ bound[d] # None /\ bound[e] # None) =>
            /\ bound[d] = file[d] /\ roomOf(d).lineage = file[d]
            /\ file[d] = file[e] => roomOf(d).gen = roomOf(e).gen
=============================================================================
