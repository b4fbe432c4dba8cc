--------------------------- MODULE FileDecisions ---------------------------
(* What a person decides about one note in the diff view (ui/diff-view.ts,   *)
(* ui/diff/), and the operations that carry it out (sync/operations/hunks.ts, *)
(* resolve.ts, revert.ts, and the restores of runtime/history-service.ts).   *)
(* The view draws two texts read at different times and numbers their        *)
(* differing segments; the choices are numbers, and reach an operation that  *)
(* compares anew and numbers again, while the note is edited, other devices  *)
(* publish and refreshes redraw the view.                                    *)
EXTENDS Naturals, FiniteSets, Sequences, SequencesExt

CONSTANTS
    Segments,     \* a note is at most this many segments a diff tells apart
    Value, None,  \* what a segment may hold; no note
    Races,        \* among {"enter"}: what may change under a merge being opened
    MaxEdits, MaxRemote, MaxClicks, MaxEvents

VARIABLES
    disk,         \* the note in the vault
    base,         \* its baseline entry
    head,         \* the head's entry and the head's number
    stored,       \* every text published, by which versions are addressed
    copies,       \* the conflict copies beside the note
    result,       \* the last compare of it, or None
    cached,       \* the diff cache: key -> model
    view,         \* the diff view
    loading,      \* its model on its way, or None
    merge,        \* the merge editor, or None
    confirm,      \* an Apply waiting for its confirmation, or None
    queue,        \* what was asked of the controller and not begun
    running,      \* the operation that wrote the disk and now publishes, or None
    had,          \* every segment this disk ever held
    done,         \* what the last decision carried out did, and what was asked
    edits, remotes, clicks, events
dvars == <<disk, base, head, stored, copies, result, cached, view, loading,
           merge, confirm, queue, running, had, done, edits, remotes, clicks, events>>
counts == <<edits, remotes, clicks>>
ui == <<view, loading, merge, confirm>>
vault == <<disk, base, head, stored, copies, had>>

Text == [1..Segments -> Value] \union {None}
parts(text) == IF text = None THEN {} ELSE {<<s, text[s]>> : s \in DOMAIN text}
Closed == [mode |-> "closed", version |-> None, model |-> None, choices |-> {}]

(* The texts' differing segments, numbered from 1 in the order of the file   *)
(* (computeHunks, hunkSegments); a note on one side only is one segment.     *)
segments(left, right) ==
    IF left = right THEN <<>>
    ELSE IF left = None \/ right = None THEN <<0>>
    ELSE SelectSeq([s \in 1..Segments |-> s], LAMBDA s : left[s] # right[s])

at(text, s) == IF s = 0 THEN text ELSE text[s]

(* `left` with the segments of these numbers from `right` (applyHunks).      *)
applied(left, right, picked) ==
    LET places == {segments(left, right)[i] : i \in picked \intersect DOMAIN segments(left, right)}
    IN  IF 0 \in places THEN right
        ELSE IF left = None THEN left
        ELSE [s \in 1..Segments |-> IF s \in places THEN right[s] ELSE left[s]]

complementSelection(left, right, picked) == DOMAIN segments(left, right) \ picked

(* Mutant: a partial pull counts as a whole one.                             *)
isFullSelectionAny(left, right, picked) == TRUE

isFullSelection(left, right, picked) == DOMAIN segments(left, right) \subseteq picked

DInit ==
    /\ \E text \in {t \in Text : t # None} :
           /\ disk = text /\ base = text
           /\ head = [text |-> text, id |-> 1]
           /\ stored = {text} /\ had = parts(text)
    /\ copies = {} /\ result = None /\ cached = {}
    /\ view = Closed /\ loading = None /\ merge = None /\ confirm = None
    /\ queue = <<>> /\ running = None /\ done = {}
    /\ edits = 0 /\ remotes = 0 /\ clicks = 0 /\ events = 0

forget == done' = {}
spend == events < MaxEvents /\ events' = events + 1

-----------------------------------------------------------------------------
(* The compare (sync/diff.ts) of a scan with the head.                       *)
compared == [local |-> disk, remote |-> head.text, id |-> head.id]
direction(r) ==
    IF r.local = r.remote \/ (r.local = base /\ r.remote = base) THEN "same"
    ELSE IF r.local # base /\ r.remote # base THEN "conflict"
    ELSE IF r.local # base THEN "local" ELSE "remote"

(* setResult and settled: every new result empties the diff cache.           *)
settle(r) == result' = r /\ cached' = {}

(* The note is edited by hand, or by another plugin.                         *)
Edit ==
    /\ spend /\ edits < MaxEdits /\ edits' = edits + 1
    /\ disk' \in {t \in Text : t # disk /\ Len(segments(disk, t)) = 1}
    /\ had' = had \union parts(disk')
    /\ forget
    /\ UNCHANGED <<base, head, stored, copies, result, cached, ui, queue,
                   running, remotes, clicks>>

(* Another device publishes the note, or its removal.                        *)
RemoteEdit ==
    /\ spend /\ remotes < MaxRemote /\ remotes' = remotes + 1
    /\ \E t \in Text :
           /\ t # head.text /\ Len(segments(head.text, t)) = 1
           /\ head' = [text |-> t, id |-> head.id + 1]
           /\ stored' = stored \union {t}
    /\ forget
    /\ UNCHANGED <<disk, base, copies, result, cached, ui, queue, running, had,
                   edits, clicks>>

(* A refresh, which waits for the operation that runs (enqueue).             *)
Refresh ==
    /\ spend /\ running = None
    /\ result # compared \/ cached # {}
    /\ settle(compared)
    /\ forget /\ UNCHANGED <<vault, ui, queue, running, counts>>

-----------------------------------------------------------------------------
(* Opening the view on the note's change, or on one of its versions          *)
(* (setState, showFile): what it showed is dropped.                          *)
Open ==
    /\ IF view = Closed THEN UNCHANGED events ELSE spend
    /\ \E v \in stored \union {None} :
           view' = [Closed EXCEPT !.mode = IF v = None THEN "change" ELSE "history",
                                  !.version = v]
    /\ view'.mode # view.mode \/ view'.version # view.version
    /\ confirm = None
    /\ loading' = None /\ merge' = None
    /\ forget
    /\ UNCHANGED <<vault, result, cached, confirm, queue, running, counts>>

key == [dir |-> direction(result), local |-> result.local, remote |-> result.remote,
        base |-> IF direction(result) = "conflict" THEN base ELSE None]
NoChange == [dir |-> "none", other |-> None, key |-> None, hit |-> {}]

(* A load begins with the status and the result of now (refreshModel,        *)
(* fileDiff), and ends with the cache's model when it has one                *)
(* (DiffCache.get); one at a time, and none under the merge editor.          *)
StartLoad ==
    /\ view.mode # "closed" /\ loading = None /\ merge = None
    /\ loading' =
         IF view.mode = "history"
         THEN [dir |-> "history", other |-> view.version, key |-> None, hit |-> {}]
         ELSE IF result = None THEN NoChange
         ELSE IF direction(result) = "same" THEN NoChange
         ELSE [dir |-> direction(result), key |-> key,
               other |-> IF direction(result) = "local" THEN base ELSE result.remote,
               hit |-> {entry.model : entry \in {e \in cached : e.key = key}}]
    /\ forget
    /\ UNCHANGED <<vault, result, cached, view, merge, confirm, queue, running,
                   counts, events>>

(* The two texts as the view orders them (the build functions of             *)
(* projection.ts): the baseline or the version before the note, the note     *)
(* before the remote.                                                        *)
built(load) ==
    IF load.dir \in {"local", "history"}
    THEN [dir |-> load.dir, left |-> load.other, right |-> disk]
    ELSE [dir |-> load.dir, left |-> disk, right |-> load.other]

(* Whether the panel that shows `old` can show `new` in place                *)
(* (ComparePanel.update).                                                    *)
keptPanel(old, new) == old # None /\ old.dir = new.dir

(* The choices a panel keeps over its update.                                *)
(* Mutant: the numbers stay chosen when the texts moved.                     *)
renewedNever(choices, old, new) == choices

renewed(choices, old, new) == IF old = new THEN choices ELSE {}

(* The note is read and the view draws. Without a change it closes, but only *)
(* waits when there is no compare.                                           *)
FinishLoad ==
    /\ loading # None
    /\ loading' = None
    /\ \/ /\ loading.dir = "none"
          /\ view' = IF result = None THEN [view EXCEPT !.model = None, !.choices = {}] ELSE Closed
          /\ UNCHANGED <<cached, confirm>>
       \/ /\ loading.dir # "none"
          /\ \E model \in IF loading.hit = {} THEN {built(loading)} ELSE loading.hit :
                /\ cached' = IF loading.key = None \/ loading.hit # {} THEN cached
                             ELSE {e \in cached : e.key # loading.key}
                                  \union {[key |-> loading.key, model |-> model]}
                /\ view' = [view EXCEPT
                       !.model = model,
                       !.choices = IF keptPanel(view.model, model)
                                   THEN renewed(@, view.model, model) ELSE {}]
                /\ confirm' = IF confirm # None /\ keptPanel(view.model, model)
                              THEN [confirm EXCEPT !.choices = renewed(@, view.model, model)]
                              ELSE confirm
    /\ forget
    /\ UNCHANGED <<vault, result, merge, queue, running, counts, events>>

-----------------------------------------------------------------------------
click == clicks < MaxClicks /\ clicks' = clicks + 1

kindsOf(dir) ==
    CASE dir = "local" -> {"push", "revert"}
      [] dir = "history" -> {"restore"}
      [] OTHER -> {"pull"}

(* A segment is picked, with what the person saw there (HunkChoices.toggle): *)
(* the operations read the number and the kind alone.                        *)
Choose ==
    /\ view.model # None /\ merge = None /\ confirm = None
    /\ view.mode = "history" => view.model.right # None
    /\ LET shown == segments(view.model.left, view.model.right)
       IN \E i \in DOMAIN shown, kind \in kindsOf(view.model.dir) :
              /\ ~\E c \in view.choices : c.number = i
              /\ view' = [view EXCEPT !.choices = @ \union
                     {[number |-> i, kind |-> kind, place |-> shown[i],
                       value |-> at(IF kind \in {"revert", "restore"} THEN view.model.left
                                    ELSE view.model.right, shown[i])]}]
    /\ click
    /\ forget
    /\ UNCHANGED <<vault, result, cached, loading, merge, confirm, queue,
                   running, edits, remotes, events>>

picked(choices, kind) == {c.number : c \in {d \in choices : d.kind = kind}}

ask(op) == queue' = Append(queue, op)
hunkOp(model, choices, version) ==
    [do |-> model.dir, model |-> model, choices |-> choices, version |-> version]
hunkOpInFlight ==
    \/ \E i \in DOMAIN queue : queue[i].do \in {"local", "remote", "conflict", "history"}
    \/ running # None /\ running.op.do \in {"local", "remote", "conflict", "history"}

(* Apply: reverting lines that exist nowhere else is confirmed first, with   *)
(* the model of the click and the panel's own choices (applyChoices).        *)
Apply ==
    /\ view.model # None /\ view.choices # {} /\ merge = None /\ confirm = None
    /\ ~hunkOpInFlight /\ Len(queue) < 2
    /\ IF picked(view.choices, "revert") # {}
       THEN confirm' = hunkOp(view.model, view.choices, view.version) /\ UNCHANGED queue
       ELSE ask(hunkOp(view.model, view.choices, view.version)) /\ UNCHANGED confirm
    /\ forget
    /\ UNCHANGED <<vault, result, cached, view, loading, merge, running,
                   counts, events>>

Confirmed ==
    /\ confirm # None
    /\ confirm' = None
    /\ \/ UNCHANGED queue
       \/ confirm.choices # {} /\ ask(confirm)
    /\ forget
    /\ UNCHANGED <<vault, result, cached, view, loading, merge, running,
                   counts, events>>

(* The whole-file buttons: of a conflict, of a version, of a local change.   *)
Press ==
    /\ view.model # None /\ merge = None /\ confirm = None /\ Len(queue) < 2
    /\ \E do \in CASE view.model.dir = "conflict" -> {"keepLocal", "acceptRemote", "keepBoth"}
                   [] view.model.dir = "history" -> {"restoreVersion"}
                   [] view.model.dir = "local" -> {"revertPaths"}
                   [] OTHER -> {} :
           ask([do |-> do, version |-> view.version])
    /\ click
    /\ forget
    /\ UNCHANGED <<vault, result, cached, ui, running, edits, remotes, events>>

(* What the merge editor can end with once nothing is unresolved: the side   *)
(* that changed, and either one where both did.                              *)
mergedTexts(b, local, remote) ==
    {t \in Text : t # None /\ \A s \in 1..Segments :
        t[s] \in IF local[s] = b[s] THEN {remote[s]}
                 ELSE IF remote[s] = b[s] THEN {local[s]} ELSE {local[s], remote[s]}}

(* Opening it (getConflictThreeWay): the hashes it will be saved against are *)
(* the compare's, the local text is read now.                                *)
EnterMerge ==
    /\ view.model # None /\ view.model.dir = "conflict" /\ merge = None /\ confirm = None
    /\ result # None /\ direction(result) = "conflict"
    /\ base # None /\ disk # None /\ result.remote # None
    /\ "enter" \in Races \/ disk = result.local
    /\ merge' = [base |-> base, local |-> disk, remote |-> result.remote,
                 expected |-> <<result.local, result.remote>>]
    /\ click
    /\ forget
    /\ UNCHANGED <<vault, result, cached, view, loading, confirm, queue,
                   running, edits, remotes, events>>

SaveMerge ==
    /\ merge # None /\ Len(queue) < 2
    /\ \E text \in mergedTexts(merge.base, merge.local, merge.remote) :
           ask([do |-> "saveMerged", content |-> text, expected |-> merge.expected,
                shown |-> merge])
    /\ click
    /\ forget
    /\ UNCHANGED <<vault, result, cached, ui, running, edits, remotes, events>>

LeaveMerge ==
    /\ merge # None
    /\ merge' = None
    /\ forget
    /\ UNCHANGED <<vault, result, cached, view, loading, confirm, queue,
                   running, counts, events>>

-----------------------------------------------------------------------------
(* An operation compares anew, checks what it was given against that, and    *)
(* writes the disk before it publishes.                                      *)

(* assertSidesUnchanged, and the restore's own check of the note alone.      *)
(* Mutant: the numbers are applied to the texts as they are.                 *)
sidesUnchangedAny(op, left, right) == TRUE

sidesUnchanged(op, left, right) ==
    /\ right = op.model.right
    /\ op.do = "history" \/ left = op.model.left

(* Mutant: the merge is saved over whatever is there.                        *)
mergeCurrentAny(op) == direction(compared) = "conflict"

mergeCurrent(op) ==
    direction(compared) = "conflict" /\ op.expected = <<disk, head.text>>

begin(write) == disk' = write /\ had' = had \union parts(write)
report(op, wrote, kept, kinds) ==
    [wrote |-> wrote, kept |-> kept, took |-> {c \in op.choices : c.kind \in kinds}]
finish == queue' = Tail(queue)
(* What the operation leaves as the result (recomputeAfterWrite).            *)
settled(local) == settle([compared EXCEPT !.local = local])
publishing(op, text) ==
    running' = [op |-> op, text |-> text, parent |-> head.id, was |-> head.text, over |-> disk]

Refused == finish /\ settle(compared) /\ forget /\ UNCHANGED <<vault, ui, running>>

(* Push and revert in one operation, both of Baseline/Local (localHunksOp).  *)
localHunksOp(op) ==
    LET push == picked(op.choices, "push")
        revert == picked(op.choices, "revert")
        left == base
        kept == applied(left, disk, complementSelection(left, disk, revert))
        blocked == push # {} /\ direction(compared) \in {"remote", "conflict"}
    IN  IF blocked \/ ~sidesUnchanged(op, left, disk)
        THEN Refused
        ELSE /\ begin(IF revert = {} THEN disk ELSE kept)
             /\ done' = (IF revert = {} THEN {}
                         ELSE {report(op, kept, op.model.right, {"revert"})})
                        \union (IF push = {} THEN {}
                         ELSE {report(op, applied(left, disk, push), op.model.left, {"push"})})
             /\ IF push = {} THEN UNCHANGED running
                ELSE publishing(op, applied(left, disk, push))
             /\ finish /\ settled(disk')
             /\ UNCHANGED <<base, head, stored, copies, ui>>

(* Segments of the remote into the note; the baseline moves when all of them *)
(* were taken (pullHunksOp).                                                 *)
pullHunksOp(op) ==
    LET pull == picked(op.choices, "pull")
        merged == applied(disk, head.text, pull)
    IN  IF head.text = None \/ ~sidesUnchanged(op, disk, head.text) THEN Refused
        ELSE /\ begin(merged)
             /\ done' = {report(op, merged, op.model.left, {"pull"})}
             /\ base' = IF isFullSelection(disk, head.text, pull) THEN head.text ELSE base
             /\ finish /\ settled(merged)
             /\ UNCHANGED <<head, stored, copies, ui, running>>

(* Segments of a version into the note (restoreHistoryHunks).                *)
restoreHistoryHunks(op) ==
    LET numbers == picked(op.choices, "restore")
        merged == applied(op.version, disk, complementSelection(op.version, disk, numbers))
    IN  IF disk = None \/ ~sidesUnchanged(op, op.version, disk) THEN Refused
        ELSE /\ begin(merged)
             /\ done' = {report(op, merged, op.model.right, {"restore"})}
             /\ finish /\ settled(merged)
             /\ UNCHANGED <<base, head, stored, copies, ui, running>>

restoreFileVersion(op) ==
    /\ begin(op.version) /\ finish /\ settled(op.version)
    /\ forget /\ UNCHANGED <<base, head, stored, copies, ui, running>>

(* The note as it was last in sync, or no note (revertPathsOp).              *)
revertPathsOp ==
    /\ begin(base) /\ finish /\ settled(base)
    /\ forget /\ UNCHANGED <<base, head, stored, copies, ui, running>>

(* Mutant: the copy is forgotten.                                            *)
besideNothing == copies

beside == copies \union {head.text}

(* The ways to end a conflict (batchAcceptRemoteOp, batchKeepLocalOp,        *)
(* keepBothConflictOp, saveMergedOp).                                        *)
resolve(op) ==
    IF direction(compared) # "conflict" THEN Refused
    ELSE CASE op.do = "acceptRemote" ->
             /\ begin(head.text) /\ base' = head.text /\ finish /\ settled(head.text)
             /\ forget /\ UNCHANGED <<head, stored, copies, ui, running>>
         [] op.do = "keepBoth" ->
             IF head.text = None THEN Refused
             ELSE /\ copies' = beside
                  /\ publishing(op, disk) /\ finish /\ settled(disk)
                  /\ forget
                  /\ UNCHANGED <<disk, had, base, head, stored, ui>>
         [] op.do = "keepLocal" ->
             /\ publishing(op, disk) /\ finish /\ settled(disk)
             /\ forget /\ UNCHANGED <<vault, ui>>
         [] op.do = "saveMerged" ->
             IF ~mergeCurrent(op) THEN Refused
             ELSE /\ begin(op.content)
                  /\ publishing(op, op.content)
                  /\ finish /\ settled(op.content)
                  /\ forget /\ UNCHANGED <<base, head, stored, copies, ui>>

Operate ==
    /\ queue # <<>> /\ running = None
    /\ LET op == Head(queue)
       IN  CASE op.do = "local" -> localHunksOp(op)
             [] op.do \in {"remote", "conflict"} -> pullHunksOp(op)
             [] op.do = "history" -> restoreHistoryHunks(op)
             [] op.do = "restoreVersion" -> restoreFileVersion(op)
             [] op.do = "revertPaths" -> revertPathsOp
             [] OTHER -> resolve(op)
    /\ UNCHANGED <<counts, events>>

(* The publish (publishFileMap), refused when the head moved on meanwhile:   *)
(* what was written to the disk stays, and the device compares again.        *)
Publish ==
    /\ running # None
    /\ running' = None
    /\ IF head.id = running.parent
       THEN /\ head' = [text |-> running.text, id |-> head.id + 1]
            /\ stored' = stored \union {running.text}
            /\ base' = running.text
            /\ result' = [local |-> result.local, remote |-> running.text, id |-> head.id + 1]
            /\ cached' = {}
            /\ merge' = IF running.op.do = "saveMerged" THEN None ELSE merge
            /\ view' = IF running.op.do \in {"keepLocal", "keepBoth", "saveMerged"}
                       THEN Closed ELSE view
            /\ loading' = IF view' = Closed THEN None ELSE loading
       ELSE settle(compared) /\ UNCHANGED <<head, stored, base, view, loading, merge>>
    /\ forget
    /\ UNCHANGED <<disk, copies, had, confirm, queue, counts, events>>

(* The storage fails the publish.                                            *)
PublishFails ==
    /\ spend /\ running # None
    /\ running' = None
    /\ forget /\ UNCHANGED <<vault, result, cached, ui, queue, counts>>

DNext ==
    \/ Edit \/ RemoteEdit \/ Refresh
    \/ Open \/ StartLoad \/ FinishLoad
    \/ Choose \/ Apply \/ Confirmed \/ Press
    \/ EnterMerge \/ SaveMerge \/ LeaveMerge
    \/ Operate \/ Publish \/ PublishFails

-----------------------------------------------------------------------------
(* An operation on segments changes what the person picked, to what the view *)
(* showed there at the pick, and leaves every other segment of the text it   *)
(* writes as the view showed it, whatever was refreshed, edited or published *)
(* between the pick and the write (applyChoices to localHunksOp, pullHunksOp *)
(* and restoreHistoryHunks).                                                 *)
ChoiceIsWhatWasSeen ==
    \A d \in done :
        /\ \A c \in d.took : c.place = 0 => d.wrote = c.value
        /\ d.took # {} /\ (\A c \in d.took : c.place # 0) =>
             /\ d.wrote # None /\ d.kept # None
             /\ \A s \in 1..Segments :
                  IF \E c \in d.took : c.place = s
                  THEN \E c \in d.took : c.place = s /\ d.wrote[s] = c.value
                  ELSE d.wrote[s] = d.kept[s]

(* The baseline never holds a segment that was not in this vault: what a     *)
(* partial pull left behind stays a remote change, or the next push would    *)
(* publish over it (hunks.ts:160).                                           *)
BaseIsTaken == parts(base) \subseteq had

(* A merge that publishes replaces the remote version its editor showed, and *)
(* the note its hunks were worked out from (saveMergedOp, publishFileMap).   *)
MergeReplacesWhatItShowed ==
    running # None /\ running.op.do = "saveMerged" =>
        /\ running.op.shown.remote = running.was
        /\ running.op.shown.local = running.over

(* Keeping both publishes over no remote version without its copy.           *)
BothAreKept == running # None /\ running.op.do = "keepBoth" => running.was \in copies

DecisionSafe ==
    ChoiceIsWhatWasSeen /\ BaseIsTaken /\ MergeReplacesWhatItShowed /\ BothAreKept
=============================================================================
