------------------------------ MODULE MCScenes ------------------------------
(* What devices do to one tree of files, to one drawing and to one set of    *)
(* settings, when each of their timers pushes, and how vaults that never met *)
(* first sync. Five parts for TLC, of which one runs; each module says what  *)
(* its part is of the code.                                                  *)
EXTENDS Naturals, TLC

CONSTANTS None, NoFile, u1, u2, p1, p2, p3, f1, d1, d2, n1, n2, s1, h1, h2, h3

VARIABLES
    part,
    movesDisk, dirs, movesBase, head, result, pull, fresh, made, dropped,
    shared, movesEdits, runs, stops,
    log, heard, doc, view, file, drawingsBase, vault, synced, past, ever,
    drawingsEdits, opens, mishaps,
    now, online, options, queue, lastRun, failures, backoffUntil, started,
    beat, dueAt, known, blocked, dirty, pending, chain, job, waived, idleSince,
    hasty, timersUsed,
    settings, links, prompt, transferUsed,
    heads, objects, firstDisk, baseline, published, uploads, op, late,
    firstEdits, keeps, faults, chosen, held, deleted, won

names == [p \in {p1, p2, p3} |-> IF p = p3 THEN n2 ELSE n1]
folders == [p \in {p1, p2, p3} |-> IF p = p1 THEN None ELSE f1]
owners == [f \in {n1, s1} |-> IF f = n1 THEN d1 ELSE d2]
choices ==
    {[sections |-> {d1}, mode |-> "none"], [sections |-> {d1}, mode |-> "active"],
     [sections |-> {}, mode |-> "all"], [sections |-> {d1, d2}, mode |-> "all"]}
(* h1 and h2 are two saves of one drawing.                                   *)
drawing == [h \in {h1, h2, h3} |-> IF h = h2 THEN h1 ELSE h]

Moves == INSTANCE TreeMoves WITH
    disk <- movesDisk, base <- movesBase, edits <- movesEdits,
    Device <- {1, 2}, Path <- {p1, p2, p3}, Dir <- {f1}, nameOf <- names,
    dirOf <- folders, Stops <- {"crash", "cancel"}, MaxEdits <- 2,
    MaxRuns <- 2, MaxStops <- 1

Drawings == INSTANCE LiveDrawings WITH
    base <- drawingsBase, edits <- drawingsEdits,
    Device <- {1, 2}, Element <- {1}, Nonce <- {1, 2}, Races <- {},
    MaxEdits <- 2, MaxOpens <- 2, MaxVersion <- 3, MaxMishaps <- 1

Timers == INSTANCE Scheduler WITH
    used <- timersUsed,
    File <- {n1, s1}, folderOf <- owners, Inside <- {s1},
    Options <- {{"only", "rightAway"}, {"only"}, {"rightAway", "waits"}},
    Quiet <- 1, Settle <- 1, Cooldown <- 1, Beat <- 1, Interval <- 2,
    Backoff <- 2, Threshold <- 1, MaxTime <- 3, MaxEdits <- 2, MaxFails <- 1,
    MaxAsks <- 1, MaxEvents <- 2

Transfer == INSTANCE SettingsTransfer WITH
    used <- transferUsed,
    Device <- {u1, u2}, Field <- {n1, s1}, Section <- {d1, d2},
    sectionOf <- owners, Kind <- {"s3", "drive"}, Races <- {},
    Choices <- choices, MaxTweaks <- 1, MaxExports <- 1, MaxImports <- 1

Joining == INSTANCE VaultSync WITH
    disk <- firstDisk, edits <- firstEdits,
    Path <- {p1}, Hash <- {h1, h2, h3}, Scene <- drawing, Device <- {u1, u2},
    MaxEdits <- 2, MaxKeeps <- 1, MaxPuts <- 3, MaxFaults <- 0, MaxLag <- 0,
    Exclusive <- {"put"}, StartSynced <- FALSE

movesvars == <<
    movesDisk, dirs, movesBase, head, result, pull, fresh, made, dropped,
    shared, movesEdits, runs, stops>>
drawingsvars == <<
    log, heard, doc, view, file, drawingsBase, vault, synced, past, ever,
    drawingsEdits, opens, mishaps>>
timersvars == <<
    now, online, options, queue, lastRun, failures, backoffUntil, started,
    beat, dueAt, known, blocked, dirty, pending, chain, job, waived, idleSince,
    hasty, timersUsed>>
transfervars == <<
    settings, links, prompt, transferUsed>>
firstvars == <<
    heads, objects, firstDisk, baseline, published, uploads, op, late,
    firstEdits, keeps, faults, chosen, held, deleted, won>>

allvars == <<part, movesvars, drawingsvars, timersvars, transfervars, firstvars>>

(* A part that does not run holds nothing.                                   *)
NoMoves ==
    /\ movesDisk = None /\ dirs = None /\ movesBase = None /\ head = None
    /\ result = None /\ pull = None /\ fresh = None /\ made = None
    /\ dropped = None /\ shared = None /\ movesEdits = None /\ runs = None
    /\ stops = None
NoDrawings ==
    /\ log = None /\ heard = None /\ doc = None /\ view = None /\ file = None
    /\ drawingsBase = None /\ vault = None /\ synced = None /\ past = None
    /\ ever = None /\ drawingsEdits = None /\ opens = None /\ mishaps = None
NoTimers ==
    /\ now = None /\ online = None /\ options = None /\ queue = None
    /\ lastRun = None /\ failures = None /\ backoffUntil = None
    /\ started = None /\ beat = None /\ dueAt = None /\ known = None
    /\ blocked = None /\ dirty = None /\ pending = None /\ chain = None
    /\ job = None /\ waived = None /\ idleSince = None /\ hasty = None
    /\ timersUsed = None
NoTransfer ==
    /\ settings = None /\ links = None /\ prompt = None /\ transferUsed = None
NoJoining ==
    /\ heads = None /\ objects = None /\ firstDisk = None /\ baseline = None
    /\ published = None /\ uploads = None /\ op = None /\ late = None
    /\ firstEdits = None /\ keeps = None /\ faults = None /\ chosen = None
    /\ held = None /\ deleted = None /\ won = None

Init ==
    \/ part = "moves" /\ Moves!YInit /\ NoDrawings /\ NoTimers /\ NoTransfer /\ NoJoining
    \/ part = "drawings" /\ Drawings!DInit /\ NoMoves /\ NoTimers /\ NoTransfer /\ NoJoining
    \/ part = "timers" /\ Timers!HInit /\ NoMoves /\ NoDrawings /\ NoTransfer /\ NoJoining
    \/ part = "transfer" /\ Transfer!XInit /\ NoMoves /\ NoDrawings /\ NoTimers /\ NoJoining
    \/ part = "first" /\ Joining!Init /\ NoMoves /\ NoDrawings /\ NoTimers /\ NoTransfer

(* The part that runs is chosen once, and the others stand still.            *)
MovesStep ==
    /\ part = "moves" /\ UNCHANGED part
    /\ Moves!YNext
    /\ UNCHANGED <<drawingsvars, timersvars, transfervars, firstvars>>

DrawingsStep ==
    /\ part = "drawings" /\ UNCHANGED part
    /\ Drawings!DNext
    /\ UNCHANGED <<movesvars, timersvars, transfervars, firstvars>>

TimersStep ==
    /\ part = "timers" /\ UNCHANGED part
    /\ Timers!HNext
    /\ UNCHANGED <<movesvars, drawingsvars, transfervars, firstvars>>

TransferStep ==
    /\ part = "transfer" /\ UNCHANGED part
    /\ Transfer!XNext
    /\ UNCHANGED <<movesvars, drawingsvars, timersvars, firstvars>>

JoiningStep ==
    /\ part = "first" /\ UNCHANGED part
    /\ Joining!Next
    /\ UNCHANGED <<movesvars, drawingsvars, timersvars, transfervars>>

Next ==
    \/ MovesStep
    \/ DrawingsStep
    \/ TimersStep
    \/ TransferStep
    \/ JoiningStep

Spec == Init /\ [][Next]_allvars

(* Two devices that sync for the first time or trade settings.               *)
Interchangeable == Permutations({u1, u2})

(* TreeMoves: moves, folders and edits reach the other device as they were.   *)
TreeSafe == part = "moves" => Moves!TreeSafe

(* LiveDrawings: views of a drawing agree, and take no element back.          *)
DrawingSafe == part = "drawings" => Drawings!DrawingSafe

(* Scheduler: every change noted is pushed or waits for a push to come.       *)
TimersSafe == part = "timers" => Timers!TimersSafe

(* SettingsTransfer: an import takes what was sent, and nothing else.         *)
SettingsSafe == [][part = "transfer" => Transfer!TakesWhatWasSent]_transfervars

(* VaultSync: devices that never synced join their vaults, a drawing in them. *)
FirstSafe == 
    /\ [](part = "first" => Joining!LinearHistory)
    /\ [][part = "first" => Joining!RemovesDeleted /\ Joining!ReplacesHeldOrKept]_firstvars
=============================================================================
