------------------------------ MODULE TreeMoves ------------------------------
(* How renamed files and folders travel (sync/moves.ts, pull-moves.ts, and   *)
(* the folders of engine.ts and baseline.ts): devices compare their disk     *)
(* with the head, pull and push what the comparison pairs up, and users work *)
(* on the disk meanwhile.  Reading a file, uploading it and putting the head *)
(* are one step here (VaultSync has them apart).                             *)
(*                                                                           *)
(* A content is a note and the edit that wrote it: <<note, edit>>, and       *)
(* <<0, 0>> for an empty file.                                               *)
EXTENDS Naturals, FiniteSets, Functions

CONSTANTS
    Device, Path, Dir, None,
    nameOf,        \* the last segment of a path
    dirOf,         \* its folder, or None
    Stops,         \* "cancel", "crash": what may end a pull early
    MaxEdits, MaxRuns, MaxStops

VARIABLES
    disk, dirs,    \* each device's files and folders
    base,          \* each device's baseline: files and empty folders
    head,          \* the manifest in storage
    result,        \* each device's last CompareResult, or None
    pull,          \* each device's running pull, or None
    fresh,         \* contents a user wrote that no manifest had yet
    made,          \* folders a user made or emptied, or a pull was told of
    dropped,       \* notes a user deleted, or pushed as deleted or replaced
    shared,        \* notes a manifest ever had
    edits, runs, stops
yvars == <<disk, dirs, base, head, result, pull, fresh, made, dropped, shared,
           edits, runs, stops>>
world == <<base, head, result, pull, shared, runs, stops>>

NoFiles == [p \in Path |-> None]
Notes(files) == {files[p][1] : p \in {q \in Path : files[q] # None}}
Empty == <<0, 0>>
holding(files) == {dirOf[p] : p \in {q \in Path : files[q] # None}} \ {None}

YInit ==
    /\ \E p \in Path :
          LET files == [NoFiles EXCEPT ![p] = <<1, 0>>]
          IN  /\ disk = [d \in Device |-> files]
              /\ head = [files |-> files, dirs |-> {}]
              /\ dirs = [d \in Device |-> holding(files)]
    /\ base = [d \in Device |-> head]
    /\ result = [d \in Device |-> None] /\ pull = [d \in Device |-> None]
    /\ fresh = [d \in Device |-> {}] /\ made = [d \in Device |-> {}]
    /\ dropped = {} /\ shared = {1}
    /\ edits = 0 /\ runs = 0 /\ stops = 0

-----------------------------------------------------------------------------
(* The users.                                                                *)

put(d, files) ==
    /\ disk' = [disk EXCEPT ![d] = files]
    /\ dirs' = [dirs EXCEPT ![d] = @ \cup holding(files)]
    /\ made' = [made EXCEPT ![d] = @ \cup (holding(disk[d]) \ holding(files))
                                      \cup (holding(files) \ dirs[d])]

Edit(d, p) ==
    /\ edits < MaxEdits /\ edits' = edits + 1
    /\ disk[d][p] \notin {None, Empty}
    /\ LET new == <<disk[d][p][1], edits + 1>>
       IN  /\ put(d, [disk[d] EXCEPT ![p] = new])
           /\ fresh' = [fresh EXCEPT ![d] = (@ \ {disk[d][p]}) \cup {new}]
    /\ UNCHANGED <<dropped, world>>

(* A new note, an empty file or a copy.                                      *)
Create(d, p) ==
    /\ edits < MaxEdits /\ edits' = edits + 1
    /\ disk[d][p] = None
    /\ \E c \in {<<edits + 2, 0>>, Empty} \cup (Range(disk[d]) \ {None}) :
          /\ put(d, [disk[d] EXCEPT ![p] = c])
          /\ fresh' = [fresh EXCEPT ![d] = IF c = <<edits + 2, 0>> THEN @ \cup {c} ELSE @]
    /\ UNCHANGED <<dropped, world>>

Rename(d, p, q) ==
    /\ edits < MaxEdits /\ edits' = edits + 1
    /\ disk[d][p] # None /\ disk[d][q] = None
    /\ put(d, [disk[d] EXCEPT ![q] = disk[d][p], ![p] = None])
    /\ UNCHANGED <<fresh, dropped, world>>

Delete(d, p) ==
    /\ edits < MaxEdits /\ edits' = edits + 1
    /\ disk[d][p] # None /\ put(d, [disk[d] EXCEPT ![p] = None])
    /\ fresh' = [fresh EXCEPT ![d] = @ \ {disk[d][p]}]
    /\ dropped' = dropped \cup {disk[d][p][1]}
    /\ UNCHANGED world

RemoveDir(d, dir) ==
    /\ dir \in dirs[d] \ holding(disk[d])
    /\ dirs' = [dirs EXCEPT ![d] = @ \ {dir}]
    /\ UNCHANGED <<disk, fresh, made, dropped, edits, world>>

-----------------------------------------------------------------------------
(* diff: the changes before moves are paired.                                *)
here(s)  == {p \in Path : s.files[p] # s.base[p]}
there(s) == {p \in Path : s.head.files[p] # s.base[p]}
clash(s) == {p \in here(s) \cap there(s) : s.files[p] # s.head.files[p]}

goneFrom(s, files, changed) ==
    {p \in changed : files[p] = None}
freshIn(s, changed) == {p \in changed : s.base[p] = None}

(* Mutant: of several targets with the name, each is the one.                *)
pairsLoose(gone, targets, was, now) ==
    {<<f, t>> \in gone \X targets :
        /\ was[f] = now[t] /\ was[f] # Empty
        /\ LET from == {g \in gone : was[g] = was[f]}
               to == {g \in targets : now[g] = was[f]}
           IN  Cardinality(from) = 1 \/ Cardinality(to) = 1 \/ nameOf[f] = nameOf[t]}

(* pairUp: one to one by content, else by file name.                         *)
pairs(gone, targets, was, now) ==
    {<<f, t>> \in gone \X targets :
        /\ was[f] = now[t] /\ was[f] # Empty
        /\ LET from == {g \in gone : was[g] = was[f]}
               to == {g \in targets : now[g] = was[f]}
           IN  \/ from = {f} /\ to = {t}
               \/ /\ nameOf[f] = nameOf[t]
                  /\ {g \in from : nameOf[g] = nameOf[f]} = {f}
                  /\ {g \in to : nameOf[g] = nameOf[f]} = {t}}

(* pairMoves: a path gone on one side, edited on the other or not.           *)
edited(s, files) == {p \in clash(s) : files[p] = None /\ s.base[p] # None}

paired(s, files, changed) ==
    pairs(goneFrom(s, files, changed) \cup edited(s, files), freshIn(s, changed), s.base, files)

(* The diff of a comparison: an edited file follows its move, and for a move *)
(* from here their text lands in the new path before the move is pushed.     *)
Diffed(d, s) ==
    \E remote \in {paired(s, s.head.files, there(s) \ here(s))},
       local \in {paired(s, s.files, here(s) \ there(s))} :
        LET followed == {m[1] : m \in remote \cup local} \cap clash(s)
        IN  result' = [result EXCEPT ![d] =
               [files |-> s.files, head |-> s.head, empty |-> s.empty,
                moves |-> {[from |-> m[1], to |-> m[2], side |-> "remote"] : m \in remote}
                          \cup {[from |-> m[1], to |-> m[2], side |-> "local"] : m \in local},
                conflicts |-> clash(s) \ followed,
                remote |-> (there(s) \ here(s)) \cup followed,
                local |-> (here(s) \ there(s)) \ {m[2] : m \in {n \in local : n[1] \in clash(s)}}]]

(* Mutant: a move's paths go one by one.                                     *)
withoutMoves(paths, moves) == paths

withMoves(paths, moves) ==
    paths \cup UNION {{m.from, m.to} : m \in {n \in moves : {n.from, n.to} \cap paths # {}}}

-----------------------------------------------------------------------------
(* Comparing, and a comparison kept after an operation (recomputeAfterWrite).*)
Compare(d) ==
    /\ pull[d] = None /\ runs < MaxRuns /\ runs' = runs + 1
    /\ Diffed(d, [files |-> disk[d], head |-> head, base |-> base[d].files,
                  empty |-> dirs[d] \ holding(disk[d])])
    /\ UNCHANGED <<disk, dirs, base, head, pull, fresh, made, dropped, shared, edits, stops>>

(* majorityFolders: at least two of the three.                               *)
majority(a, b, c) == (a \cap b) \cup (a \cap c) \cup (b \cap c)

advanced(d, published, paths, onDisk) ==
    [files |-> [p \in Path |-> IF p \in paths THEN published.files[p] ELSE base[d].files[p]],
     dirs |-> majority(base[d].dirs, published.dirs, onDisk)]

-----------------------------------------------------------------------------
(* Pulling (pullPathsOp, pullPaths).                                         *)
BeginPull(d) ==
    LET r == result[d]
    IN  /\ r # None /\ pull[d] = None /\ r.conflicts = {}
        /\ \E asked \in SUBSET r.remote :
               LET taken == {m \in r.moves : /\ {m.from, m.to} \cap asked # {}
                                             /\ {m.from, m.to} \cap r.remote # {}}
               IN  /\ asked # {}
                   /\ pull' = [pull EXCEPT ![d] =
                          [moves |-> taken,
                           files |-> asked \ UNION {{m.from, m.to} : m \in taken},
                           written |-> {}]]
        /\ UNCHANGED <<disk, dirs, base, head, result, fresh, made, dropped, shared,
                       edits, runs, stops>>

(* A step of the pull: files it leaves on disk, paths it wrote.              *)
writes(d, files, done, wrote) ==
    /\ disk' = [disk EXCEPT ![d] = files]
    /\ dirs' = [dirs EXCEPT ![d] = @ \cup holding(files)]
    /\ pull' = [pull EXCEPT ![d].moves = @ \ done.moves, ![d].files = @ \ done.files,
                            ![d].written = @ \cup wrote]
    /\ UNCHANGED <<base, head, result, fresh, made, dropped, shared, edits, runs, stops>>

(* Mutant: a file that appeared at the new path is not looked for.           *)
canRenameOver(d, m) == disk[d][m.from] # None

canRename(d, m) == disk[d][m.from] # None /\ disk[d][m.to] = None

PullMove(d, m) ==
    LET r == result[d]
        lands == IF m.side = "remote" THEN canRename(d, m)
                 ELSE r.head.files[m.from] # None /\ disk[d][m.to] = r.files[m.to]
        landed == IF m.side = "remote"
                  THEN [disk[d] EXCEPT ![m.to] = disk[d][m.from], ![m.from] = None]
                  ELSE [disk[d] EXCEPT ![m.to] = r.head.files[m.from]]
    IN  /\ pull[d] # None /\ m \in pull[d].moves
        /\ writes(d, IF lands THEN landed ELSE disk[d], [moves |-> {m}, files |-> {}],
                  IF lands THEN {m.from, m.to} ELSE {})

(* Moves first, then the rest, each only if unchanged since the comparison.  *)
PullFile(d, p) ==
    LET r == result[d]
        untouched == disk[d][p] = r.files[p]
    IN  /\ pull[d] # None /\ pull[d].moves = {} /\ p \in pull[d].files
        /\ writes(d, IF untouched THEN [disk[d] EXCEPT ![p] = r.head.files[p]] ELSE disk[d],
                  [moves |-> {}, files |-> {p}], IF untouched THEN {p} ELSE {})

(* The file a pull leaves at a path it wrote (written, localEntries).        *)
entryOf(r, p) ==
    CASE \E m \in r.moves : m.from = p -> None
      [] \E m \in r.moves : m.to = p ->
            LET m == CHOOSE n \in r.moves : n.to = p
            IN  IF m.side = "remote" THEN r.files[m.from] ELSE r.head.files[m.from]
      [] OTHER -> r.head.files[p]

(* Mutant: folders the pull emptied are left.                                *)
emptiedNone(d) == {}

emptied(d) ==
    LET r == result[d]
    IN  {dirOf[p] : p \in {q \in pull[d].written : entryOf(r, q) = None}}
        \ ({None} \cup r.head.dirs)

(* recomputeAfterWrite: the paths written are as the operation left them.    *)
Recomputed(d, next, paths) ==
    LET r == result[d]
    IN  Diffed(d, [files |-> [p \in Path |-> IF p \in paths /\ pull[d] # None
                                             THEN entryOf(r, p) ELSE r.files[p]],
                   head |-> next, base |-> base'[d].files, empty |-> r.empty])

(* syncFolders, and the baseline that is saved.                              *)
FinishPull(d) ==
    LET r == result[d]
        kept == dirs[d] \ (emptied(d) \ holding(disk[d]))
        added == {x \in r.head.dirs : x \notin base[d].dirs \/ x \in kept}
        removed == (base[d].dirs \ r.head.dirs) \ holding(disk[d])
    IN  /\ pull[d] # None /\ pull[d].moves = {} /\ pull[d].files = {}
        /\ dirs' = [dirs EXCEPT ![d] = (kept \cup added) \ removed]
        /\ made' = [made EXCEPT ![d] = @ \cup r.head.dirs]
        /\ base' = [base EXCEPT ![d] = advanced(d, r.head, pull[d].written, r.head.dirs)]
        /\ Recomputed(d, r.head, pull[d].written)
        /\ pull' = [pull EXCEPT ![d] = None]
        /\ UNCHANGED <<disk, head, fresh, dropped, shared, edits, runs, stops>>

(* Cancelled, what landed is saved and folders are left.                     *)
CancelPull(d) ==
    /\ pull[d] # None /\ "cancel" \in Stops
    /\ stops < MaxStops /\ stops' = stops + 1
    /\ base' = [base EXCEPT ![d] =
           advanced(d, result[d].head, pull[d].written, result[d].empty)]
    /\ Recomputed(d, result[d].head, pull[d].written)
    /\ pull' = [pull EXCEPT ![d] = None]
    /\ UNCHANGED <<disk, dirs, head, fresh, made, dropped, shared, edits, runs>>

Crash(d) ==
    /\ "crash" \in Stops /\ stops < MaxStops /\ stops' = stops + 1
    /\ result[d] # None
    /\ result' = [result EXCEPT ![d] = None] /\ pull' = [pull EXCEPT ![d] = None]
    /\ UNCHANGED <<disk, dirs, base, head, fresh, made, dropped, shared, edits, runs>>

-----------------------------------------------------------------------------
(* Pushing (pushPathsOp, publishFileMap).                                    *)

(* mergeFolderArrays: what is agreed stays while both have it.               *)
mergedDirs(d, r) ==
    {x \in r.head.dirs \cup r.empty :
        x \in base[d].dirs => x \in r.head.dirs /\ x \in r.empty}

(* A file whose content the head lacks is read, and must be as compared.     *)
Push(d) ==
    LET r == result[d]
    IN  /\ r # None /\ pull[d] = None /\ r.conflicts = {}
        /\ head = r.head
        /\ \E asked \in SUBSET r.local :
               LET paths == withMoves(asked, r.moves)
                   files == [p \in Path |-> IF p \in paths \cap r.local THEN r.files[p]
                                            ELSE head.files[p]]
                   next == [files |-> files, dirs |-> mergedDirs(d, r)]
                   moved == {m.from : m \in r.moves}
                   losing == {p \in paths \ moved : 
                                 /\ head.files[p] # None
                                 /\ \/ files[p] = None
                                    \/ files[p][1] # head.files[p][1]}
               IN  /\ next # head
                   /\ paths \cap r.remote = {}
                   /\ \A p \in paths : \/ files[p] \in Range(head.files) \cup {None}
                                       \/ disk[d][p] = files[p]
                   /\ head' = next
                   /\ base' = [base EXCEPT ![d] = advanced(d, next, paths, r.empty)]
                   /\ Recomputed(d, next, paths)
                   /\ fresh' = [fresh EXCEPT ![d] = @ \ Range(files)]
                   /\ shared' = shared \cup Notes(files)
                   /\ dropped' = dropped \cup {head.files[p][1] : p \in losing}
        /\ UNCHANGED <<disk, dirs, pull, made, edits, runs, stops>>

YNext ==
    \E d \in Device :
       \/ \E p \in Path : Edit(d, p) \/ Create(d, p) \/ Delete(d, p) \/ PullFile(d, p)
       \/ \E p, q \in Path : Rename(d, p, q)
       \/ \E dir \in Dir : RemoveDir(d, dir)
       \/ \E m \in UNION {pull[e].moves : e \in {f \in Device : pull[f] # None}} : PullMove(d, m)
       \/ Compare(d) \/ BeginPull(d) \/ FinishPull(d) \/ CancelPull(d) \/ Crash(d) \/ Push(d)

-----------------------------------------------------------------------------
(* No file is in two moves.                                                  *)
MovesAreApart ==
    \A d \in Device : result[d] # None =>
        \A m, n \in result[d].moves :
            m # n => {m.from, m.to} \cap {n.from, n.to} = {}

(* A note nobody deleted never leaves the shared vault, wherever it is moved.*)
NotesStay == shared \ dropped \subseteq Notes(head.files) \cup {0}

(* What a user wrote and no manifest had yet stays on the user's disk.       *)
UnpublishedStays == \A d \in Device : fresh[d] \subseteq Range(disk[d])

(* A device publishes a folder only where its user made or emptied one, as   *)
(* long as no pull was stopped: one that was leaves folders it emptied.      *)
FoldersComeFromUsers ==
    stops > 0 \/ \A d \in Device : result[d] # None =>
        mergedDirs(d, result[d]) \ result[d].head.dirs \subseteq made[d]

TreeSafe == MovesAreApart /\ NotesStay /\ UnpublishedStays /\ FoldersComeFromUsers
=============================================================================
