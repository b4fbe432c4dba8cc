------------------------------ MODULE VaultScan ------------------------------
(* One device's scans of its vault (vault/scanner.ts, scope.ts, ignore.ts,   *)
(* symlinks.ts, file-index.ts) and what the diff makes of a path a scan did  *)
(* not see (sync/diff.ts).  The app's index may lag the disk, a hidden       *)
(* folder is only listed, listings, stats and reads fail, files change while *)
(* a scan runs, and a folder may be a link or a share of its own.            *)
(*                                                                           *)
(* A content is the number of the edit that wrote it, and so is its mtime;   *)
(* 0 stands for a stat not taken.                                            *)
EXTENDS Naturals, FiniteSets

CONSTANTS
    File, Folder,
    home,          \* the folder each file lies in
    Config,        \* the folder the index hides
    Shared,        \* the folder that may be a share
    Copied,        \* files that may have been copied in from outside the app
    Rules,         \* sets of files the ignore note may name
    None,
    Races,         \* "tick": two writes of a file get one mtime
    MaxEdits, MaxChanges, MaxFaults, MaxScans

VARIABLES
    disk, index,   \* each file's mtime and text, on disk and as the app knows it
    aged,          \* whether the last write is older than RACY_INDEX_WINDOW_MS
    note,          \* the ignore note's stamp and rules, and the stamp the app knows
    memo,          \* createScopeMatchers' memo: stamp and rules
    mounted,       \* whether Shared is a share
    links,         \* folders that are links
    base,          \* each space's agreed texts
    cache,         \* hashCache
    found,         \* each space's unindexed files, from its last scan
    scan,          \* the scan running
    gone,          \* files absent at some time since it began
    edits, changes, faults, scans
kvars == <<disk, index, aged, note, memo, mounted, links, base, cache, found,
           scan, gone, edits, changes, faults, scans>>
onDisk == <<disk, index, aged, note, mounted, links, edits, changes>>

Space == {"vault", "share"}
NoScan == [at |-> "idle", space |-> "vault", walk |-> FALSE, rules |-> {}, links |-> {},
           due |-> None, todo |-> [f \in File |-> None], reading |-> [f \in File |-> None],
           files |-> [f \in File |-> None], skipped |-> {}, unreadable |-> {},
           unindexed |-> {}, missed |-> {}, oldest |-> [f \in File |-> 0]]

(* All is synced, but for a file copied in that the app has not seen.        *)
KInit ==
    \E copied \in SUBSET Copied : \E agreed \in SUBSET copied :
        LET synced == (File \ copied) \cup agreed
        IN  /\ mounted \in BOOLEAN
            /\ disk = [f \in File |-> [mtime |-> 1, text |-> 1]]
            /\ index = [f \in File |->
                           IF home[f] = Config \/ f \in copied THEN None ELSE disk[f]]
            /\ base = [s \in Space |-> [f \in File |->
                          IF f \in synced /\ (s = "vault" \/ (mounted /\ home[f] = Shared))
                          THEN 1 ELSE None]]
            /\ cache = [f \in File |-> IF f \in synced THEN disk[f] ELSE None]
    /\ aged = TRUE
    /\ note = [stamp |-> None, rules |-> {}, known |-> None]
    /\ memo = None
    /\ links = {}
    /\ found = [s \in Space |-> {}]
    /\ scan = NoScan
    /\ gone = {}
    /\ edits = 1 /\ changes = 0 /\ faults = 0 /\ scans = 0

-----------------------------------------------------------------------------
(* The vault outside the scan.                                               *)

Write(f) ==
    /\ edits < MaxEdits /\ edits' = edits + 1
    /\ \E mtime \in {edits + 1} \cup
                    (IF "tick" \in Races /\ ~aged /\ disk[f] # None THEN {disk[f].mtime} ELSE {}) :
           disk' = [disk EXCEPT ![f] = [mtime |-> mtime, text |-> edits + 1]]
    /\ aged' = FALSE
    /\ UNCHANGED <<index, note, memo, mounted, links, base, cache, found, scan, gone,
                   changes, faults, scans>>

Delete(f) ==
    /\ edits < MaxEdits /\ edits' = edits + 1
    /\ disk[f] # None /\ disk' = [disk EXCEPT ![f] = None]
    /\ gone' = IF scan.at = "idle" THEN {} ELSE gone \cup {f}
    /\ UNCHANGED <<index, aged, note, memo, mounted, links, base, cache, found, scan,
                   changes, faults, scans>>

Age ==
    /\ ~aged /\ aged' = TRUE
    /\ UNCHANGED <<disk, index, note, memo, mounted, links, base, cache, found, scan, gone,
                   edits, changes, faults, scans>>

IndexLearns(f) ==
    /\ home[f] # Config /\ index[f] # disk[f]
    /\ index' = [index EXCEPT ![f] = disk[f]]
    /\ UNCHANGED <<disk, aged, note, memo, mounted, links, base, cache, found, scan, gone,
                   edits, changes, faults, scans>>

(* Rules, links and shares matter to a scan only as it begins: they change    *)
(* between scans.                                                            *)
EditRules ==
    /\ scan.at = "idle" /\ changes < MaxChanges /\ changes' = changes + 1
    /\ \E rules \in Rules :
           note' = [note EXCEPT !.stamp = changes + 1, !.rules = rules]
    /\ UNCHANGED <<disk, index, aged, memo, mounted, links, base, cache, found, scan, gone,
                   edits, faults, scans>>

NoteLearnt ==
    /\ scan.at = "idle" /\ note.known # note.stamp
    /\ note' = [note EXCEPT !.known = note.stamp]
    /\ UNCHANGED <<disk, index, aged, memo, mounted, links, base, cache, found, scan, gone,
                   edits, changes, faults, scans>>

(* The folder is moved elsewhere and linked: its files are still reached.    *)
Link(folder) ==
    /\ scan.at = "idle" /\ changes < MaxChanges /\ changes' = changes + 1
    /\ folder # Config /\ folder \notin links /\ links' = links \cup {folder}
    /\ UNCHANGED <<disk, index, aged, note, memo, mounted, base, cache, found, scan, gone,
                   edits, faults, scans>>

Mount ==
    /\ scan.at = "idle" /\ changes < MaxChanges /\ changes' = changes + 1
    /\ ~mounted /\ mounted' = TRUE
    /\ UNCHANGED <<disk, index, aged, note, memo, links, base, cache, found, scan, gone,
                   edits, faults, scans>>

-----------------------------------------------------------------------------
(* The scope of a session (createScopePolicy).                               *)

(* Mutant: what lies behind a link is in scope, only never listed.           *)
allowsLinked(s, f) == TRUE

allows(s, f) == home[f] \notin s.links

(* Mutant: the vault owns the folders of its shares too.                     *)
ownsAll(space, f) == space = "share" => mounted /\ home[f] = Shared

owns(space, f) == (space = "share") = (mounted /\ home[f] = Shared)

includes(s, f) == owns(s.space, f) /\ allows(s, f) /\ f \notin s.rules

canDescend(s, folder) ==
    /\ folder \notin s.links
    /\ IF s.space = "share" THEN folder = Shared ELSE ~(mounted /\ folder = Shared)

listable(s, f) == canDescend(s, home[f]) /\ includes(s, f)

(* Mutant: an absent note is memoised too.                                   *)
memoisedAlways(stamp) == TRUE

memoised(stamp) == stamp # None

(* createScopeMatchers: rules are read again when the app's stamp of the note*)
(* is another.  due is what they should be, when the app's stamp is right.   *)
Begin(space, walk) ==
    LET hit == memo # None /\ memo.stamp = note.known
        rules == IF hit THEN memo.rules ELSE note.rules
        s == [NoScan EXCEPT
                 !.at = "collects", !.space = space, !.walk = walk, !.links = links,
                 !.rules = IF space = "vault" THEN rules ELSE {},
                 !.due = IF space = "vault" /\ note.known \in {None, note.stamp}
                         THEN note.rules ELSE None]
        known == {f \in File : home[f] # Config /\ listable(s, f) /\ index[f] # None}
    IN  /\ scan.at = "idle" /\ scans < MaxScans /\ scans' = scans + 1
        /\ space = "share" => mounted
        /\ scan' = [s EXCEPT
               !.todo = [f \in File |-> IF f \in known THEN index[f].mtime ELSE None],
               !.oldest = [f \in File |-> IF index[f] # None THEN index[f].text
                                          ELSE IF disk[f] # None THEN disk[f].text ELSE 0]]
        /\ gone' = {f \in File : disk[f] = None}
        /\ memo' = IF space = "share" \/ hit THEN memo
                   ELSE IF memoised(note.known) THEN [stamp |-> note.known, rules |-> rules]
                   ELSE None
        /\ UNCHANGED <<disk, index, aged, note, mounted, links, base, cache, found,
                       edits, changes, faults>>

(* Mutant: what the index lost is looked for only when the disk is listed.   *)
expectedOnWalk(s, f) == s.walk /\ base[s.space][f] # None

expected(s, f) == base[s.space][f] # None

(* collectFromIndex after the index: agreed paths it does not name, what the *)
(* disk lists or an earlier walk found, and the hidden folder.               *)
Collect(failed) ==
    LET more == {f \in File : /\ home[f] # Config /\ listable(scan, f) /\ scan.todo[f] = None}
        listed == IF scan.walk THEN {f \in File : disk[f] # None /\ home[f] \notin failed}
                  ELSE UNION {found[s] : s \in Space}
        hidden == IF scan.space = "vault" /\ Config \notin failed
                  THEN {f \in File : home[f] = Config /\ disk[f] # None /\ listable(scan, f)}
                  ELSE {}
        bare == {f \in more : expected(scan, f) \/ f \in listed} \cup hidden
    IN  /\ scan.at = "collects"
        /\ failed # {} => faults < MaxFaults /\ (scan.walk \/ failed = {Config})
        /\ faults' = IF failed = {} THEN faults ELSE faults + 1
        /\ scan' = [scan EXCEPT
               !.at = "reads",
               !.unindexed = more \cap listed,
               !.missed = IF scan.walk THEN failed ELSE {},
               !.unreadable = IF scan.space = "vault" THEN failed \cap {Config} ELSE {},
               !.todo = [f \in File |-> IF f \in bare THEN 0 ELSE @[f]]]
        /\ UNCHANGED <<disk, index, aged, note, memo, mounted, links, base, cache, found,
                       gone, edits, changes, scans>>

-----------------------------------------------------------------------------
(* The files one by one, several at a time (scanVault's worker).             *)

(* Mutant: a cached size is enough.                                          *)
hitsAny(f, mtime) == mtime # 0 /\ cache[f] # None

isRacy(mtime) == ~aged /\ mtime = edits

isCacheHit(f, mtime) ==
    mtime # 0 /\ cache[f] # None /\ cache[f].mtime = mtime /\ ~isRacy(mtime)

(* Mutant: a stat that finds no file drops the path.                         *)
absentDropped(f, indexed) == scan.skipped

absent(f, indexed) == IF indexed THEN scan.skipped \cup {f} ELSE scan.skipped

Reuse(f) ==
    /\ scan.at = "reads" /\ scan.todo[f] # None /\ isCacheHit(f, scan.todo[f])
    /\ scan' = [scan EXCEPT !.todo[f] = None, !.files[f] = cache[f]]
    /\ UNCHANGED <<memo, base, cache, found, gone, faults, scans, onDisk>>

(* The stat may miss a file that is there, or throw.                         *)
Stat(f) ==
    /\ scan.at = "reads" /\ scan.todo[f] # None /\ ~isCacheHit(f, scan.todo[f])
    /\ UNCHANGED <<memo, base, cache, found, gone, scans, onDisk>>
    /\ \/ /\ disk[f] # None /\ UNCHANGED faults
          /\ scan' = IF isCacheHit(f, disk[f].mtime)
                     THEN [scan EXCEPT !.todo[f] = None, !.files[f] = cache[f]]
                     ELSE [scan EXCEPT !.todo[f] = None, !.reading[f] = disk[f].mtime]
       \/ /\ disk[f] = None /\ UNCHANGED faults
          /\ scan' = [scan EXCEPT !.todo[f] = None,
                                  !.skipped = absent(f, scan.todo[f] # 0)]
       \/ /\ disk[f] # None /\ scan.todo[f] # 0
          /\ faults < MaxFaults /\ faults' = faults + 1
          /\ scan' = [scan EXCEPT !.todo[f] = None, !.skipped = absent(f, TRUE)]
       \/ /\ faults < MaxFaults /\ faults' = faults + 1
          /\ scan' = [scan EXCEPT !.todo[f] = None, !.skipped = @ \cup {f}]

(* buildEntry: the bytes are read after the stat.                            *)
Read(f) ==
    /\ scan.at = "reads" /\ scan.reading[f] # None
    /\ UNCHANGED <<memo, base, cache, found, gone, scans, onDisk>>
    /\ \/ /\ disk[f] # None /\ UNCHANGED faults
          /\ scan' = [scan EXCEPT !.reading[f] = None,
                          !.files[f] = [mtime |-> scan.reading[f], text |-> disk[f].text]]
       \/ /\ scan' = [scan EXCEPT !.reading[f] = None, !.skipped = @ \cup {f}]
          /\ IF disk[f] = None THEN UNCHANGED faults
             ELSE faults < MaxFaults /\ faults' = faults + 1

allRead == /\ scan.at = "reads"
           /\ \A f \in File : scan.todo[f] = None /\ scan.reading[f] = None

held(s) == {f \in File : s.files[f] # None} \cup s.skipped

(* assertSpacePresent: a share that lost every agreed file is gone, and its  *)
(* scan is dropped.                                                          *)
isGone(s) ==
    LET agreed == {f \in File : base[s.space][f] # None}
    IN  s.space = "share" /\ agreed # {} /\ agreed \cap held(s) = {}

carried(s, f) == ~owns(s.space, f) \/ home[f] \in s.unreadable

(* The end of scanVault, and the results the runner keeps.                   *)
End ==
    /\ allRead
    /\ IF isGone(scan) THEN scan' = NoScan /\ gone' = {} /\ UNCHANGED <<cache, found>>
       ELSE /\ scan' = [scan EXCEPT !.at = "ended"] /\ UNCHANGED gone
            /\ cache' = [f \in File |-> IF scan.files[f] # None THEN scan.files[f]
                                        ELSE IF carried(scan, f) THEN cache[f] ELSE None]
            /\ found' = [found EXCEPT ![scan.space] = scan.unindexed \cap held(scan)]
    /\ UNCHANGED <<memo, base, faults, scans, onDisk>>

-----------------------------------------------------------------------------
(* diff: what is neither held nor unreadable is deleted here.                *)
deletes(s) ==
    {f \in File : /\ base[s.space][f] # None /\ includes(s, f)
                  /\ f \notin held(s) /\ home[f] \notin s.unreadable}

(* The snapshot is synced, and its space agrees on it, or it is not.         *)
Agree ==
    /\ scan.at = "ended" /\ scan' = NoScan
    /\ base' = [base EXCEPT ![scan.space] = [f \in File |->
           IF f \in deletes(scan) THEN None
           ELSE IF scan.files[f] # None THEN scan.files[f].text ELSE @[f]]]
    /\ gone' = {}
    /\ UNCHANGED <<memo, cache, found, faults, scans, onDisk>>

LeaveIt ==
    /\ scan.at = "ended" /\ scan' = NoScan /\ gone' = {}
    /\ UNCHANGED <<memo, base, cache, found, faults, scans, onDisk>>

KNext ==
    \/ \E f \in File :
          \/ Write(f) \/ Delete(f) \/ IndexLearns(f)
          \/ Reuse(f) \/ Stat(f) \/ Read(f)
    \/ \E folder \in Folder : Link(folder)
    \/ \E space \in Space, walk \in BOOLEAN : Begin(space, walk)
    \/ \E failed \in {{}} \cup {{folder} : folder \in Folder} : Collect(failed)
    \/ Age \/ EditRules \/ NoteLearnt \/ Mount \/ End \/ Agree \/ LeaveIt

-----------------------------------------------------------------------------
(* A deletion is published only of a file that was absent while the scan ran:*)
(* a lagging index, a failing call, a link, a rule or a new share makes none.*)
DeletesOnlyAbsent == scan.at = "ended" => deletes(scan) \subseteq gone

(* A scan holds no content older than the one the app's index knew.          *)
EntriesAreRecent ==
    scan.at = "ended" => \A f \in File :
        scan.files[f] # None => scan.files[f].text >= scan.oldest[f]

(* Once the app's index has the note, a scan follows the note's rules.       *)
FollowsTheNote ==
    scan.at # "idle" /\ scan.due # None => scan.rules = scan.due

(* What a walk found and no index names stays in view until it is deleted,   *)
(* but for a later walk that cannot list its folder.                         *)
KeepsInView ==
    allRead => \A f \in found[scan.space] \ gone :
        listable(scan, f) /\ home[f] \notin scan.missed => f \in held(scan)

ScanSafe ==
    DeletesOnlyAbsent /\ EntriesAreRecent /\ FollowsTheNote /\ KeepsInView
=============================================================================
