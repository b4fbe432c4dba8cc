----------------------------- MODULE StateFile -----------------------------
(* The plugin's own state on disk: what may wait and what must be written at *)
(* once (core/state-persister.ts), the file replaced through a .new and a    *)
(* .bak (vault/atomic-write.ts), and the load that takes whichever of the    *)
(* three it can read (sync/state.ts), over crashes, failing calls and a      *)
(* plugin unloaded and loaded again while its last write is still running.   *)
EXTENDS Naturals, Sequences

CONSTANTS
    Instance,     \* the plugin's lives, 1..n, each loaded after the one before
    None, Torn,   \* no file; a file cut off in the middle of its write
    MaxPersists, MaxCrashes, MaxFails,
    Overlapping   \* among {"unload", "reset"}: what a write may overlap

VARIABLES
    file,         \* "path", "new" and "bak" -> a state, Torn or None
    life,         \* per instance: "off", "loading", "on", "disposed"
    current,      \* per instance, the state in memory
    pending,      \* per instance, the state the timer will write, or None
    memo,         \* per instance, the state last written, or None
    queue,        \* per instance, the writes waiting their turn
    job,          \* per instance, the write that runs
    version,      \* the states made so far
    acked,        \* the newest state a caller was told is on disk
    persists, crashes, fails
fvars == <<file, life, current, pending, memo, queue, job, version, acked,
           persists, crashes, fails>>
counts == <<persists, crashes, fails>>

(* A state by what the persister tells apart: `slots` is the version of the  *)
(* baselines, names and ids it never delays, `cache` that of the hash cache  *)
(* (0 for an empty one).                                                     *)
Empty == [slots |-> 0, cache |-> 0]
Rest == [at |-> "rest", state |-> Empty, reset |-> FALSE, parked |-> FALSE, probe |-> 0]

FInit ==
    /\ file = [f \in {"path", "new", "bak"} |-> None]
    /\ life = [i \in Instance |-> "off"]
    /\ current = [i \in Instance |-> Empty]
    /\ pending = [i \in Instance |-> None]
    /\ memo = [i \in Instance |-> None]
    /\ queue = [i \in Instance |-> <<>>]
    /\ job = [i \in Instance |-> Rest]
    /\ version = 0 /\ acked = 0
    /\ persists = 0 /\ crashes = 0 /\ fails = 0

readable(f) == file[f] \notin {None, Torn}
enqueue(i, write) == queue' = [queue EXCEPT ![i] = Append(@, write)]
doing(i, at) == job' = [job EXCEPT ![i].at = at]

-----------------------------------------------------------------------------
(* Loading (loadState, StatePersister.load): one candidate after the other,  *)
(* each an await; what was read is written back unless it came from `path`.  *)
candidates == <<"path", "new", "bak">>

StartLoad(i) ==
    /\ life[i] = "off"
    /\ \A j \in Instance : /\ j < i => life[j] = "disposed"
                           /\ "unload" \notin Overlapping => job[j] = Rest /\ queue[j] = <<>>
    /\ life' = [life EXCEPT ![i] = "loading"]
    /\ job' = [job EXCEPT ![i].at = "probe", ![i].probe = 1]
    /\ UNCHANGED <<file, current, pending, memo, queue, version, acked, counts>>

Probe(i) ==
    LET n == job[i].probe
        f == candidates[n]
        state == IF readable(f) THEN file[f] ELSE Empty
    IN  /\ job[i].at = "probe"
        /\ IF readable(f) \/ n = Len(candidates)
           THEN /\ current' = [current EXCEPT ![i] = state]
                /\ memo' = [memo EXCEPT ![i] = IF readable(f) /\ n = 1 THEN state ELSE None]
                /\ enqueue(i, [state |-> state, reset |-> FALSE])
                /\ life' = [life EXCEPT ![i] = "on"]
                /\ job' = [job EXCEPT ![i] = Rest]
           ELSE /\ job' = [job EXCEPT ![i].probe = n + 1]
                /\ UNCHANGED <<life, current, memo, queue>>
        /\ UNCHANGED <<file, pending, version, acked, counts>>

-----------------------------------------------------------------------------
(* Asking for a write.                                                       *)

resetting(i) == job[i].reset \/ \E n \in DOMAIN queue[i] : queue[i][n].reset

(* Mutant: a moved baseline waits for the timer like the hash cache.         *)
debounceAll(prev, next) == ~(prev.cache = 0 /\ next.cache # 0)

(* The first hash cache, and anything but the cache, never waits.            *)
canDebounce(prev, next) == prev.slots = next.slots /\ ~(prev.cache = 0 /\ next.cache # 0)

Persist(i) ==
    /\ life[i] = "on" /\ persists < MaxPersists /\ persists' = persists + 1
    /\ resetting(i) => "reset" \in Overlapping
    /\ version' = version + 1
    /\ \E next \in {[current[i] EXCEPT !.slots = version + 1], [current[i] EXCEPT !.cache = version + 1]} :
          /\ current' = [current EXCEPT ![i] = next]
          /\ IF canDebounce(current[i], next)
             THEN pending' = [pending EXCEPT ![i] = next] /\ UNCHANGED queue
             ELSE /\ pending' = [pending EXCEPT ![i] = None]
                  /\ enqueue(i, [state |-> next, reset |-> FALSE])
    /\ UNCHANGED <<file, life, memo, job, acked, crashes, fails>>

(* The timer, or a flush before the app sleeps.                              *)
FlushPending(i) ==
    /\ life[i] = "on" /\ pending[i] # None
    /\ enqueue(i, [state |-> pending[i], reset |-> FALSE])
    /\ pending' = [pending EXCEPT ![i] = None]
    /\ UNCHANGED <<file, life, current, memo, job, version, acked, counts>>

(* A reset takes its turn in the chain; its state is a new, emptied one.     *)
Reset(i) ==
    /\ life[i] = "on" /\ persists < MaxPersists /\ persists' = persists + 1
    /\ pending' = [pending EXCEPT ![i] = None]
    /\ memo' = [memo EXCEPT ![i] = None]
    /\ enqueue(i, [state |-> Empty, reset |-> TRUE])
    /\ UNCHANGED <<file, life, current, job, version, acked, crashes, fails>>

(* Unloaded: what was pending is written after all, nobody waits for it.     *)
Dispose(i) ==
    /\ life[i] = "on"
    /\ life' = [life EXCEPT ![i] = "disposed"]
    /\ IF pending[i] = None THEN UNCHANGED <<queue, pending>>
       ELSE /\ enqueue(i, [state |-> pending[i], reset |-> FALSE])
            /\ pending' = [pending EXCEPT ![i] = None]
    /\ UNCHANGED <<file, current, memo, job, version, acked, counts>>

-----------------------------------------------------------------------------
(* One write (StatePersister.write, writeAtomic), one await a step.          *)

StartWrite(i) ==
    /\ job[i].at = "rest" /\ queue[i] # <<>> /\ life[i] # "loading"
    /\ LET next == Head(queue[i])
           state == IF next.reset THEN [slots |-> version + 1, cache |-> 0] ELSE next.state
       IN  IF ~next.reset /\ state = memo[i]
           THEN acked' = (IF state.slots > acked THEN state.slots ELSE acked)
                /\ UNCHANGED <<memo, job, version>>
           ELSE /\ job' = [job EXCEPT ![i] =
                      [at |-> "clearNew", state |-> state, reset |-> next.reset,
                       parked |-> FALSE, probe |-> 0]]
                /\ memo' = [memo EXCEPT ![i] = None]
                /\ version' = IF next.reset THEN version + 1 ELSE version
                /\ UNCHANGED acked
    /\ queue' = [queue EXCEPT ![i] = Tail(@)]
    /\ UNCHANGED <<file, life, current, pending, counts>>

put(f, content) == file' = [file EXCEPT ![f] = content]
(* The adapter refuses to rename onto a file, or a file that is not there.   *)
renames(from, dest) == file[from] # None /\ file[dest] = None
rename(from, dest) == file' = [file EXCEPT ![from] = None, ![dest] = file[from]]

ClearNew(i) ==
    /\ job[i].at = "clearNew"
    /\ put("new", None) /\ doing(i, "writeNew")
    /\ UNCHANGED <<life, current, pending, memo, queue, version, acked, counts>>

WriteNew(i) ==
    /\ job[i].at \in {"writeNew", "finishNew"}
    /\ IF job[i].at = "writeNew" THEN put("new", Torn) /\ doing(i, "finishNew")
       ELSE put("new", job[i].state) /\ doing(i, "clearBak")
    /\ UNCHANGED <<life, current, pending, memo, queue, version, acked, counts>>

clearsBak == file["path"] # None

ClearBak(i) ==
    /\ job[i].at = "clearBak"
    /\ IF clearsBak THEN put("bak", None) /\ doing(i, "park")
       ELSE doing(i, "swap") /\ UNCHANGED file
    /\ UNCHANGED <<life, current, pending, memo, queue, version, acked, counts>>

Park(i) ==
    /\ job[i].at = "park" /\ renames("path", "bak")
    /\ rename("path", "bak")
    /\ job' = [job EXCEPT ![i].at = "swap", ![i].parked = TRUE]
    /\ UNCHANGED <<life, current, pending, memo, queue, version, acked, counts>>

Swap(i) ==
    /\ job[i].at = "swap" /\ renames("new", "path")
    /\ rename("new", "path") /\ doing(i, "dropBak")
    /\ UNCHANGED <<life, current, pending, memo, queue, version, acked, counts>>

(* The caller is told; a reset's state becomes the one in memory.            *)
DropBak(i) ==
    LET state == job[i].state
    IN  /\ job[i].at = "dropBak"
        /\ put("bak", None)
        /\ memo' = [memo EXCEPT ![i] = state]
        /\ current' = IF job[i].reset THEN [current EXCEPT ![i] = state] ELSE current
        /\ acked' = IF state.slots > acked THEN state.slots ELSE acked
        /\ job' = [job EXCEPT ![i] = Rest]
        /\ UNCHANGED <<life, pending, queue, version, counts>>

(* A call of the adapter fails: the write is given up, after moving back what*)
(* it had moved aside; the caller hears of it.                               *)
writing(i) == job[i].at \in {"clearNew", "writeNew", "finishNew", "clearBak", "park", "swap", "dropBak"}
refusedRename(i) ==
    \/ job[i].at = "park" /\ ~renames("path", "bak")
    \/ job[i].at = "swap" /\ ~renames("new", "path")

FailWrite(i) ==
    /\ writing(i)
    /\ IF refusedRename(i) THEN UNCHANGED fails ELSE fails < MaxFails /\ fails' = fails + 1
    /\ IF job[i].at = "swap" /\ job[i].parked /\ renames("bak", "path")
       THEN rename("bak", "path") ELSE UNCHANGED file
    /\ job' = [job EXCEPT ![i] = Rest]
    /\ UNCHANGED <<life, current, pending, memo, queue, version, acked, persists, crashes>>

(* The app dies; the plugin's next life starts from the disk.                *)
Die ==
    /\ crashes < MaxCrashes /\ crashes' = crashes + 1
    /\ \E i \in Instance : life[i] \in {"loading", "on"}
    /\ life' = [i \in Instance |-> IF life[i] = "off" THEN "off" ELSE "disposed"]
    /\ job' = [i \in Instance |-> Rest]
    /\ queue' = [i \in Instance |-> <<>>]
    /\ pending' = [i \in Instance |-> None]
    /\ UNCHANGED <<file, current, memo, version, acked, persists, fails>>

FNext ==
    \/ \E i \in Instance :
          \/ StartLoad(i) \/ Probe(i) \/ Persist(i) \/ FlushPending(i)
          \/ Reset(i) \/ Dispose(i) \/ StartWrite(i) \/ ClearNew(i) \/ WriteNew(i)
          \/ ClearBak(i) \/ Park(i) \/ Swap(i) \/ DropBak(i) \/ FailWrite(i)
    \/ Die

-----------------------------------------------------------------------------
(* Properties.                                                               *)

(* What a load would take, were the app to die now.                          *)
loadable ==
    LET found == {n \in DOMAIN candidates : readable(candidates[n])}
    IN  IF found = {} THEN Empty
        ELSE file[candidates[CHOOSE n \in found : \A m \in found : n <= m]]

(* Die when it may, the app finds a state no older than the last one a       *)
(* caller was told is saved: no baseline it has acted on is forgotten, and no*)
(* reset is undone (atomic-write.ts: "so it is never missing").              *)
SavedSurvives == loadable.slots >= acked

(* Once nothing is left to write the disk holds what the memory holds, but   *)
(* for the hash cache and what a failed write left for the next one.         *)
QuietDiskIsMemory ==
    \A i \in Instance :
        (life[i] = "on" /\ queue[i] = <<>> /\ job[i] = Rest /\ fails = 0)
            => loadable.slots = current[i].slots
=============================================================================
