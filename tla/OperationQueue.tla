--------------------------- MODULE OperationQueue ---------------------------
(* One device's turn-taking (sync/controller.ts and sync/runtime/): refresh  *)
(* requests that join the one that waits, the chain that runs one task at a  *)
(* time, the refresh cycle with its automatic merge, pull and push of each   *)
(* space, and the epoch that drops what a change of scope made stale.        *)
(* What a push or a pull does to files is VaultSync's; here a space is a     *)
(* version on the disk, one on its storage and the one both agreed on.       *)
EXTENDS Naturals, Sequences

CONSTANTS
    Vault, Share,       \* the two spaces
    None,
    MaxRequests, MaxOps, MaxEdits, MaxRemote, MaxInvalidations, MaxFails,
    MaxEvents           \* all of these together

VARIABLES
    disk, base,         \* per space: its content here, and as last agreed on
    head,               \* per space: the storage's content and its number
    content,            \* the contents made so far
    epoch,              \* the version of the scope in force, bumped by a change
    revision,           \* bumped by every vault event
    result,             \* per space, the last comparison kept, or None
    error, spaceErrors, stale,
    walkDisk,           \* the next full refresh lists the disk too
    pending,            \* the refresh request that waits, or None
    queue,              \* the tasks in the chain
    job,                \* the task that runs
    used                \* requests, ops, edits, remote, invalidations, fails
ovars == <<disk, base, head, content, epoch, revision, result, error,
           spaceErrors, stale, walkDisk, pending, queue, job, used>>
files == <<disk, base, head, content>>
status == <<result, error, spaceErrors, stale>>

Spaces == <<Vault, Share>>
Space == {Vault, Share}
Steps == <<<<Vault, "merge">>, <<Vault, "pull">>, <<Vault, "push">>,
           <<Share, "merge">>, <<Share, "pull">>, <<Share, "push">>>>
Rest == [at |-> "rest"]

OInit ==
    /\ disk = [s \in Space |-> 0] /\ base = [s \in Space |-> 0]
    /\ head = [s \in Space |-> [n |-> 0, content |-> 0]]
    /\ content = 0
    /\ epoch = 0 /\ revision = 0
    /\ result = [s \in Space |-> None]
    /\ error = FALSE /\ spaceErrors = {} /\ stale = FALSE
    /\ walkDisk = TRUE
    /\ pending = None /\ queue = <<>> /\ job = Rest
    /\ used = [requests |-> 0, ops |-> 0, edits |-> 0, remote |-> 0,
               invalidations |-> 0, fails |-> 0]

spent == used.requests + used.ops + used.edits + used.remote + used.invalidations + used.fails
spend(what, max) ==
    /\ used[what] < max /\ spent < MaxEvents
    /\ used' = [used EXCEPT ![what] = @ + 1]

-----------------------------------------------------------------------------
(* A comparison and what it finds.                                           *)

compared(s) == [disk |-> disk[s], head |-> head[s], base |-> base[s], scope |-> epoch]
conflicts(r) == r.disk # r.base /\ r.head.content # r.base /\ r.disk # r.head.content
remoteChanges(r) == r.head.content # r.base /\ r.disk = r.base
localChanges(r) == r.disk # r.base /\ r.head.content = r.base
(* Both sides reached one content: it becomes the baseline.                  *)
advanced(r) == IF r.disk = r.head.content THEN r.disk ELSE r.base

(* Mutant: work begun before a change of scope publishes its results.        *)
neverInvalidated(e) == FALSE

invalidatedSince(e) == epoch # e

-----------------------------------------------------------------------------
(* Asking (RefreshQueue.request): a request joins the one that waits. `asked`*)
(* remembers, per caller, what the storage held and whether it wants a walk. *)

asker(spaces, walk) == [spaces |-> spaces, heads |-> [s \in Space |-> head[s].n], walk |-> walk]

joined(spaces) == pending.spaces \cup spaces

Request(spaces, pull, push, walk) ==
    /\ spend("requests", MaxRequests)
    /\ pending' =
          IF pending = None
          THEN [spaces |-> spaces, pull |-> pull, push |-> push, asked |-> {asker(spaces, walk)}]
          ELSE [spaces |-> joined(spaces), pull |-> pending.pull \/ pull,
                push |-> pending.push \/ push, asked |-> pending.asked \cup {asker(spaces, walk)}]
    /\ queue' = IF pending = None THEN Append(queue, [kind |-> "cycle"]) ELSE queue
    /\ walkDisk' = (walkDisk \/ walk)
    /\ UNCHANGED <<files, epoch, revision, status, job>>

(* The person's Refresh, a timer, a relay signal for the share, a settled    *)
(* edit.                                                                     *)
AskRefresh ==
    \/ Request(Space, FALSE, FALSE, TRUE)
    \/ Request(Space, TRUE, TRUE, FALSE)
    \/ Request({Share}, TRUE, FALSE, FALSE)
    \/ Request(Space, FALSE, TRUE, FALSE)

(* A push or a pull of one space asked by hand.                              *)
AskOperation ==
    /\ spend("ops", MaxOps)
    /\ \E s \in Space, does \in {"pull", "push"} :
          queue' = Append(queue, [kind |-> "op", space |-> s, does |-> does])
    /\ UNCHANGED <<files, epoch, revision, status, walkDisk, pending, job>>

-----------------------------------------------------------------------------
(* The world around.                                                         *)

Edit(s) ==
    /\ spend("edits", MaxEdits)
    /\ disk' = [disk EXCEPT ![s] = content + 1]
    /\ content' = content + 1 /\ revision' = revision + 1
    /\ UNCHANGED <<base, head, epoch, status, walkDisk, pending, queue, job>>

RemoteEdit(s) ==
    /\ spend("remote", MaxRemote)
    /\ head' = [head EXCEPT ![s] = [n |-> head[s].n + 1, content |-> content + 1]]
    /\ content' = content + 1
    /\ UNCHANGED <<disk, base, epoch, revision, status, walkDisk, pending, queue, job>>

(* A change of the sync scope, settings imported, local state reset.         *)
Invalidate ==
    /\ spend("invalidations", MaxInvalidations)
    /\ epoch' = epoch + 1
    /\ result' = [s \in Space |-> None]
    /\ error' = FALSE /\ spaceErrors' = {} /\ stale' = TRUE
    /\ UNCHANGED <<files, revision, walkDisk, pending, queue, job>>

-----------------------------------------------------------------------------
(* One refresh (OperationRunner.refreshNow), one await a step. `targets` is  *)
(* the set compared, `full` when it is every space listed anew.              *)

refreshJob(request, targets, full) ==
    [at |-> "spaces", request |-> request, targets |-> targets, full |-> full,
     epoch |-> epoch, revision |-> revision, walk |-> full /\ walkDisk,
     todo |-> Spaces, got |-> [s \in Space |-> None], failed |-> {}]

(* A cycle's turn (runRefreshCycle): after an error or without a result it   *)
(* lists every space.                                                        *)
StartCycle ==
    LET full == pending.spaces = Space \/ error \/ stale \/ \A s \in Space : result[s] = None
    IN  /\ job = Rest /\ queue # <<>> /\ Head(queue).kind = "cycle" /\ pending # None
        /\ job' = refreshJob(pending, IF full THEN Space ELSE pending.spaces, full)
        /\ pending' = None
        /\ queue' = Tail(queue)
        /\ error' = FALSE
        /\ UNCHANGED <<files, epoch, revision, result, spaceErrors, stale, walkDisk, used>>

fails == spend("fails", MaxFails)

ListSpaces ==
    /\ job.at = "spaces"
    /\ \/ job' = [job EXCEPT !.at = "compare"] /\ UNCHANGED <<error, used>>
       \/ job.full /\ fails /\ error' = TRUE /\ job' = Rest
    /\ UNCHANGED <<files, epoch, revision, result, spaceErrors, stale, walkDisk, pending, queue>>

CompareSpace ==
    LET s == Head(job.todo)
        next == [job EXCEPT !.todo = Tail(job.todo),
                            !.at = IF Len(job.todo) = 1 THEN "persist" ELSE "compare"]
    IN  /\ job.at = "compare"
        /\ \/ /\ job' = [next EXCEPT !.got[s] = IF s \in job.targets THEN compared(s) ELSE result[s]]
              /\ UNCHANGED <<error, used>>
           \/ s \in job.targets /\ fails
              /\ IF s = Vault THEN error' = TRUE /\ job' = Rest
                 ELSE job' = [next EXCEPT !.failed = {s}] /\ UNCHANGED error
        /\ UNCHANGED <<files, epoch, revision, result, spaceErrors, stale, walkDisk, pending, queue>>

(* What was compared is persisted, then shown, unless dropped meanwhile.     *)
PersistRefresh ==
    /\ job.at = "persist"
    /\ IF invalidatedSince(job.epoch) THEN job' = Rest /\ UNCHANGED base
       ELSE /\ base' = [s \in Space |-> IF s \in job.targets \ job.failed
                                        THEN advanced(job.got[s]) ELSE base[s]]
            /\ job' = [job EXCEPT !.at = "settle"]
    /\ UNCHANGED <<disk, head, content, epoch, revision, status, walkDisk, pending, queue, used>>

SettleRefresh ==
    /\ job.at = "settle"
    /\ IF invalidatedSince(job.epoch)
       THEN job' = Rest /\ UNCHANGED <<status, walkDisk>>
       ELSE /\ result' = [s \in Space |->
                   IF job.got[s] = None THEN None
                   ELSE IF s \in job.targets THEN [job.got[s] EXCEPT !.base = base[s]] ELSE job.got[s]]
            /\ spaceErrors' = job.failed \cup (spaceErrors \ job.targets)
            /\ stale' = FALSE
            /\ walkDisk' = (walkDisk /\ ~job.walk)
            /\ job' = IF job.request.pull \/ job.request.push
                      THEN [at |-> "ops", request |-> job.request, targets |-> job.targets,
                            epoch |-> job.epoch, revision |-> job.revision, walk |-> job.walk,
                            todo |-> Steps]
                      ELSE Rest
            /\ UNCHANGED error
    /\ UNCHANGED <<files, epoch, revision, pending, queue, used>>

-----------------------------------------------------------------------------
(* The cycle's own operations, a space after the other: merge conflicts, then*)
(* pull, then push.                                                          *)

(* Mutant: a space this cycle did not compare is pushed too.                 *)
dueAnywhere(s) == result[s] # None

(* A comparison of this cycle.                                               *)
due(s) == s \in job.targets /\ result[s] # None

wanted(s, does) ==
    LET r == result[s]
    IN  /\ due(s)
        /\ \/ does = "merge" /\ job.request.pull /\ conflicts(r)
           \/ does = "pull" /\ job.request.pull /\ remoteChanges(r)
           \/ does = "push" /\ job.request.push /\ localChanges(r)

operation(request, s, does, auto) ==
    [at |-> "open", request |-> request, space |-> s, does |-> does, auto |-> auto, epoch |-> epoch]
noRequest == [asked |-> {}]

NextOperation ==
    /\ job.at = "ops"
    /\ IF job.todo = <<>> THEN job' = Rest
       ELSE LET s == Head(job.todo)[1]
                does == Head(job.todo)[2]
                rest == [job EXCEPT !.todo = Tail(@)]
            IN  job' = IF ~wanted(s, does) THEN rest
                       ELSE IF invalidatedSince(job.epoch) THEN Rest
                       ELSE operation(job.request, s, does, rest)
    /\ UNCHANGED <<files, epoch, revision, status, walkDisk, pending, queue, used>>

StartOperation ==
    /\ job = Rest /\ queue # <<>> /\ Head(queue).kind = "op"
    /\ job' = operation(noRequest, Head(queue).space, Head(queue).does, None)
    /\ queue' = Tail(queue)
    /\ error' = FALSE
    /\ UNCHANGED <<files, epoch, revision, result, spaceErrors, stale, walkDisk, pending, used>>

(* Mutant: the cycle's comparison is used whatever the vault's events said.  *)
reusable == job.auto # None

(* No event since the cycle began: its comparison is as good as a new one.   *)
current == job.auto # None /\ job.auto.revision = revision

(* OperationRunner.runOperationNow: the session opened, the comparison taken *)
(* over or made again, and kept unless the scope changed.                    *)
OpenOperation ==
    LET s == job.space
        r == IF current THEN result[s] ELSE compared(s)
    IN  /\ job.at = "open"
        /\ \/ /\ invalidatedSince(job.epoch)
              /\ job' = Rest /\ UNCHANGED <<status, used>>
           \/ /\ fails /\ error' = TRUE /\ job' = Rest
              /\ UNCHANGED <<result, spaceErrors, stale>>
           \/ /\ ~invalidatedSince(job.epoch)
              /\ job' = [at |-> "act", request |-> job.request, space |-> s,
                         does |-> job.does, auto |-> job.auto, epoch |-> job.epoch, r |-> r]
              /\ result' = [result EXCEPT ![s] = r]
              /\ spaceErrors' = spaceErrors \ {s} /\ stale' = FALSE
              /\ UNCHANGED <<error, used>>
        /\ UNCHANGED <<files, epoch, revision, walkDisk, pending, queue>>

afterwards == IF job.auto = None THEN Rest ELSE job.auto
(* Recomputed from what was written; dropped when the scope changed.         *)
keep(r) ==
    IF invalidatedSince(job.epoch) THEN UNCHANGED <<result, spaceErrors, stale>>
    ELSE /\ result' = [result EXCEPT ![job.space] = r]
         /\ spaceErrors' = spaceErrors \ {job.space} /\ stale' = FALSE

(* Nothing to do: not pushed or pulled after all, or a merge that failed.    *)
ActNothing ==
    LET r == job.r
    IN  /\ job.at = "act"
        /\ \/ job.does = "merge"
           \/ job.does = "pull" /\ (~remoteChanges(r) \/ disk[job.space] # r.disk)
           \/ job.does = "push" /\ ~localChanges(r)
        /\ job' = afterwards
        /\ keep(r)
        /\ UNCHANGED <<files, epoch, revision, error, walkDisk, pending, queue, used>>

written(c) == disk' = [disk EXCEPT ![job.space] = c] /\ revision' = revision + 1
agreed(c) == base' = [base EXCEPT ![job.space] = c]

ActPull ==
    LET r == job.r
        c == r.head.content
    IN  /\ job.at = "act" /\ job.does = "pull" /\ remoteChanges(r) /\ disk[job.space] = r.disk
        /\ written(c) /\ agreed(c)
        /\ keep([r EXCEPT !.disk = c, !.base = c])
        /\ job' = afterwards
        /\ UNCHANGED <<head, content, epoch, error, walkDisk, pending, queue, used>>

(* Both sides merged into the file: a local change over the remote's head.   *)
ActMerge ==
    LET r == job.r
    IN  /\ job.at = "act" /\ job.does = "merge" /\ conflicts(r) /\ disk[job.space] = r.disk
        /\ written(content + 1) /\ agreed(r.head.content) /\ content' = content + 1
        /\ keep([r EXCEPT !.disk = content + 1, !.base = r.head.content])
        /\ job' = afterwards
        /\ UNCHANGED <<head, epoch, error, walkDisk, pending, queue, used>>

ActPush ==
    LET s == job.space
        r == job.r
        h == [n |-> head[s].n + 1, content |-> r.disk]
    IN  /\ job.at = "act" /\ job.does = "push" /\ localChanges(r) /\ head[s] = r.head
        /\ head' = [head EXCEPT ![s] = h] /\ agreed(r.disk)
        /\ keep([r EXCEPT !.head = h, !.base = r.disk])
        /\ job' = afterwards
        /\ UNCHANGED <<disk, content, epoch, revision, error, walkDisk, pending, queue, used>>

(* The head moved (ConcurrentPushError): every result is dropped, and every  *)
(* space compared again in the same turn; the cycle ends with it.            *)
PushedMeanwhile ==
    /\ job.at = "act" /\ job.does = "push" /\ localChanges(job.r) /\ head[job.space] # job.r.head
    /\ result' = [s \in Space |-> None] /\ stale' = TRUE /\ error' = FALSE
    /\ job' = refreshJob([spaces |-> Space, pull |-> FALSE, push |-> FALSE,
                          asked |-> {[a EXCEPT !.walk = FALSE] : a \in job.request.asked}],
                         Space, TRUE)
    /\ UNCHANGED <<files, epoch, revision, spaceErrors, walkDisk, pending, queue, used>>

ONext ==
    \/ AskRefresh \/ AskOperation \/ Invalidate
    \/ \E s \in Space : Edit(s) \/ RemoteEdit(s)
    \/ StartCycle \/ ListSpaces \/ CompareSpace \/ PersistRefresh \/ SettleRefresh
    \/ NextOperation \/ StartOperation \/ OpenOperation
    \/ ActNothing \/ ActPull \/ ActMerge \/ ActPush \/ PushedMeanwhile

-----------------------------------------------------------------------------
(* Properties.                                                               *)

(* A result that can be seen, and acted on, was compared under the scope in  *)
(* force: nothing begun before a change of scope shows its results after it  *)
(* (controller-state.ts: "work begun before it publishes no results").       *)
ResultsInScope == \A s \in Space : result[s] # None => result[s].scope = epoch

(* An operation begins from a comparison of the disk as it is, also when it  *)
(* took the refresh's over instead of making its own: no edit noted since is *)
(* missed (operation-runner.ts, `comparison.revision`).                      *)
BeginsFromTheDisk ==
    (job.at = "open" /\ job'.at = "act") => job'.r.disk = disk[job'.space]
ActsOnTheDisk == [][BeginsFromTheDisk]_ovars

(* Who waits for a refresh is told it is done when every space they asked for*)
(* was compared after they asked, or an error or a stale state is shown.     *)
served(asked) ==
    \A s \in asked.spaces : s \in spaceErrors \/ (result[s] # None /\ result[s].head.n >= asked.heads[s])
turnOf(j) == IF j = Rest THEN {} ELSE j.request.asked
AnswersWhatWasAsked ==
    \A asked \in turnOf(job) \ turnOf(job') : error' \/ stale' \/ served(asked)'
RefreshAnswers == [][AnswersWhatWasAsked]_ovars

(* The person's Refresh lists the disk: the refresh that answers it did, or  *)
(* the walk is still owed to the next (controller.ts: "the disk is listed    *)
(* too, for files Obsidian's index missed").                                 *)
AskedWalkIsDone ==
    [][(job.at = "settle" /\ ~stale' /\ \E asked \in job.request.asked : asked.walk)
          => job.walk \/ walkDisk']_ovars
=============================================================================
