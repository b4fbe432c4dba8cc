------------------------------ MODULE Scheduler ------------------------------
(* What makes one device sync by itself (sync/scheduler.ts): the heartbeat   *)
(* that asks for a due cycle, its cooldown and backoff, and the quiet queues *)
(* that gather changed paths and hand them to a push, through the requests   *)
(* that join (RefreshQueue) to the cycle that pushes (auto-cycle.ts,         *)
(* selectAutoPushPaths).  What a cycle does besides is OperationQueue's.     *)
EXTENDS Naturals, Sequences

CONSTANTS
    File, folderOf,        \* the vault's and a share's files, each in a folder
    Inside,                \* the files of the share
    None,
    Options,               \* settings to start with, as sets of "only", "rightAway", "waits"
    Quiet, Settle,         \* the quiet time of a share's queue and the vault's
    Cooldown, Beat, Interval, Backoff, Threshold,
    MaxTime, MaxEdits, MaxFails, MaxAsks,
    MaxEvents              \* edits, failures and asks together

VARIABLES
    now, online,
    options,               \* the settings in force
    queue,                 \* of the vault and of the share: its paths, its timer
    lastRun, failures, backoffUntil, started, beat, dueAt,
    known,                 \* the share is in the partition
    blocked,               \* spaces with a conflict
    dirty,                 \* files whose change is not pushed
    pending,               \* the request that waits, or None
    chain, job,            \* tasks that wait, the one that runs
    waived,                \* changes somebody was told of, or nobody asked to push
    idleSince, hasty,      \* when the last task ended, a cycle was asked too soon
    used
hvars == <<now, online, options, queue, lastRun, failures, backoffUntil, started, beat,
           dueAt, known, blocked, dirty, pending, chain, job, waived, idleSince, hasty, used>>
timers == <<lastRun, failures, backoffUntil, started, beat, dueAt>>
work == <<pending, chain, job>>

Space == {"vault", "share"}
spaceOf(f) == IF f \in Inside THEN "share" ELSE "vault"
Folder == {folderOf[f] : f \in File}
All == File \cup Folder
Empty == [paths |-> {}, at |-> None]

HInit ==
    /\ now = Cooldown /\ online = TRUE
    /\ \E o \in Options :
          options = [auto |-> TRUE, pushes |-> TRUE, only |-> "only" \in o,
                     rightAway |-> "rightAway" \in o, waits |-> "waits" \in o]
    /\ queue = [s \in Space |-> Empty]
    /\ lastRun = 0 /\ failures = 0 /\ backoffUntil = 0
    /\ started = ~options.auto /\ beat = now + Beat /\ dueAt = now + Interval
    /\ known = FALSE /\ blocked = {} /\ dirty = {}
    /\ pending = None /\ chain = <<>> /\ job = None
    /\ waived = {} /\ idleSince = None /\ hasty = FALSE
    /\ used = [edits |-> 0, fails |-> 0, asks |-> 0]

spend(what, most) ==
    /\ used[what] < most /\ used.edits + used.fails + used.asks < MaxEvents
    /\ used' = [used EXCEPT ![what] = @ + 1]

(* A folder's event stands for the files in it (auto-push.ts).               *)
coversItself(only, f) == f \in only

covers(only, f) == f \in only \/ folderOf[f] \in only

-----------------------------------------------------------------------------
(* Asking (RefreshQueue.request).                                            *)

(* Mutant: the paths of the request that waits give way to the new ones.     *)
unionPathsLast(a, b) == b

unionPaths(a, b) == a \cup b

request(push, only, ticks, shares) ==
    IF pending = None
    THEN /\ pending' = [push |-> push, only |-> IF push THEN only ELSE {}, ticks |-> ticks,
                        shares |-> shares]
         /\ chain' = Append(chain, [kind |-> "cycle", only |-> {}])
    ELSE /\ pending' = [push |-> pending.push \/ push,
                        only |-> IF ~push THEN pending.only
                                 ELSE IF pending.push THEN unionPaths(pending.only, only)
                                 ELSE only,
                        ticks |-> pending.ticks + ticks, shares |-> pending.shares \cup shares]
         /\ UNCHANGED chain

(* tick                                                                      *)
idle == job = None /\ chain = <<>>
cooling == now - lastRun < Cooldown

tick ==
    IF online /\ ~cooling /\ now >= backoffUntil
    THEN /\ lastRun' = now
         /\ hasty' = (hasty \/ (idle /\ idleSince # None /\ now - idleSince < Cooldown))
         /\ \E push \in BOOLEAN : request(push, All, 1, {})   \* autoPushAfterSync
    ELSE UNCHANGED <<lastRun, hasty, pending, chain>>

(* The first run, once, when the metadata cache settles or its cap passes.   *)
FirstRun ==
    /\ ~started /\ started' = TRUE
    /\ tick
    /\ UNCHANGED <<now, online, options, queue, failures, backoffUntil, beat, dueAt, known,
                   blocked, dirty, job, waived, idleSince, used>>

(* The heartbeat's wake-up.                                                  *)
Wake ==
    /\ now = beat /\ beat' = now + Beat
    /\ IF ~options.auto \/ now < dueAt
       THEN UNCHANGED <<dueAt, lastRun, hasty, used, pending, chain>>
       ELSE IF cooling
       THEN dueAt' = lastRun + Cooldown /\ UNCHANGED <<lastRun, hasty, pending, chain>>
       ELSE dueAt' = now + Interval /\ tick
    /\ UNCHANGED <<now, online, options, queue, failures, backoffUntil, started, known,
                   blocked, dirty, job, waived, idleSince, used>>

-----------------------------------------------------------------------------
(* The quiet queues.                                                         *)
quietOf(s) == IF s = "share" THEN Quiet ELSE Settle

(* onVaultEvent: the queue a changed path goes to, if to any.                *)
queueOf(space, edit) ==
    IF space = "share" /\ options.rightAway
    THEN IF edit /\ options.waits THEN None ELSE "share"
    ELSE IF options.pushes THEN "vault" ELSE None

(* Files changed, and the paths the event names, with their spaces.          *)
changed(files, named, edit) ==
    /\ spend("edits", MaxEdits)
    /\ dirty' = dirty \cup files
    /\ queue' = [s \in Space |->
           LET new == {n[1] : n \in {m \in named : queueOf(m[2], edit) = s}}
           IN  IF new = {} THEN queue[s]
               ELSE [paths |-> queue[s].paths \cup new, at |-> now + quietOf(s)]]
    /\ waived' = (waived \ files) \cup {f \in files : queueOf(spaceOf(f), edit) = None}
    /\ job' = IF job = None THEN job ELSE [job EXCEPT !.sends = @ \ files]
    /\ UNCHANGED <<now, online, options, timers, known, blocked, pending, chain, idleSince, hasty>>

(* An edit; a file made or deleted; one moved between vault and share.       *)
Modify(f) == changed({f}, {<<f, spaceOf(f)>>}, TRUE)
Make(f) == changed({f}, {<<f, spaceOf(f)>>}, FALSE)
Move(f, g) ==
    /\ spaceOf(f) # spaceOf(g)
    /\ changed({f, g}, {<<f, spaceOf(f)>>, <<g, spaceOf(g)>>}, FALSE)
(* A folder's rename names the folder alone.                                 *)
MoveFolder(d) ==
    LET files == {f \in File : folderOf[f] = d}
    IN  changed(files, {<<d, spaceOf(f)>> : f \in files}, FALSE)

held == ~online \/ now < backoffUntil
due(s) == queue[s].at # None /\ queue[s].at <= now

(* A timer that fires while held is armed again.                             *)
Rearm(s) ==
    /\ due(s) /\ held
    /\ queue' = [queue EXCEPT ![s].at = now + quietOf(s)]
    /\ UNCHANGED <<now, online, options, timers, known, blocked, dirty, work, waived,
                   idleSince, hasty, used>>

(* runQueuedPush, which drops its paths when pushing was turned off.         *)
FireVault ==
    LET paths == queue["vault"].paths
    IN  /\ due("vault") /\ ~held /\ queue' = [queue EXCEPT !["vault"] = Empty]
        /\ IF ~options.pushes
           THEN /\ waived' = waived \cup {f \in dirty : covers(paths, f)}
                /\ UNCHANGED <<pending, chain>>
           ELSE /\ UNCHANGED waived
                /\ request(TRUE, IF options.only THEN paths ELSE All, 0, {})
        /\ UNCHANGED <<now, online, options, timers, known, blocked, dirty, job, idleSince,
                       hasty, used>>

(* autoPushShares: a share the partition does not know yet is looked up by a *)
(* refresh first.                                                            *)
FireShare ==
    LET paths == queue["share"].paths
    IN  /\ due("share") /\ ~held /\ queue' = [queue EXCEPT !["share"] = Empty]
        /\ IF known
           THEN /\ chain' = Append(chain, [kind |-> "share", only |-> paths])
                /\ UNCHANGED pending
           ELSE request(FALSE, {}, 0, paths)
        /\ UNCHANGED <<now, online, options, timers, known, blocked, dirty, job, waived,
                       idleSince, hasty, used>>

-----------------------------------------------------------------------------
(* A task runs: it takes its request, compares, pushes and ends.             *)

Begin ==
    LET task == Head(chain)
        ask == IF task.kind = "cycle" THEN pending
               ELSE [push |-> TRUE, only |-> task.only, ticks |-> 0, shares |-> {}]
    IN  /\ job = None /\ chain # <<>> /\ chain' = Tail(chain)
        /\ pending' = IF task.kind = "cycle" THEN None ELSE pending
        /\ job' = [kind |-> task.kind, ask |-> ask, read |-> FALSE, sends |-> {}]
        /\ UNCHANGED <<now, online, options, queue, timers, known, blocked, dirty, waived,
                       idleSince, hasty, used>>

(* selectAutoPushPaths: any conflict of a space blocks its whole push.       *)
selected(j) ==
    {f \in dirty : /\ j.ask.push /\ covers(j.ask.only, f) /\ spaceOf(f) \notin blocked
                   /\ j.kind = "share" => spaceOf(f) = "share"}

Compare ==
    /\ job # None /\ ~job.read
    /\ job' = [job EXCEPT !.read = TRUE, !.sends = selected(job)]
    /\ known' = (known \/ job.kind = "cycle")
    /\ waived' = waived \cup {f \in dirty : job.ask.push /\ covers(job.ask.only, f)
                                           /\ spaceOf(f) \in blocked}
    /\ UNCHANGED <<now, online, options, queue, timers, blocked, dirty, pending, chain,
                   idleSince, hasty, used>>

(* The counts of the cycle's ticks, then the subscriber once all is idle.    *)
concluded(error) ==
    LET strikes == IF job.ask.ticks = 0 THEN failures
                   ELSE IF error THEN failures + job.ask.ticks ELSE 0
        idles == chain = <<>>
        strikesNow == IF idles /\ ~error THEN 0 ELSE strikes
    IN  /\ failures' = strikesNow
        /\ backoffUntil' = CASE strikesNow = 0 -> 0
                             [] strikesNow >= Threshold /\ job.ask.ticks > 0 ->
                                    now + Backoff * 2 ^ (strikesNow - Threshold)
                             [] OTHER -> backoffUntil

(* Mutant: only the timer's own cycles count as fresh syncs.                 *)
freshTicksOnly == IF job.ask.ticks > 0 THEN now ELSE lastRun

fresh == now

ended ==
    /\ job' = None
    /\ IF chain = <<>> THEN lastRun' = fresh /\ idleSince' = now ELSE UNCHANGED <<lastRun, idleSince>>
    /\ UNCHANGED <<now, online, options, started, beat, dueAt, blocked, hasty>>

End ==
    /\ job # None /\ job.read
    /\ dirty' = dirty \ job.sends
    /\ chain' = IF job.ask.shares = {} THEN chain
                ELSE Append(chain, [kind |-> "share", only |-> job.ask.shares])
    /\ ended /\ concluded(FALSE)
    /\ UNCHANGED <<queue, known, pending, waived, used>>

(* It fails, perhaps after the vault's push; the person sees the error.      *)
Fail ==
    /\ job # None /\ spend("fails", MaxFails)
    /\ \E sent \in {{}, {f \in job.sends : spaceOf(f) = "vault"}} :
          /\ dirty' = dirty \ sent
          /\ waived' = waived \cup
                 {f \in dirty \ sent : \/ job.ask.push /\ covers(job.ask.only, f)
                                       \/ covers(job.ask.shares, f)}
    /\ ended /\ concluded(TRUE)
    /\ UNCHANGED <<queue, known, chain, pending>>

-----------------------------------------------------------------------------
(* The world: time, the network, a person.                                   *)
Pass ==
    /\ now < MaxTime /\ now' = now + 1
    /\ \A s \in Space : ~due(s)
    /\ now < beat
    /\ UNCHANGED <<online, options, queue, timers, known, blocked, dirty, work, waived,
                   idleSince, hasty, used>>

(* The person's Refresh, and a signal's pull.                                *)
Ask ==
    /\ spend("asks", MaxAsks)
    /\ request(FALSE, {}, 0, {})
    /\ UNCHANGED <<now, online, options, queue, timers, known, blocked, dirty, job, waived,
                   idleSince, hasty>>

Change ==
    /\ spend("fails", MaxFails)
    /\ \/ online' = ~online /\ UNCHANGED <<options, blocked>>
       \/ options' = [options EXCEPT !.pushes = ~@] /\ UNCHANGED <<online, blocked>>
       \/ options' = [options EXCEPT !.auto = ~@] /\ UNCHANGED <<online, blocked>>
       \/ /\ \E s \in Space : blocked' = blocked \cup {s}
          /\ UNCHANGED <<online, options>>
    /\ UNCHANGED <<now, queue, timers, known, dirty, work, waived, idleSince, hasty>>

HNext ==
    \/ FirstRun \/ Wake \/ FireVault \/ FireShare \/ Begin \/ Compare \/ End \/ Fail
    \/ Pass \/ Ask \/ Change
    \/ \E s \in Space : Rearm(s)
    \/ \E f \in File : Modify(f) \/ Make(f) \/ \E g \in File : Move(f, g)
    \/ \E d \in Folder : MoveFolder(d)

-----------------------------------------------------------------------------
(* Who will still push a change: a queue with its timer set, a request, a    *)
(* task, or the one that runs.                                               *)
within(paths, f) == f \in paths \/ folderOf[f] \in paths
promised(f) ==
    \/ \E s \in Space : queue[s].at # None /\ within(queue[s].paths, f)
    \/ pending # None /\ \/ pending.push /\ within(pending.only, f)
                         \/ within(pending.shares, f)
    \/ \E i \in 1..Len(chain) : chain[i].kind = "share" /\ within(chain[i].only, f)
    \/ /\ job # None
       /\ \/ f \in job.sends
          \/ ~job.read /\ job.ask.push /\ within(job.ask.only, f)
          \/ within(job.ask.shares, f)

(* A change that was to be pushed by itself is on its way, or somebody was   *)
(* told it is not.                                                           *)
NothingForgotten == \A f \in dirty : promised(f) \/ f \in waived

(* The timer asks for no cycle where one has just ended.                     *)
NotTwice == ~hasty

TimersSafe == NothingForgotten /\ NotTwice
=============================================================================
