------------------------------ MODULE MCDevice ------------------------------
(* What one device does with its own state and its notes, with the services  *)
(* it syncs through, with the vault it syncs, with what it ignores and with  *)
(* a store that answers late: ten parts for TLC, of which one runs. Each     *)
(* module says what its part is of the code, and why its properties hold.    *)
EXTENDS Naturals, TLC

CONSTANTS None, NoFile, Torn, Own, Foreign, x, y, d1, d2, acct, n1, c1, s1, root,
    conf, shr

VARIABLES
    part,
    file, life, current, statePending, stateMemo, stateQueue, stateJob,
    version, acked, persists, crashes, fails,
    queueDisk, queueBase, queueHead, content, epoch, revision, queueResult,
    error, spaceErrors, stale, walkDisk, queuePending, queueQueue, queueJob,
    queueUsed,
    noteDisk, noteBase, noteHead, stored, copies, noteResult, cached, view,
    loading, merge, confirm, noteQueue, running, had, done, noteEdits, remotes,
    noteClicks, events,
    sides, open, doc, mergeChanges, past, mergeClicks, steps,
    backend, files, storesLate, nextId, cachedFolderId, fileIdCache, readHint,
    call, told, creators, calls, storesFaults,
    started, oauthPending, cookie, pages, returns, oauthLinks, lapsed, granted,
    config, issued, dead, refreshing, oauthWork, visits, expiries,
    role, storage, urls, batches, brokerWork, bucket, now, expects, requests,
    brokerFaults, owner,
    scanDisk, index, aged, scanNote, scanMemo, scanMounted, scanLinks,
    scanBase, cache, found, scan, gone, scanEdits, scanChanges, scanFaults,
    scans,
    present, rulesMounted, rulesNote, patterns, saving, local, shared, loads,
    refreshes, ignored, computedFor, sharing, rulesUsed,
    heads, objects, lagDisk, baseline, published, uploads, op, lagLate,
    lagEdits, keeps, lagFaults, chosen, held, deleted, won

keys == {<<"x">>, <<"y">>, <<"..", "z">>}
folders == [f \in {n1, s1, shr} |-> IF f = s1 THEN shr ELSE None]
homes == [f \in {n1, c1, s1} |-> CASE f = n1 -> root [] f = c1 -> conf [] f = s1 -> shr]

State == INSTANCE StateFile WITH
    pending <- statePending, memo <- stateMemo, queue <- stateQueue,
    job <- stateJob,
    Instance <- 1..3, MaxPersists <- 3, MaxCrashes <- 2, MaxFails <- 1,
    Overlapping <- {}

Queue == INSTANCE OperationQueue WITH
    disk <- queueDisk, base <- queueBase, head <- queueHead,
    result <- queueResult, pending <- queuePending, queue <- queueQueue,
    job <- queueJob, used <- queueUsed,
    Vault <- Own, Share <- Foreign, MaxRequests <- 2, MaxOps <- 1,
    MaxEdits <- 1, MaxRemote <- 1, MaxInvalidations <- 1, MaxFails <- 1,
    MaxEvents <- 5

Note == INSTANCE FileDecisions WITH
    disk <- noteDisk, base <- noteBase, head <- noteHead, result <- noteResult,
    queue <- noteQueue, edits <- noteEdits, clicks <- noteClicks,
    Segments <- 2, Value <- {x, y}, Races <- {}, MaxEdits <- 1, MaxRemote <- 1,
    MaxClicks <- 2, MaxEvents <- 4

Editor == INSTANCE MergeText WITH
    changes <- mergeChanges, clicks <- mergeClicks,
    BaseLines <- {<<>>, <<"k">>}, SideLines <- {<<>>, <<"k">>, <<"x">>},
    MaxBase <- 2, MaxLocal <- 2, MaxRemote <- 2, MaxSteps <- 3

Stores == INSTANCE ObjectStores WITH
    late <- storesLate, faults <- storesFaults,
    Device <- {1, 2}, Backends <- {"s3", "webdav", "drive"}, Races <- {},
    Tries <- 1, MaxCalls <- 3, MaxFaults <- 1

SignIn == INSTANCE DriveSignIn WITH
    pending <- oauthPending, links <- oauthLinks, work <- oauthWork,
    Device <- {d1, d2}, Account <- {acct}, Worker <- {1, 2},
    workerOf <- [w \in 1..2 |-> d1], Races <- {}, Rotates <- FALSE,
    MaxSignIns <- 2, MaxVisits <- 2, MaxExpiries <- 1

Broker == INSTANCE ShareBroker WITH
    work <- brokerWork, faults <- brokerFaults,
    Key <- keys, Hints <- {<< <<"x">>, <<"y">> >>}, Worker <- {1, 2},
    BatchMax <- 2, MaxTime <- 2, MaxExpects <- 1, MaxRequests <- 2,
    MaxFaults <- 1, MaxOwner <- 1

Scan == INSTANCE VaultScan WITH
    disk <- scanDisk, note <- scanNote, memo <- scanMemo,
    mounted <- scanMounted, links <- scanLinks, base <- scanBase,
    edits <- scanEdits, changes <- scanChanges, faults <- scanFaults,
    File <- {n1, c1, s1}, Folder <- {root, conf, shr}, home <- homes,
    Config <- conf, Copied <- {n1}, Shared <- shr, Rules <- {{n1}},
    Races <- {}, MaxEdits <- 2, MaxChanges <- 1, MaxFaults <- 1, MaxScans <- 2

Ignoring == INSTANCE IgnoreRules WITH
    mounted <- rulesMounted, note <- rulesNote, used <- rulesUsed,
    File <- {n1, s1, shr}, within <- folders, Inside <- {s1, shr},
    Written <- {{n1, s1}, {s1, shr}}, Races <- {}, MaxEdits <- 2,
    MaxFiles <- 1, MaxMounts <- 2, MaxFails <- 1, MaxEvents <- 3

Lagging == INSTANCE VaultSync WITH
    disk <- lagDisk, late <- lagLate, edits <- lagEdits, faults <- lagFaults,
    Path <- {n1, c1}, Hash <- {x, y}, Scene <- [v \in {x, y} |-> v],
    Device <- {d1}, MaxEdits <- 3, MaxKeeps <- 1, MaxPuts <- 4, MaxFaults <- 0,
    MaxLag <- 1, Exclusive <- {"put"}, StartSynced <- TRUE

statevars == <<
    file, life, current, statePending, stateMemo, stateQueue, stateJob,
    version, acked, persists, crashes, fails>>
queuevars == <<
    queueDisk, queueBase, queueHead, content, epoch, revision, queueResult,
    error, spaceErrors, stale, walkDisk, queuePending, queueQueue, queueJob,
    queueUsed>>
notevars == <<
    noteDisk, noteBase, noteHead, stored, copies, noteResult, cached, view,
    loading, merge, confirm, noteQueue, running, had, done, noteEdits, remotes,
    noteClicks, events>>
mergevars == <<
    sides, open, doc, mergeChanges, past, mergeClicks, steps>>
storesvars == <<
    backend, files, storesLate, nextId, cachedFolderId, fileIdCache, readHint,
    call, told, creators, calls, storesFaults>>
oauthvars == <<
    started, oauthPending, cookie, pages, returns, oauthLinks, lapsed, granted,
    config, issued, dead, refreshing, oauthWork, visits, expiries>>
brokervars == <<
    role, storage, urls, batches, brokerWork, bucket, now, expects, requests,
    brokerFaults, owner>>
scanvars == <<
    scanDisk, index, aged, scanNote, scanMemo, scanMounted, scanLinks,
    scanBase, cache, found, scan, gone, scanEdits, scanChanges, scanFaults,
    scans>>
rulesvars == <<
    present, rulesMounted, rulesNote, patterns, saving, local, shared, loads,
    refreshes, ignored, computedFor, sharing, rulesUsed>>
lagvars == <<
    heads, objects, lagDisk, baseline, published, uploads, op, lagLate,
    lagEdits, keeps, lagFaults, chosen, held, deleted, won>>

allvars == <<part, statevars, queuevars, notevars, mergevars, storesvars, oauthvars,
        brokervars, scanvars, rulesvars, lagvars>>

(* A part that does not run holds nothing.                                   *)
NoState ==
    /\ file = None /\ life = None /\ current = None /\ statePending = None
    /\ stateMemo = None /\ stateQueue = None /\ stateJob = None
    /\ version = None /\ acked = None /\ persists = None /\ crashes = None
    /\ fails = None
NoQueue ==
    /\ queueDisk = None /\ queueBase = None /\ queueHead = None
    /\ content = None /\ epoch = None /\ revision = None /\ queueResult = None
    /\ error = None /\ spaceErrors = None /\ stale = None /\ walkDisk = None
    /\ queuePending = None /\ queueQueue = None /\ queueJob = None
    /\ queueUsed = None
NoNote ==
    /\ noteDisk = None /\ noteBase = None /\ noteHead = None /\ stored = None
    /\ copies = None /\ noteResult = None /\ cached = None /\ view = None
    /\ loading = None /\ merge = None /\ confirm = None /\ noteQueue = None
    /\ running = None /\ had = None /\ done = None /\ noteEdits = None
    /\ remotes = None /\ noteClicks = None /\ events = None
NoEditor ==
    /\ sides = None /\ open = None /\ doc = None /\ mergeChanges = None
    /\ past = None /\ mergeClicks = None /\ steps = None
NoStores ==
    /\ backend = None /\ files = None /\ storesLate = None /\ nextId = None
    /\ cachedFolderId = None /\ fileIdCache = None /\ readHint = None
    /\ call = None /\ told = None /\ creators = None /\ calls = None
    /\ storesFaults = None
NoSignIn ==
    /\ started = None /\ oauthPending = None /\ cookie = None /\ pages = None
    /\ returns = None /\ oauthLinks = None /\ lapsed = None /\ granted = None
    /\ config = None /\ issued = None /\ dead = None /\ refreshing = None
    /\ oauthWork = None /\ visits = None /\ expiries = None
NoBroker ==
    /\ role = None /\ storage = None /\ urls = None /\ batches = None
    /\ brokerWork = None /\ bucket = None /\ now = None /\ expects = None
    /\ requests = None /\ brokerFaults = None /\ owner = None
NoScan ==
    /\ scanDisk = None /\ index = None /\ aged = None /\ scanNote = None
    /\ scanMemo = None /\ scanMounted = None /\ scanLinks = None
    /\ scanBase = None /\ cache = None /\ found = None /\ scan = None
    /\ gone = None /\ scanEdits = None /\ scanChanges = None
    /\ scanFaults = None /\ scans = None
NoIgnoring ==
    /\ present = None /\ rulesMounted = None /\ rulesNote = None
    /\ patterns = None /\ saving = None /\ local = None /\ shared = None
    /\ loads = None /\ refreshes = None /\ ignored = None /\ computedFor = None
    /\ sharing = None /\ rulesUsed = None
NoLagging ==
    /\ heads = None /\ objects = None /\ lagDisk = None /\ baseline = None
    /\ published = None /\ uploads = None /\ op = None /\ lagLate = None
    /\ lagEdits = None /\ keeps = None /\ lagFaults = None /\ chosen = None
    /\ held = None /\ deleted = None /\ won = None

Init ==
    \/ part = "state" /\ State!FInit /\ NoQueue /\ NoNote /\ NoEditor /\ NoStores /\ NoSignIn /\ NoBroker /\ NoScan /\ NoIgnoring /\ NoLagging
    \/ part = "queue" /\ Queue!OInit /\ NoState /\ NoNote /\ NoEditor /\ NoStores /\ NoSignIn /\ NoBroker /\ NoScan /\ NoIgnoring /\ NoLagging
    \/ part = "note" /\ Note!DInit /\ NoState /\ NoQueue /\ NoEditor /\ NoStores /\ NoSignIn /\ NoBroker /\ NoScan /\ NoIgnoring /\ NoLagging
    \/ part = "merge" /\ Editor!MInit /\ NoState /\ NoQueue /\ NoNote /\ NoStores /\ NoSignIn /\ NoBroker /\ NoScan /\ NoIgnoring /\ NoLagging
    \/ part = "stores" /\ Stores!TInit /\ NoState /\ NoQueue /\ NoNote /\ NoEditor /\ NoSignIn /\ NoBroker /\ NoScan /\ NoIgnoring /\ NoLagging
    \/ part = "oauth" /\ SignIn!GInit /\ NoState /\ NoQueue /\ NoNote /\ NoEditor /\ NoStores /\ NoBroker /\ NoScan /\ NoIgnoring /\ NoLagging
    \/ part = "broker" /\ Broker!BInit /\ NoState /\ NoQueue /\ NoNote /\ NoEditor /\ NoStores /\ NoSignIn /\ NoScan /\ NoIgnoring /\ NoLagging
    \/ part = "scan" /\ Scan!KInit /\ NoState /\ NoQueue /\ NoNote /\ NoEditor /\ NoStores /\ NoSignIn /\ NoBroker /\ NoIgnoring /\ NoLagging
    \/ part = "rules" /\ Ignoring!JInit /\ NoState /\ NoQueue /\ NoNote /\ NoEditor /\ NoStores /\ NoSignIn /\ NoBroker /\ NoScan /\ NoLagging
    \/ part = "lag" /\ Lagging!Init /\ NoState /\ NoQueue /\ NoNote /\ NoEditor /\ NoStores /\ NoSignIn /\ NoBroker /\ NoScan /\ NoIgnoring

(* The part that runs is chosen once, and the others stand still.            *)
StateStep ==
    /\ part = "state" /\ UNCHANGED part
    /\ State!FNext
    /\ UNCHANGED <<queuevars, notevars, mergevars, storesvars, oauthvars, brokervars,
        scanvars, rulesvars, lagvars>>

QueueStep ==
    /\ part = "queue" /\ UNCHANGED part
    /\ Queue!ONext
    /\ UNCHANGED <<statevars, notevars, mergevars, storesvars, oauthvars, brokervars,
        scanvars, rulesvars, lagvars>>

NoteStep ==
    /\ part = "note" /\ UNCHANGED part
    /\ Note!DNext
    /\ UNCHANGED <<statevars, queuevars, mergevars, storesvars, oauthvars, brokervars,
        scanvars, rulesvars, lagvars>>

EditorStep ==
    /\ part = "merge" /\ UNCHANGED part
    /\ Editor!MNext
    /\ UNCHANGED <<statevars, queuevars, notevars, storesvars, oauthvars, brokervars,
        scanvars, rulesvars, lagvars>>

StoresStep ==
    /\ part = "stores" /\ UNCHANGED part
    /\ Stores!TNext
    /\ UNCHANGED <<statevars, queuevars, notevars, mergevars, oauthvars, brokervars,
        scanvars, rulesvars, lagvars>>

SignInStep ==
    /\ part = "oauth" /\ UNCHANGED part
    /\ SignIn!GNext
    /\ UNCHANGED <<statevars, queuevars, notevars, mergevars, storesvars, brokervars,
        scanvars, rulesvars, lagvars>>

BrokerStep ==
    /\ part = "broker" /\ UNCHANGED part
    /\ Broker!BNext
    /\ UNCHANGED <<statevars, queuevars, notevars, mergevars, storesvars, oauthvars,
        scanvars, rulesvars, lagvars>>

ScanStep ==
    /\ part = "scan" /\ UNCHANGED part
    /\ Scan!KNext
    /\ UNCHANGED <<statevars, queuevars, notevars, mergevars, storesvars, oauthvars,
        brokervars, rulesvars, lagvars>>

IgnoringStep ==
    /\ part = "rules" /\ UNCHANGED part
    /\ Ignoring!JNext
    /\ UNCHANGED <<statevars, queuevars, notevars, mergevars, storesvars, oauthvars,
        brokervars, scanvars, lagvars>>

LaggingStep ==
    /\ part = "lag" /\ UNCHANGED part
    /\ Lagging!Next
    /\ UNCHANGED <<statevars, queuevars, notevars, mergevars, storesvars, oauthvars,
        brokervars, scanvars, rulesvars>>

Next ==
    \/ StateStep
    \/ QueueStep
    \/ NoteStep
    \/ EditorStep
    \/ StoresStep
    \/ SignInStep
    \/ BrokerStep
    \/ ScanStep
    \/ IgnoringStep
    \/ LaggingStep

Spec == Init /\ [][Next]_allvars

(* Two values of a segment: the parts they belong to tell them apart by      *)
(* nothing.                                                                  *)
Interchangeable == Permutations({x, y})

(* StateFile: what a caller was told is saved is what the next life loads.  *)
StateSafe == part = "state" =>
    /\ State!SavedSurvives
    /\ State!QuietDiskIsMemory

(* OperationQueue: no result outlives the scope it was compared in, no task  *)
(* acts on an old compare, and a refresh is told of what it asked for.       *)
OperationsSafe == 
    /\ [](part = "queue" => Queue!ResultsInScope)
    /\ [][part = "queue" => Queue!BeginsFromTheDisk /\ Queue!AnswersWhatWasAsked]_queuevars

(* FileDecisions: what is applied to a note is what its panel showed.       *)
DecisionSafe == part = "note" => Note!DecisionSafe

(* MergeText: the editor's result holds what each side was asked to give.   *)
MergeSafe == part = "merge" => Editor!MergeSafe

(* ObjectStores: a store answers what it holds, whichever backend it is.     *)
StoresSafe == part = "stores" => Stores!StoresSafe

(* DriveSignIn: requests carry a token of the account last signed in with.   *)
SignInSafe == part = "oauth" => SignIn!SignInSafe

(* ShareBroker: a signed URL is asked for, for its own key, and never stale.  *)
SharesSafe == part = "broker" => Broker!SharesSafe

(* VaultScan: what the index of the vault says is what is on the disk.        *)
ScanSafe == part = "scan" => Scan!ScanSafe

(* IgnoreRules: what is told to be ignored is, and no share takes it along.   *)
IgnoringSafe == 
    /\ [](part = "rules" => Ignoring!ToldIsTrue)
    /\ [][part = "rules" => Ignoring!SharesNothingIgnored]_rulesvars

(* VaultSync: heads follow one another, read from a store that lags by one. *)
LinearHistory == part = "lag" => Lagging!LinearHistory
=============================================================================
