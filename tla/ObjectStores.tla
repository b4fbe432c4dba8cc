---------------------------- MODULE ObjectStores ----------------------------
(* The adapters of the object stores (storage/adapters/): S3, WebDAV and     *)
(* Google Drive under one contract (storage/types.ts).  A call is one or     *)
(* several requests, each retried while it fails for a reason that may pass; *)
(* what a failed request did, the caller cannot know.  S3 and WebDAV address *)
(* objects by name; Drive by an id the adapter looks up and caches, in a     *)
(* folder it finds or makes.                                                 *)
EXTENDS Naturals, FiniteSets

CONSTANTS
    Device, None,
    Backends,     \* among {"s3", "webdav", "drive"}
    Races,        \* what is let happen although a backend does not bear it:
                  \*   "tie"       Drive: two devices create one name at once
                  \*   "duplicate" Drive: a create is done and its answer lost
                  \*   "gone"      Drive: an object is deleted that another device knows
                  \*   "portal"    WebDAV: a proxy answers 404 in place of the server
    Tries, MaxCalls, MaxFaults

VARIABLES
    backend,
    files,        \* what the server holds: id, name, folder, value
    late,         \* writes timed out at their sender and still under way
    nextId,
    cachedFolderId, fileIdCache, readHint,   \* of each device's adapter
    call,         \* what each device's caller waits for
    told,         \* the answer just given, or None
    creators,     \* who was told to have created the keyfile
    calls, faults
tvars == <<backend, files, late, nextId, cachedFolderId, fileIdCache, readHint,
           call, told, creators, calls, faults>>

Key == {"manifest", "object", "keyfile"}
Folder == "folder"
(* What is written under a name: an object is named by its content, a        *)
(* keyfile is its writer's, the manifest changes.                            *)
valuesOf(d, op, key) ==
    CASE key = "manifest" /\ op = "getIfChanged" -> {1, 2} [] key = "manifest" -> {2}
      [] key = "object" -> {1} [] OTHER -> {d}
opsOn(key) ==
    CASE key = "manifest" -> {"get", "getIfChanged", "put", "delete"}
      [] key = "object" -> {"exists", "put", "delete"}
      [] OTHER -> {"get", "putIfAbsent"}

named(fs, key) == {f \in fs : f.name = key}
contents(fs, key) == IF named(fs, key) = {} THEN {None} ELSE {f.value : f \in named(fs, key)}
file(id, name, folder, value) == [id |-> id, name |-> name, in |-> folder, value |-> value]
Idle == [op |-> "none", key |-> None]
idle(d) == call[d].op = "none"

TInit ==
    /\ backend \in Backends
    /\ files \in {{}, {file(0, "manifest", 100, 1), file(100, Folder, None, None)}}
    /\ late = {} /\ nextId = 1
    /\ cachedFolderId = [d \in Device |-> None]
    /\ fileIdCache = [d \in Device |-> [k \in Key |-> None]]
    /\ readHint = [d \in Device |-> FALSE]
    /\ call = [d \in Device |-> Idle]
    /\ told = None /\ creators = {} /\ calls = 0 /\ faults = 0

(* Every call under way saw what the server now holds.                       *)
observed(c, fs) ==
    [d \in Device |-> IF c[d].op = "none" THEN c[d]
        ELSE [c[d] EXCEPT !.seen = [k \in Key |-> @[k] \cup contents(fs, k)]]]

-----------------------------------------------------------------------------
(* The caller's side.                                                        *)

firstStep(d, op, key) ==
    CASE backend = "s3" -> "ask"
      [] backend = "webdav" /\ op \in {"put", "putIfAbsent"} /\ cachedFolderId[d] = None -> "mkcol"
      [] backend = "webdav" -> "ask"
      [] op = "list" /\ cachedFolderId[d] # None -> "ask"
      [] op # "list" /\ fileIdCache[d][key] # None -> "act"
      [] op = "get" /\ readHint[d] /\ cachedFolderId[d] # None -> "prime"
      [] cachedFolderId[d] # None -> "find"
      [] OTHER -> "folder"

(* Drive bears no two devices in one name, nor an object that goes.          *)
bearable(d, op, key) ==
    backend = "drive" =>
        \A e \in Device \ {d} :
            /\ "tie" \in Races \/ idle(e) \/ (call[e].key # key /\ cachedFolderId[d] # None)
            /\ op = "delete" /\ "gone" \notin Races =>
                   idle(e) /\ fileIdCache[e][key] = None

Begin(d, op, key, value) ==
    /\ idle(d) /\ calls < MaxCalls /\ bearable(d, op, key)
    /\ backend = "drive" => op # "getIfChanged"
    /\ call' = [call EXCEPT ![d] =
           [op |-> op, key |-> key, value |-> value, at |-> firstStep(d, op, key),
            id |-> IF key \in Key THEN fileIdCache[d][key] ELSE None,
            tries |-> 0, pages |-> Key, found |-> {},
            seen |-> [k \in Key |-> contents(files, k)]]]
    /\ calls' = calls + 1 /\ told' = None
    /\ UNCHANGED <<backend, files, late, nextId, cachedFolderId, fileIdCache, readHint,
                   creators, faults>>

Start(d) ==
    \/ \E key \in Key : \E op \in opsOn(key) : \E value \in valuesOf(d, op, key) :
          Begin(d, op, key, value)
    \/ Begin(d, "list", None, None)

(* prepareReads: many reads are about to follow; Drive may list before them. *)
PrepareReads(d) ==
    /\ backend = "drive" /\ idle(d) /\ ~readHint[d] /\ calls < MaxCalls
    /\ readHint' = [readHint EXCEPT ![d] = TRUE]
    /\ told' = None
    /\ UNCHANGED <<backend, files, late, nextId, cachedFolderId, fileIdCache, call,
                   creators, calls, faults>>

(* outcome: "is" with what was read, "yes" or "no", "done", "error".         *)
answered(d, fs, outcome, value) ==
    /\ told' = [op |-> call[d].op, key |-> call[d].key, given |-> call[d].value,
                found |-> call[d].found, outcome |-> outcome, value |-> value,
                seen |-> [k \in Key |-> call[d].seen[k] \cup contents(fs, k)]]
    /\ call' = observed([call EXCEPT ![d] = Idle], fs)
    /\ creators' = IF call[d].op = "putIfAbsent" /\ outcome = "yes"
                   THEN creators \cup {d} ELSE creators
goesOn(d, fs, next) ==
    call' = observed([call EXCEPT ![d] = next], fs) /\ told' = None /\ UNCHANGED creators

at(d, step) == ~idle(d) /\ call[d].at = step
to(d, step) == [call[d] EXCEPT !.at = step, !.tries = 0]
own == <<cachedFolderId, fileIdCache, readHint>>

-----------------------------------------------------------------------------
(* The requests' side (withRetry, withTimeout).                              *)

(* The request whose effect is `after` fails: it never came, or it was done  *)
(* and its answer lost. It is sent again, or the call throws.                *)
failsWith(d, fs) ==
    /\ faults < MaxFaults /\ faults' = faults + 1
    /\ files' = fs
    /\ IF call[d].tries < Tries
       THEN goesOn(d, fs, [call[d] EXCEPT !.tries = @ + 1])
       ELSE answered(d, fs, "error", None)
    /\ UNCHANGED <<backend, nextId, calls, late>> /\ UNCHANGED own

Fails(d) == ~idle(d) /\ ~at(d, "prime") /\ failsWith(d, files)

(* What the write of this step leaves on the server.                         *)
overwritten(fs, c) ==
    {f \in fs : f.name # c.key} \cup {file(0, c.key, 100, c.value)}
removed(fs, c) == {f \in fs : f.name # c.key}
patched(fs, c) == {IF f.id = c.id THEN [f EXCEPT !.value = c.value] ELSE f : f \in fs}

(* The write of a step, and whether it may be done twice.                    *)
effects(d) ==
    LET c == call[d]
    IN  CASE c.at = "ask" /\ c.op = "put" -> {overwritten(files, c)}
          [] c.at = "ask" /\ c.op = "putIfAbsent" /\ named(files, c.key) = {} -> {overwritten(files, c)}
          [] c.at = "ask" /\ c.op = "delete" -> {removed(files, c)}
          [] c.at = "act" /\ c.id # None /\ c.op = "put" -> {patched(files, c)}
          [] c.at = "act" /\ c.id # None /\ c.op = "delete" -> {{f \in files : f.id # c.id}}
          [] c.at \in {"mkcol"} -> {files \cup {file(100, Folder, None, None)}}
          [] OTHER -> {}

AnswerLost(d) == ~idle(d) /\ \E fs \in effects(d) : failsWith(d, fs)

(* The sender stops waiting (withTimeout) and the write is done later: of an *)
(* object, which is written once. (Done late, a manifest replaces a newer.)  *)
TimesOut(d) ==
    /\ at(d, "ask") /\ call[d].op = "put" /\ faults < MaxFaults
    /\ call[d].key = "object"
    /\ faults' = faults + 1
    /\ late' = late \cup {[key |-> call[d].key, value |-> call[d].value]}
    /\ IF call[d].tries < Tries
       THEN goesOn(d, files, [call[d] EXCEPT !.tries = @ + 1])
       ELSE answered(d, files, "error", None)
    /\ UNCHANGED <<backend, files, nextId, calls>> /\ UNCHANGED own

LateWrite ==
    /\ \E w \in late :
          LET fs == overwritten(files, w)
          IN  /\ late' = late \ {w} /\ files' = fs
              /\ call' = observed(call, fs)
    /\ told' = None
    /\ UNCHANGED <<backend, nextId, creators, calls, faults>> /\ UNCHANGED own

-----------------------------------------------------------------------------
(* S3 and WebDAV (s3-store.ts, webdav.ts): one request each, and a           *)
(* collection made before the first write into it (ensureParentDir).         *)

MakeCollection(d) ==
    /\ at(d, "mkcol")
    /\ files' = files \cup {file(100, Folder, None, None)}
    /\ cachedFolderId' = [cachedFolderId EXCEPT ![d] = 100]
    /\ goesOn(d, files', to(d, "ask"))
    /\ UNCHANGED <<backend, late, nextId, fileIdCache, readHint, calls, faults>>

reply(d) ==
    LET c == call[d]
        there == named(files, c.key) # {}
        value == CHOOSE v \in contents(files, c.key) : TRUE
        yes(holds) == IF holds THEN "yes" ELSE "no"
    IN  CASE c.op = "get" -> <<"is", value>>
          [] c.op = "getIfChanged" -> IF value = c.value THEN <<"unchanged", None>> ELSE <<"is", value>>
          [] c.op = "exists" -> <<yes(there), None>>
          [] c.op = "putIfAbsent" -> <<yes(~there), None>>
          [] OTHER -> <<"done", None>>

Ask(d) ==
    /\ at(d, "ask") /\ call[d].op # "list"
    /\ files' = IF effects(d) = {} THEN files ELSE CHOOSE fs \in effects(d) : TRUE
    /\ answered(d, files', reply(d)[1], reply(d)[2])
    /\ UNCHANGED <<backend, late, nextId, calls, faults>> /\ UNCHANGED own

(* A 404 that is not the store's: S3 reads the body of it (isAbsent).        *)
(* Mutant: any 404 is an absence.                                            *)
anyAbsent(d) == backend = "s3"

isAbsent(d) == backend # "s3"

Portal(d) ==
    /\ at(d, "ask") /\ call[d].op \in {"get", "getIfChanged", "delete"}
    /\ backend = "s3" \/ "portal" \in Races
    /\ faults < MaxFaults /\ faults' = faults + 1
    /\ answered(d, files, IF ~isAbsent(d) THEN "error"
                          ELSE IF call[d].op = "delete" THEN "done" ELSE "is", None)
    /\ UNCHANGED <<backend, files, late, nextId, calls>> /\ UNCHANGED own

(* A listing takes a request per page, or per collection (listObjects).      *)
(* Mutant: a page that fails ends the listing.                               *)
shortPages(d) == {{}, call[d].pages \ {CHOOSE k \in call[d].pages : TRUE}}

nextPages(d) == {call[d].pages \ {k} : k \in {CHOOSE k \in call[d].pages : TRUE}}

listed(d, c) ==
    /\ told' = [op |-> "list", key |-> None, given |-> None, found |-> c.found,
                outcome |-> "done", value |-> None,
                seen |-> [k \in Key |-> c.seen[k] \cup contents(files, k)]]
    /\ call' = [call EXCEPT ![d] = Idle]
    /\ UNCHANGED creators

ListPage(d) ==
    /\ at(d, "ask") /\ call[d].op = "list"
    /\ LET page == {CHOOSE k \in call[d].pages : TRUE}
           here == {f \in files : f.name \in page /\
                        (backend = "drive" => f.in = cachedFolderId[d])}
       IN  /\ fileIdCache' = IF backend # "drive" THEN fileIdCache
                 ELSE [fileIdCache EXCEPT ![d] = [k \in Key |->
                     IF \E f \in here : f.name = k
                     THEN (CHOOSE f \in here : f.name = k).id ELSE @[k]]]
           /\ \E rest \in nextPages(d) :
                 LET c == [call[d] EXCEPT !.found = @ \cup {f.name : f \in here},
                                          !.pages = rest, !.tries = 0]
                 IN  IF rest # {} THEN goesOn(d, files, c) ELSE listed(d, c)
    /\ UNCHANGED <<backend, files, late, nextId, cachedFolderId, readHint, calls, faults>>

-----------------------------------------------------------------------------
(* Google Drive (google-drive.ts).                                           *)

lookedUp(d, step) == [to(d, step) EXCEPT !.id = fileIdCache'[d][call[d].key]]

(* findFolder: the first of that name, as Drive orders them.                 *)
FindFolder(d) ==
    /\ at(d, "folder") /\ backend = "drive"
    /\ \/ \E f \in named(files, Folder) :
             /\ cachedFolderId' = [cachedFolderId EXCEPT ![d] = f.id]
             /\ goesOn(d, files, to(d, IF call[d].op = "list" THEN "ask" ELSE "find"))
       \/ /\ named(files, Folder) = {}
          /\ goesOn(d, files, to(d, "create folder"))
          /\ UNCHANGED cachedFolderId
    /\ UNCHANGED <<backend, files, late, nextId, fileIdCache, readHint, calls, faults>>

created(name, in, value) ==
    /\ files' = files \cup {file(nextId, name, in, value)} /\ nextId' = nextId + 1

CreateFolder(d) ==
    /\ at(d, "create folder")
    /\ created(Folder, None, None)
    /\ \/ /\ cachedFolderId' = [cachedFolderId EXCEPT ![d] = nextId]
          /\ goesOn(d, files', to(d, IF call[d].op = "list" THEN "ask" ELSE "find"))
          /\ UNCHANGED faults
       \/ /\ "duplicate" \in Races /\ faults < MaxFaults /\ faults' = faults + 1
          /\ goesOn(d, files', call[d]) /\ UNCHANGED cachedFolderId
    /\ UNCHANGED <<backend, late, fileIdCache, readHint, calls>>

(* A listing before many reads (readHint): its failure is passed over.       *)
Prime(d) ==
    /\ at(d, "prime")
    /\ fileIdCache' = [fileIdCache EXCEPT ![d] = [k \in Key |->
           IF \E f \in files : f.name = k /\ f.in = cachedFolderId[d]
           THEN (CHOOSE f \in files : f.name = k /\ f.in = cachedFolderId[d]).id ELSE @[k]]]
    /\ readHint' = [readHint EXCEPT ![d] = FALSE]
    /\ goesOn(d, files, lookedUp(d, IF fileIdCache'[d][call[d].key] = None THEN "find" ELSE "act"))
    /\ UNCHANGED <<backend, files, late, nextId, cachedFolderId, calls, faults>>

PrimeFails(d) ==
    /\ at(d, "prime") /\ faults < MaxFaults /\ faults' = faults + 1
    /\ readHint' = [readHint EXCEPT ![d] = FALSE]
    /\ goesOn(d, files, to(d, "find"))
    /\ UNCHANGED <<backend, files, late, nextId, cachedFolderId, fileIdCache, calls>>

(* findFileId: an id is remembered, that there is none is not.               *)
(* Mutant: an absence is remembered as well, as id 99.                       *)
remembersAll(id) == IF id = None THEN 99 ELSE id

remembers(id) == id

Find(d) ==
    /\ at(d, "find")
    /\ \E id \in LET ids == {f.id : f \in {g \in named(files, call[d].key) : g.in = cachedFolderId[d]}}
                 IN  IF ids = {} THEN {None} ELSE ids :
           fileIdCache' = [fileIdCache EXCEPT ![d][call[d].key] = remembers(id)]
    /\ goesOn(d, files, lookedUp(d, "act"))
    /\ UNCHANGED <<backend, files, late, nextId, cachedFolderId, readHint, calls, faults>>

known(d) == {f \in files : f.id = call[d].id}
uncached(d) == [fileIdCache EXCEPT ![d][call[d].key] = None]

(* With the id, or with none.                                                *)
Read(d) ==
    /\ at(d, "act") /\ call[d].op \in {"get", "exists"}
    /\ IF call[d].op = "exists" \/ call[d].id = None
       THEN /\ answered(d, files, IF call[d].op = "get" THEN "is"
                                 ELSE IF call[d].id # None THEN "yes" ELSE "no", None)
            /\ UNCHANGED fileIdCache
       ELSE IF known(d) = {}
       THEN answered(d, files, "is", None) /\ fileIdCache' = uncached(d)
       ELSE /\ \E f \in known(d) : answered(d, files, "is", f.value)
            /\ UNCHANGED fileIdCache
    /\ UNCHANGED <<backend, files, late, nextId, cachedFolderId, readHint, calls, faults>>

(* upload, over the file of this id: gone, the server refuses.               *)
Overwrite(d) ==
    /\ at(d, "act") /\ call[d].op = "put" /\ call[d].id # None
    /\ files' = patched(files, call[d])
    /\ answered(d, files', IF known(d) = {} THEN "error" ELSE "done", None)
    /\ UNCHANGED <<backend, late, nextId, calls, faults>> /\ UNCHANGED own

(* upload, as a new file; the answer brings its id.                          *)
Create(d) ==
    /\ at(d, "act") /\ call[d].op \in {"put", "putIfAbsent"} /\ call[d].id = None
    /\ created(call[d].key, cachedFolderId[d], call[d].value)
    /\ \/ /\ fileIdCache' = [fileIdCache EXCEPT ![d][call[d].key] = nextId]
          /\ answered(d, files', IF call[d].op = "put" THEN "done" ELSE "yes", None)
          /\ UNCHANGED faults
       \/ /\ "duplicate" \in Races /\ faults < MaxFaults /\ faults' = faults + 1
          /\ goesOn(d, files', call[d]) /\ UNCHANGED fileIdCache
    /\ UNCHANGED <<backend, late, cachedFolderId, readHint, calls>>

Exists(d) ==
    /\ at(d, "act") /\ call[d].op = "putIfAbsent" /\ call[d].id # None
    /\ answered(d, files, "no", None)
    /\ UNCHANGED <<backend, files, late, nextId, calls, faults>> /\ UNCHANGED own

Delete(d) ==
    /\ at(d, "act") /\ call[d].op = "delete"
    /\ files' = {f \in files : call[d].id = None \/ f.id # call[d].id}
    /\ fileIdCache' = uncached(d)
    /\ answered(d, files', "done", None)
    /\ UNCHANGED <<backend, late, nextId, cachedFolderId, readHint, calls, faults>>

TNext ==
    \/ LateWrite
    \/ \E d \in Device :
          \/ Start(d) \/ PrepareReads(d)
          \/ Fails(d) \/ AnswerLost(d) \/ TimesOut(d) \/ Portal(d)
          \/ MakeCollection(d) \/ Ask(d) \/ ListPage(d)
          \/ FindFolder(d) \/ CreateFolder(d) \/ Prime(d)
          \/ PrimeFails(d) \/ Find(d)
          \/ Read(d) \/ Overwrite(d) \/ Create(d) \/ Exists(d) \/ Delete(d)

-----------------------------------------------------------------------------
(* Properties.                                                               *)

(* An answer was true at some moment of its call, whatever failed and was    *)
(* sent again: an outage or a stale id never reads as an absence, a listing  *)
(* misses nothing that was there throughout, and what was written was there  *)
(* (types.ts: "null only when genuinely absent").                            *)
AnswersAreTrue ==
    (IF told = None THEN FALSE ELSE told.outcome # "error") =>
        LET seen(k) == told.seen[k]
            was(k) == seen(k) # {None}
        IN  CASE told.outcome = "is" -> told.value \in seen(told.key)
              [] told.outcome = "unchanged" -> told.given \in seen(told.key)
              [] told.op = "exists" -> IF told.outcome = "yes" THEN was(told.key) ELSE None \in seen(told.key)
              [] told.op = "putIfAbsent" ->
                     IF told.outcome = "yes" THEN told.given \in seen(told.key) ELSE was(told.key)
              [] told.op = "put" -> told.given \in seen(told.key)
              [] told.op = "delete" -> None \in seen(told.key)
              [] OTHER -> \A k \in Key : IF k \in told.found THEN was(k) ELSE None \in seen(k)

(* No two devices believe they made the keyfile of one store, and a name has *)
(* one file, in one folder: else devices would read different heads.         *)
OneOfAName ==
    /\ Cardinality(creators) <= 1
    /\ \A name \in Key \cup {Folder} : Cardinality(named(files, name)) <= 1

StoresSafe == AnswersAreTrue /\ OneOfAName
=============================================================================
