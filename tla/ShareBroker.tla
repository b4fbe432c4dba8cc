----------------------------- MODULE ShareBroker -----------------------------
(* How a participant of a shared folder reaches the owner's bucket: the      *)
(* relay presigns a URL for each request (relay share/broker.ts, key.ts,     *)
(* sigv4.ts), in batches when many transfers are announced, and the URLs are *)
(* kept and spent one by one (storage/adapters/share-broker.ts,              *)
(* share-signed-urls.ts).  Time is counted in the client's patience with a   *)
(* URL; the relay signs for twice that.                                      *)
EXTENDS Naturals, Sequences, SequencesExt, FiniteSets

CONSTANTS
    Key,          \* names of objects, as sequences of path segments
    Hints,        \* the lists of keys a transfer announces
    Worker, None,
    BatchMax,     \* SIGN_BATCH_MAX
    MaxTime, MaxExpects, MaxRequests, MaxFaults, MaxOwner

VARIABLES
    role,         \* of the participant's token: "rw", "ro", or None once revoked
    storage,      \* the bucket the owner registered, or None
    urls,         \* each method's ShareSignedUrls: pending, prepared, failed
    batches,      \* the signing requests sent for lists of keys
    work,         \* each worker's request
    bucket,       \* what the participant's requests wrote or removed
    now, expects, requests, faults, owner
bvars == <<role, storage, urls, batches, work, bucket, now, expects, requests,
           faults, owner>>
counts == <<now, expects, requests, faults, owner>>

Hinted == {"GET", "PUT"}
Method == Hinted \cup {"DELETE"}

(* assertSafeKey: the leading segments name something, the last is not "."   *)
(* or "..".                                                                  *)
(* Mutant: only the last segment is looked at.                               *)
safeLast(key) == Last(key) \notin {".", ".."}

safeKey(key) ==
    /\ \A i \in 1..Len(key) - 1 : key[i] \notin {"", ".", ".."}
    /\ Last(key) \notin {".", ".."}

(* What a server makes of a path: "." is here and ".." one up.               *)
resolved(path) ==
    FoldLeft(LAMBDA at, segment :
                 CASE segment \in {"", "."} -> at
                   [] segment = ".." -> IF at = <<>> THEN at ELSE Front(at)
                   [] OTHER -> Append(at, segment), <<>>, path)

(* shareObjectKey, under the share's prefix.                                 *)
Base == <<"shares", "id">>
shareObjectKey(key) == Base \o key

Fresh == [pending |-> <<>>, prepared |-> [k \in Key |-> None], failed |-> FALSE]
Resting == [at |-> "idle", method |-> None, key |-> <<>>, url |-> None, batch |-> 0]

BInit ==
    /\ role \in {"rw", "ro"} /\ storage \in {1, None}
    /\ urls = [m \in Hinted |-> Fresh]
    /\ batches = <<>>
    /\ work = [w \in Worker |-> Resting]
    /\ bucket = {}
    /\ now = 0 /\ expects = 0 /\ requests = 0 /\ faults = 0 /\ owner = 0

-----------------------------------------------------------------------------
(* The relay (signObject).                                                   *)

(* presignS3, createPresigner: method, object, bucket and date are signed.   *)
presigned(method, key) ==
    [method |-> method, object |-> shareObjectKey(key), bucket |-> storage, date |-> now]

(* Mutant: the role counts for requests of one key only.                     *)
mayAskAlone(method, batched) == role = "rw" \/ method = "GET" \/ batched

mayAsk(method, batched) == role = "rw" \/ method = "GET"

(* In the order of the checks: the token, its role, the storage, the keys.   *)
refusal(method, keys, batched) ==
    CASE role = None -> "unauthorized"
      [] ~mayAsk(method, batched) -> "read_only"
      [] storage = None -> "storage_not_registered"
      [] \E key \in keys : ~safeKey(key) -> "invalid_key"
      [] OTHER -> None

(* presignBatch: every key of the list, or none.                             *)
SignBatch(b) ==
    LET keys == batches[b].keys
    IN  /\ batches[b].at = "asked"
        /\ batches' = [batches EXCEPT
               ![b].at = "answered",
               ![b].urls = IF refusal(batches[b].method, ToSet(keys), TRUE) = None
                           THEN [i \in DOMAIN keys |-> presigned(batches[b].method, keys[i])]
                           ELSE <<>>]
    /\ UNCHANGED <<role, storage, urls, work, bucket, counts>>

-----------------------------------------------------------------------------
(* The participant's URLs (ShareSignedUrls).                                 *)

(* expect: what was pending or prepared is given up.                         *)
Expect(m) ==
    /\ expects < MaxExpects /\ expects' = expects + 1
    /\ \E hint \in Hints : urls' = [urls EXCEPT ![m] = [Fresh EXCEPT !.pending = hint]]
    /\ UNCHANGED <<role, storage, batches, work, bucket, now, requests, faults, owner>>

(* fill: the next keys of the list, from the one asked for.                  *)
batchFrom(pending, key) ==
    LET rest == SubSeq(pending, IndexFirstSubSeq(<<key>>, pending), Len(pending))
    IN  SubSeq(rest, 1, IF Len(rest) < BatchMax THEN Len(rest) ELSE BatchMax)

(* Mutant: the keys of a batch stay pending.                                 *)
leftPending(pending, batch) == pending

left(pending, batch) == SelectSeq(pending, LAMBDA k : k \notin ToSet(batch))

fills(m, key) ==
    /\ urls[m].prepared[key] = None
    /\ ~urls[m].failed /\ key \in ToSet(urls[m].pending)

(* take: the URL for the key, once; without one, the request is signed alone.*)
taken(w, method, key) ==
    IF method \notin Hinted
    THEN /\ work' = [work EXCEPT ![w] =
                [Resting EXCEPT !.at = "alone", !.method = method, !.key = key]]
         /\ UNCHANGED <<urls, batches>>
    ELSE LET u == urls[method]
             batch == IF fills(method, key) THEN batchFrom(u.pending, key) ELSE <<>>
             id == IF batch # <<>> THEN Len(batches) + 1 ELSE u.prepared[key]
         IN  /\ batches' = IF batch = <<>> THEN batches
                           ELSE Append(batches, [method |-> method, keys |-> batch, from |-> now,
                                                 at |-> "asked", urls |-> <<>>])
             /\ urls' = [urls EXCEPT ![method] =
                    [@ EXCEPT !.pending = left(@, batch),
                              !.prepared = [k \in Key |->
                                  IF k = key THEN None
                                  ELSE IF k \in ToSet(batch) THEN id ELSE @[k]]]]
             /\ work' = [work EXCEPT ![w] =
                    [Resting EXCEPT !.method = method, !.key = key,
                                    !.at = IF id = None THEN "alone" ELSE "waits",
                                    !.batch = IF id = None THEN 0 ELSE id]]

Request(w) ==
    /\ work[w].at = "idle" /\ requests < MaxRequests /\ requests' = requests + 1
    /\ \E method \in Method, key \in Key : taken(w, method, key)
    /\ UNCHANGED <<role, storage, bucket, now, expects, faults, owner>>

(* A request that failed is signed anew (createSender: withRetry).           *)
Again(w) ==
    /\ work[w].at = "again" /\ taken(w, work[w].method, work[w].key)
    /\ UNCHANGED <<role, storage, bucket, counts>>

(* Mutant: a batch is as old as its answer.                                  *)
agedFromAnswer(b) == [b EXCEPT !.at = "ready", !.from = now]

received(b) == [b EXCEPT !.at = "ready"]

(* Refused or lost, a batch stands for no URL, and no other is asked for.    *)
ReceiveBatch(b) ==
    /\ batches[b].at = "answered"
    /\ batches' = [batches EXCEPT ![b] = received(@)]
    /\ urls' = IF batches[b].urls = <<>>
               THEN [urls EXCEPT ![batches[b].method].failed = TRUE] ELSE urls
    /\ UNCHANGED <<role, storage, work, bucket, counts>>

LoseBatch(b) ==
    /\ batches[b].at \in {"asked", "answered"}
    /\ faults < MaxFaults /\ faults' = faults + 1
    /\ batches' = [batches EXCEPT ![b].at = "ready", ![b].urls = <<>>]
    /\ urls' = [urls EXCEPT ![batches[b].method].failed = TRUE]
    /\ UNCHANGED <<role, storage, work, bucket, now, expects, requests, owner>>

(* The URL a worker waited for, if it came and is not too old.               *)
Take(w) ==
    LET b == batches[work[w].batch]
        i == IndexFirstSubSeq(<<work[w].key>>, b.keys)
    IN  /\ work[w].at = "waits" /\ b.at = "ready"
        /\ work' = [work EXCEPT ![w] =
               IF b.urls # <<>> /\ now - b.from <= 1
               THEN [@ EXCEPT !.at = "signed", !.url = b.urls[i], !.batch = 0]
               ELSE [@ EXCEPT !.at = "alone", !.batch = 0]]
    /\ UNCHANGED <<role, storage, urls, batches, bucket, counts>>

(* /share/sign for one key (presignObject).                                  *)
SignAlone(w) ==
    /\ work[w].at = "alone"
    /\ LET r == work[w]
       IN  work' = [work EXCEPT ![w] =
               IF refusal(r.method, {r.key}, FALSE) = None
               THEN [r EXCEPT !.at = "signed", !.url = presigned(r.method, r.key)]
               ELSE Resting]
    /\ UNCHANGED <<role, storage, urls, batches, bucket, counts>>

-----------------------------------------------------------------------------
(* The bucket, which takes a URL until it is two units old.                  *)

Send(w) ==
    LET r == work[w]
    IN  /\ r.at = "signed"
        /\ bucket' = IF r.method = "GET" THEN bucket
                     ELSE bucket \cup {resolved(r.url.object)}
        /\ work' = [work EXCEPT ![w] = Resting]
    /\ UNCHANGED <<role, storage, urls, batches, counts>>

(* No answer came, and the request may have been done.                       *)
SendFails(w) ==
    /\ work[w].at = "signed" /\ faults < MaxFaults /\ faults' = faults + 1
    /\ work' = [work EXCEPT ![w].at = "again", ![w].url = None]
    /\ UNCHANGED <<role, storage, urls, batches, bucket, now, expects, requests, owner>>

(* A signed request leaves at once.                                          *)
Tick ==
    /\ now < MaxTime /\ now' = now + 1
    /\ \A w \in Worker : work[w].at # "signed"
    /\ UNCHANGED <<role, storage, urls, batches, work, bucket, expects, requests,
                   faults, owner>>

(* The owner, at the relay (registerShare, revokeToken).                     *)
Register ==
    /\ owner < MaxOwner /\ owner' = owner + 1
    /\ storage = None /\ storage' = 1
    /\ UNCHANGED <<role, urls, batches, work, bucket, now, expects, requests, faults>>

Revoke ==
    /\ owner < MaxOwner /\ owner' = owner + 1
    /\ role # None /\ role' = None
    /\ UNCHANGED <<storage, urls, batches, work, bucket, now, expects, requests, faults>>

BNext ==
    \/ \E m \in Hinted : Expect(m)
    \/ \E b \in DOMAIN batches : SignBatch(b) \/ ReceiveBatch(b) \/ LoseBatch(b)
    \/ \E w \in Worker :
          \/ Request(w) \/ Again(w) \/ Take(w) \/ SignAlone(w) \/ Send(w) \/ SendFails(w)
    \/ Tick \/ Register \/ Revoke

-----------------------------------------------------------------------------
(* A request leaves with a URL for its own method and object that the bucket *)
(* still takes: batches, waiting and retries mix none up and outlive none.   *)
UrlIsForThis ==
    \A w \in Worker : work[w].at = "signed" =>
        LET r == work[w]
        IN  /\ r.url.method = r.method
            /\ r.url.object = shareObjectKey(r.key)
            /\ now - r.url.date <= 1

(* What a participant writes lies in its share, and a reader writes nothing. *)
StaysInItsShare ==
    \A path \in bucket :
        /\ Len(path) > Len(Base) /\ SubSeq(path, 1, Len(Base)) = Base
        /\ role # "ro"

(* While a list is announced, a key of it is signed in one batch at most.    *)
SignedInOneBatch ==
    \A m \in Hinted : \A k \in ToSet(urls[m].pending) : urls[m].prepared[k] = None

SharesSafe == UrlIsForThis /\ StaysInItsShare /\ SignedInOneBatch
=============================================================================
