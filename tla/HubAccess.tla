------------------------------ MODULE HubAccess ------------------------------
(* The relay's admission and presence on one shared folder's channel: the    *)
(* broker's tokens in a KV store that is read late (relay share/kv.ts), the  *)
(* worker that admits a socket from it (hub/access.ts), and the hub that     *)
(* keeps what was revoked, cuts sockets, and tells each socket who else is   *)
(* there (hub/core.ts, durable-object.ts, revoked.ts).                       *)
(* The documents on the channel are RoomStore's and LiveRoom's.              *)
EXTENDS Naturals, Sequences, SequencesExt

CONSTANTS
    Owner,              \* the owner's device, admitted by the relay's secret
    Guest,              \* the participant's devices
    Token,              \* the tokens issued to the one participant, 1..n
    None,
    MaxTags, MaxRequests, MaxGone, MaxDeaths

VARIABLES
    tok, pointer,       \* KV: the token records, and the participant's pointer
    lateTok, latePointer,   \* what a late read may still find there
    issued,             \* the tokens made so far
    revoked, closed,    \* the hub's own tables
    request,            \* the owner's request to the broker, at its next await
    asking,             \* per device, the grant the worker is passing on
    socket,             \* the hub's sockets by tag
    cut,                \* the tokens a finished request took away for good
    used
avars == <<tok, pointer, lateTok, latePointer, issued, revoked, closed, request,
           asking, socket, cut, used>>
kv == <<tok, pointer, lateTok, latePointer, issued>>

Device == {Owner} \cup Guest
Tags == 1..MaxTags
OwnerGrant == 0     \* unlike every token
Idle == [at |-> "idle", token |-> None]

AInit ==
    /\ tok = {} /\ pointer = None /\ lateTok = {} /\ latePointer = {}
    /\ issued = {} /\ revoked = {} /\ closed = FALSE
    /\ request = Idle
    /\ asking = [d \in Device |-> None]
    /\ socket = [t \in Tags |-> None]
    /\ cut = {}
    /\ used = [requests |-> 0, gone |-> 0, deaths |-> 0]

spend(what, max) == used[what] < max /\ used' = [used EXCEPT ![what] = @ + 1]

-----------------------------------------------------------------------------
(* The hub's sockets. A socket is open until the hub has heard of its end;   *)
(* its device may be gone before that.                                       *)

open == {t \in Tags : socket[t] # None /\ socket[t].at = "open"}
(* On the channel: not cut from it.                                          *)
present == {t \in open : socket[t].grant # None}
told(t, frame) == [socket[t] EXCEPT !.inbox = Append(@, frame)]

(* Mutant: a socket cut or swept is not said to have left.                   *)
goneSilently(gone, cuts) == [t \in Tags |-> IF t \in gone THEN cuts[t] ELSE socket[t]]

(* Every socket in `gone` leaves the channel; the others are told.           *)
announced(gone, cuts) ==
    [t \in Tags |->
        IF t \in gone THEN cuts[t]
        ELSE IF t \in present
        THEN [socket[t] EXCEPT !.inbox = @ \o SetToSeq({<<"leave", g>> : g \in gone \cap present})]
        ELSE socket[t]]

(* Cut from its only channel here, the socket is closed as well.             *)
Ended == [at |-> "ended", device |-> None, grant |-> None, up |-> FALSE, sees |-> {}, inbox |-> <<>>]
leave(gone) == socket' = announced(gone, [t \in Tags |-> Ended])
drop(gone) == leave(gone)

(* Mutant: the hub cuts what is open and keeps no record of it.              *)
cutOnly(t) == UNCHANGED revoked

remembered(t) == revoked' = revoked \cup {t}

dropGrant(t) == remembered(t) /\ drop({s \in present : socket[s].grant = t})

-----------------------------------------------------------------------------
(* The owner's requests (saveToken, revokeParticipant, endShare) and a       *)
(* participant's leaving, one await a step; a request may die between two.   *)

goTo(at, t) == request' = [at |-> at, token |-> t]

Invite ==
    /\ request = Idle /\ spend("requests", MaxRequests)
    /\ \E t \in Token \ issued :
          /\ \A u \in Token \ issued : t <= u
          /\ issued' = issued \cup {t}
          /\ goTo(IF pointer = None THEN "putTok" ELSE "dropOld", t)
    /\ UNCHANGED <<tok, pointer, lateTok, latePointer, revoked, closed, asking, socket, cut>>

DropOld ==
    /\ request.at \in {"dropOld", "dropTok", "dropHeld"} /\ request.token # None
    /\ LET t == IF request.at = "dropOld" THEN pointer ELSE request.token
       IN  /\ dropGrant(t)
           /\ request' = [request EXCEPT !.at = CASE @ = "dropOld" -> "deleteOld"
                                                  [] @ = "dropTok" -> "deleteTok"
                                                  [] OTHER -> "deleteHeld"]
    /\ UNCHANGED <<kv, closed, asking, cut, used>>

DeleteOld ==
    /\ request.at \in {"deleteOld", "deleteTok", "deleteHeld"}
    /\ LET t == IF request.at = "deleteOld" THEN pointer ELSE request.token
       IN  tok' = tok \ {t} /\ lateTok' = lateTok \cup (tok \cap {t})
    /\ request' = [request EXCEPT !.at = CASE @ = "deleteOld" -> "putTok"
                                           [] @ = "deleteTok" -> "deletePointer"
                                           [] OTHER -> "deleteOwnPointer"]
    /\ UNCHANGED <<pointer, latePointer, issued, revoked, closed, asking, socket, cut, used>>

PutTok ==
    /\ request.at = "putTok"
    /\ tok' = tok \cup {request.token}
    /\ goTo("putPointer", request.token)
    /\ UNCHANGED <<pointer, lateTok, latePointer, issued, revoked, closed, asking, socket, cut, used>>

setPointer(t) == pointer' = t /\ latePointer' = latePointer \cup {pointer}

PutPointer ==
    /\ request.at = "putPointer"
    /\ setPointer(request.token)
    /\ cut' = cut \cup (issued \ {request.token})
    /\ request' = Idle
    /\ UNCHANGED <<tok, lateTok, issued, revoked, closed, asking, socket, used>>

(* Revoked by the owner; or every participant when the share ends.           *)
Revoke ==
    /\ request = Idle /\ pointer # None /\ spend("requests", MaxRequests)
    /\ goTo("dropTok", pointer)
    /\ UNCHANGED <<kv, revoked, closed, asking, socket, cut>>

DeletePointer ==
    /\ request.at \in {"deletePointer", "deleteOwnPointer"}
    /\ IF request.at = "deletePointer" \/ pointer = request.token
       THEN setPointer(None) ELSE UNCHANGED <<pointer, latePointer>>
    /\ cut' = cut \cup (IF request.at = "deletePointer" THEN issued ELSE {request.token})
    /\ request' = Idle
    /\ UNCHANGED <<tok, lateTok, issued, revoked, closed, asking, socket, used>>

(* A participant leaves: only the token it holds goes.                       *)
Leave ==
    /\ request = Idle /\ spend("requests", MaxRequests)
    /\ \E t \in tok : t = pointer /\ goTo("dropHeld", t)
    /\ UNCHANGED <<kv, revoked, closed, asking, socket, cut>>

(* The share ends, its participants revoked before: the channel is shut.     *)
EndShare ==
    /\ request = Idle /\ pointer = None /\ ~closed /\ spend("requests", MaxRequests)
    /\ closed' = TRUE
    /\ drop(present)
    /\ UNCHANGED <<kv, revoked, request, asking, cut>>

(* The worker dies, or one of its calls fails: the caller is told.           *)
RequestDies ==
    /\ request # Idle /\ spend("deaths", MaxDeaths)
    /\ request' = Idle
    /\ UNCHANGED <<kv, revoked, closed, asking, socket, cut>>

(* KV catches up everywhere; only well past that, and past any request or    *)
(* admission under way, is a revocation forgotten.                           *)
KvSettles ==
    /\ lateTok # {} \/ latePointer # {}
    /\ lateTok' = {} /\ latePointer' = {}
    /\ UNCHANGED <<tok, pointer, issued, revoked, closed, request, asking, socket, cut, used>>

Forget ==
    /\ revoked # {} /\ request = Idle /\ lateTok = {} /\ latePointer = {}
    /\ \A d \in Device : asking[d] = None
    /\ revoked' = {}
    /\ UNCHANGED <<kv, closed, request, asking, socket, cut, used>>

-----------------------------------------------------------------------------
(* Connecting: the worker admits (grantFor, shareGrantOf), the hub accepts.  *)

live(t) == t \in tok \cup lateTok /\ t \in {pointer} \cup latePointer

Ask(d) ==
    /\ asking[d] = None
    /\ \E t \in Tags : socket[t] = None
    /\ \E grant \in IF d = Owner THEN {OwnerGrant} ELSE {t \in issued : live(t)} :
          asking' = [asking EXCEPT ![d] = grant]
    /\ UNCHANGED <<kv, revoked, closed, request, socket, cut, used>>

refused(grant) == closed \/ grant \in revoked

Accept(d) ==
    LET grant == asking[d]
        tag == CHOOSE t \in Tags : socket[t] = None /\ \A u \in Tags : socket[u] = None => t <= u
    IN  /\ grant # None /\ \E t \in Tags : socket[t] = None
        /\ asking' = [asking EXCEPT ![d] = None]
        /\ socket' = IF refused(grant) THEN socket
                     ELSE [t \in Tags |->
                              IF t = tag
                              THEN [at |-> "open", device |-> d, grant |-> grant, up |-> TRUE, sees |-> {},
                                    inbox |-> SetToSeq({<<"here", u>> : u \in present})]
                              ELSE IF t \in present THEN told(t, <<"join", tag>>) ELSE socket[t]]
        /\ UNCHANGED <<kv, revoked, closed, request, cut, used>>

(* A frame reaches the device: it lists who the hub vouches for.             *)
Hear(t) ==
    /\ socket[t] # None /\ socket[t].up /\ socket[t].inbox # <<>>
    /\ LET frame == Head(socket[t].inbox)
           sees == CASE frame[1] \in {"here", "join"} -> socket[t].sees \cup {frame[2]}
                     [] OTHER -> socket[t].sees \ {frame[2]}
       IN  socket' = [socket EXCEPT ![t].inbox = Tail(@), ![t].sees = sees]
    /\ UNCHANGED <<kv, revoked, closed, request, asking, cut, used>>

Close(t) ==
    /\ t \in open /\ socket[t].up /\ spend("gone", MaxGone)
    /\ leave({t})
    /\ UNCHANGED <<kv, revoked, closed, request, asking, cut>>

(* The device is gone and its socket does not say so; the sweep finds it.    *)
Vanish(t) ==
    /\ t \in open /\ socket[t].up /\ spend("gone", MaxGone)
    /\ socket' = [socket EXCEPT ![t].up = FALSE, ![t].inbox = <<>>]
    /\ UNCHANGED <<kv, revoked, closed, request, asking, cut>>

Sweep ==
    LET ghosts == {t \in open : ~socket[t].up}
    IN  /\ ghosts # {}
        /\ leave(ghosts)
        /\ UNCHANGED <<kv, revoked, closed, request, asking, cut, used>>

ANext ==
    \/ Invite \/ DropOld \/ DeleteOld \/ PutTok \/ PutPointer \/ Revoke \/ DeletePointer
    \/ Leave \/ EndShare \/ RequestDies \/ KvSettles \/ Forget
    \/ \E d \in Device : Ask(d) \/ Accept(d)
    \/ \E t \in Tags : Hear(t) \/ Close(t) \/ Vanish(t)
    \/ Sweep

-----------------------------------------------------------------------------
(* Properties.                                                               *)

(* Once a request that takes tokens away has ended well, no socket is on the *)
(* channel by one of them, nor gets there later: not one admitted by a late  *)
(* read, not one whose cut failed half-way before it was asked for again     *)
(* (revoked.ts: "refuses what the worker may admit"; kv.ts, dropToken).      *)
RevokedIsCut ==
    /\ \A t \in present : socket[t].grant \notin cut
    /\ closed => present = {}

(* A device that has heard everything sees exactly who is on the channel.    *)
SeesWhoIsThere ==
    \A t \in present : (socket[t].up /\ socket[t].inbox = <<>>) => socket[t].sees = present \ {t}
=============================================================================
