------------------------------- MODULE HubLink -------------------------------
(* One device's socket to a relay (hub/link.ts) and what it says of each     *)
(* space on it (hub/connection.ts): opened, lost, found silent, refused, and *)
(* opened again by a backoff, by the app waking up or for a revoked space;   *)
(* replaced whenever the settings change what it carries.                    *)
EXTENDS Naturals, Sequences

CONSTANTS
    Space,              \* the spaces whose channels one relay carries
    None,
    MaxSockets, MaxSettings, MaxFlips, MaxLosses,
    Retries, UnauthorizedRetries

VARIABLES
    wanted,         \* per space: carried by the route the settings give
    key,            \* the route's key, bumped by what must reconnect; 0 for no route
    link,           \* the HubLink in place, or None
    socket,         \* every socket made, by number
    admits,         \* per space, whether the relay accepts its token
    told,           \* per space, the last onConnectionChange its listeners had
    retries,        \* per space, the reconnects its revocation has had
    timers,         \* the spaces with a pending retry of a revocation
    used
lvars == <<wanted, key, link, socket, admits, told, retries, timers, used>>

Sockets == 1..MaxSockets
NoSocket == [at |-> "none", inbox |-> <<>>, slots |-> {}]

LInit ==
    /\ wanted = [s \in Space |-> FALSE] /\ key = 0
    /\ link = None
    /\ socket = [n \in Sockets |-> NoSocket]
    /\ admits \in [Space -> BOOLEAN]
    /\ told = [s \in Space |-> FALSE]
    /\ retries = [s \in Space |-> 0] /\ timers = {}
    /\ used = [settings |-> 0, flips |-> 0, losses |-> 0]

spend(what, max) == used[what] < max /\ used' = [used EXCEPT ![what] = @ + 1]

carried == {s \in Space : wanted[s]}
unmade == {n \in Sockets : socket[n].at = "none"}
NewLink(carries) ==
    [carries |-> carries, ws |-> None, status |-> "connecting", opening |-> TRUE,
     timer |-> FALSE, ping |-> FALSE, refusals |-> 0, revoked |-> {}]
connected(l) == l.ws # None /\ socket[l.ws].at = "open"
connecting(l) == l.opening \/ (l.ws # None /\ socket[l.ws].at = "connecting")

(* What every status display reads (relayStatus).                            *)
statusOf(s) ==
    IF link = None \/ s \notin link.carries THEN "no-relay"
    ELSE IF s \in link.revoked THEN "unauthorized" ELSE link.status

tellAll(l, up) == [s \in Space |-> IF s \in l.carries THEN up ELSE told[s]]
(* Closed by this side: its events are ignored from now.                     *)
closed(n) == IF n = None THEN socket ELSE [socket EXCEPT ![n] = [NoSocket EXCEPT !.at = "closed"]]

-----------------------------------------------------------------------------
(* The link (HubLink).                                                       *)

(* cleanup: the socket is dropped with its timers.                           *)
cleaned(l) == [l EXCEPT !.ws = None, !.timer = FALSE, !.ping = FALSE]

(* Mutant: the backoff is set before the cleanup, which stops it.            *)
loseSwapped(l, refusal) == [cleaned(l) EXCEPT !.status = IF refusal THEN "unauthorized" ELSE "offline"]

(* Down from now; it comes back by the backoff unless refused for good.      *)
lose(l, refusal) ==
    [cleaned(l) EXCEPT !.status = IF refusal THEN "unauthorized" ELSE "offline", !.timer = ~refusal]

(* Mutant: a reconnected link still holds what the last socket was refused.  *)
keptRevoked(l) == l.revoked

(* A new socket is admitted afresh (setConnected).                           *)
afresh(l) == {}

hears(l, up) ==
    /\ link' = [l EXCEPT !.revoked = afresh(l)]
    /\ told' = tellAll(l, up)

(* openSocket once its channels are derived: one open at a time.             *)
Open ==
    /\ link # None /\ link.opening /\ unmade # {}
    /\ LET n == CHOOSE m \in unmade : \A k \in unmade : m <= k
       IN  /\ socket' = [closed(link.ws) EXCEPT
                            ![n] = [at |-> "connecting", inbox |-> <<>>, slots |-> link.carries]]
           /\ link' = [cleaned(link) EXCEPT !.opening = FALSE, !.ws = n]
    /\ UNCHANGED <<wanted, key, admits, told, retries, timers, used>>

(* The address or the channels cannot be made out: nothing retries by itself.*)
OpenFails ==
    /\ link # None /\ link.opening /\ spend("losses", MaxLosses)
    /\ hears([link EXCEPT !.opening = FALSE, !.status = "broken"], FALSE)
    /\ UNCHANGED <<wanted, key, socket, admits, retries, timers>>

startOpen(l) == [l EXCEPT !.opening = TRUE, !.timer = FALSE]

Backoff ==
    /\ link # None /\ link.timer
    /\ link' = IF link.opening THEN [link EXCEPT !.timer = FALSE] ELSE startOpen(link)
    /\ UNCHANGED <<wanted, key, socket, admits, told, retries, timers, used>>

(* Back online, or the window shown again.                                   *)
Wake ==
    /\ link # None /\ ~connected(link) /\ ~connecting(link)
    /\ link' = startOpen(link)
    /\ UNCHANGED <<wanted, key, socket, admits, told, retries, timers, used>>

(* The relay accepts the socket, refusing the slots it does not admit, or    *)
(* closes it at once when it admits none; or it cannot be reached.           *)
RelayAccepts(n) ==
    LET refused == {s \in socket[n].slots : ~admits[s]}
    IN  /\ socket[n].at = "connecting"
        /\ \/ /\ refused # socket[n].slots
              /\ \E order \in {q \in UNION {[1..k -> refused] : k \in 0..2} :
                                  /\ \A i, j \in DOMAIN q : i # j => q[i] # q[j]
                                  /\ {q[i] : i \in DOMAIN q} = refused} :
                    socket' = [socket EXCEPT ![n].at = "opened", ![n].inbox = order]
              /\ UNCHANGED used
           \/ /\ refused = socket[n].slots
              /\ socket' = [socket EXCEPT ![n].at = "unauthorized"] /\ UNCHANGED used
           \/ /\ spend("losses", MaxLosses)
              /\ socket' = [socket EXCEPT ![n].at = "lost"]
        /\ UNCHANGED <<wanted, key, link, admits, told, retries, timers>>

mine(n) == link # None /\ link.ws = n

(* The open event.                                                           *)
Opened(n) ==
    /\ socket[n].at = "opened" /\ mine(n)
    /\ socket' = [socket EXCEPT ![n].at = "open"]
    /\ hears([link EXCEPT !.status = "connected", !.ping = TRUE], TRUE)
    /\ UNCHANGED <<wanted, key, admits, retries, timers, used>>

(* The close event: the last word of a refused or lost socket.               *)
Closed(n) ==
    LET refusals == IF socket[n].at = "unauthorized" THEN link.refusals + 1 ELSE link.refusals
    IN  /\ socket[n].at \in {"unauthorized", "lost"} /\ mine(n)
        /\ hears(lose([link EXCEPT !.refusals = refusals],
                      socket[n].at = "unauthorized" /\ refusals > UnauthorizedRetries), FALSE)
        /\ socket' = closed(n)
        /\ UNCHANGED <<wanted, key, admits, retries, timers, used>>

(* The network drops the socket: with an event, or silently until a ping     *)
(* finds nothing heard.                                                      *)
Drop(n) ==
    /\ socket[n].at = "open" /\ spend("losses", MaxLosses)
    /\ \E at \in {"lost", "silent"} : socket' = [socket EXCEPT ![n].at = at, ![n].inbox = <<>>]
    /\ UNCHANGED <<wanted, key, link, admits, told, retries, timers>>

PingFindsSilence ==
    /\ link # None /\ link.ping /\ link.ws # None /\ socket[link.ws].at = "silent"
    /\ hears(lose(link, FALSE), FALSE)
    /\ socket' = closed(link.ws)
    /\ UNCHANGED <<wanted, key, admits, retries, timers, used>>

(* Any frame, here the one that cuts a space's slot (onFrame).               *)
Revoked(n) ==
    LET s == Head(socket[n].inbox)
    IN  /\ socket[n].at = "open" /\ mine(n) /\ socket[n].inbox # <<>>
        /\ socket' = [socket EXCEPT ![n].inbox = Tail(@)]
        /\ link' = [link EXCEPT !.revoked = @ \cup {s}, !.refusals = 0]
        /\ told' = [told EXCEPT ![s] = FALSE]
        /\ IF retries[s] >= Retries THEN UNCHANGED <<retries, timers>>
           ELSE retries' = [retries EXCEPT ![s] = @ + 1] /\ timers' = timers \cup {s}
        /\ UNCHANGED <<wanted, key, admits, used>>

(* A frame of the space's own channel: its token is good.                    *)
FrameFor(s) ==
    /\ link # None /\ connected(link) /\ s \in link.carries /\ admits[s]
    /\ socket[link.ws].inbox = <<>> /\ s \notin link.revoked
    /\ retries[s] > 0 \/ link.refusals > 0
    /\ retries' = [retries EXCEPT ![s] = 0]
    /\ link' = [link EXCEPT !.refusals = 0]
    /\ UNCHANGED <<wanted, key, socket, admits, told, timers, used>>

-----------------------------------------------------------------------------
(* The connection (HubConnection).                                           *)

(* The old link goes, its listeners hear it; the new one starts to open.     *)
replace(carries) ==
    /\ link' = IF carries = {} THEN None ELSE NewLink(carries)
    /\ socket' = IF link = None THEN socket ELSE closed(link.ws)
    /\ told' = IF link = None THEN told ELSE tellAll(link, FALSE)

(* A settings write; the socket stays when its key does.                     *)
SettingsSaved ==
    /\ spend("settings", MaxSettings)
    /\ \E carries \in SUBSET Space :
          /\ wanted' = [s \in Space |-> s \in carries]
          /\ \E rekeyed \in BOOLEAN :
                IF carries = carried /\ ~rekeyed
                THEN UNCHANGED <<key, link, socket, told>>
                ELSE key' = key + 1 /\ replace(carries)
    /\ retries' = [s \in Space |-> 0]
    /\ UNCHANGED <<admits, timers>>

(* A revoked space's turn: the whole socket is made anew for it.             *)
RetryRevoked(s) ==
    /\ s \in timers /\ timers' = timers \ {s}
    /\ IF statusOf(s) = "unauthorized" /\ link # None THEN replace(carried)
       ELSE UNCHANGED <<link, socket, told>>
    /\ UNCHANGED <<wanted, key, admits, retries, used>>

(* The owner revokes or issues a token; an open socket's slot is cut at once.*)
AdmitsFlip(s) ==
    /\ spend("flips", MaxFlips)
    /\ admits' = [admits EXCEPT ![s] = ~@]
    /\ socket' = [n \in Sockets |->
          IF socket[n].at \notin {"open", "opened"} \/ ~admits[s] \/ s \notin socket[n].slots THEN socket[n]
          ELSE [socket[n] EXCEPT !.inbox = Append(@, s)]]
    /\ UNCHANGED <<wanted, key, link, told, retries, timers>>

LNext ==
    \/ Open \/ OpenFails \/ Backoff \/ Wake \/ PingFindsSilence \/ SettingsSaved
    \/ \E n \in Sockets :
          RelayAccepts(n) \/ Opened(n) \/ Closed(n) \/ Drop(n) \/ Revoked(n)
    \/ \E s \in Space : FrameFor(s) \/ RetryRevoked(s) \/ AdmitsFlip(s)

-----------------------------------------------------------------------------
(* Properties.                                                               *)

(* A space's listeners were last told what its status shows: the live rooms, *)
(* that act on what they were told, and the displays, that read the status,  *)
(* never disagree, over any order of losses, refusals and restarts.          *)
ToldIsStatus == \A s \in Space : told[s] <=> statusOf(s) = "connected"

(* A link that is not refused for good, or broken, always has something under*)
(* way that ends in a new try: an opening, a backoff, a socket whose event is*)
(* to come, or a ping that finds it silent.                                  *)
NeverStranded ==
    link # None /\ link.status \notin {"unauthorized", "broken"} =>
        \/ link.opening \/ link.timer
        \/ /\ link.ws # None /\ socket[link.ws].at \notin {"none", "closed"}
           /\ socket[link.ws].at = "silent" => link.ping
=============================================================================
