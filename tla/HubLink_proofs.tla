---------------------------- MODULE HubLink_proofs ----------------------------
(* A space's listeners were told what its status shows, and a link always    *)
(* has a try under way: for any spaces, sockets, settings and losses.        *)
EXTENDS HubLink, TLAPS, NaturalsInduction, WellFoundedInduction

States == {"none", "connecting", "opened", "open", "unauthorized", "lost", "silent", "closed"}
Statuses == {"connecting", "connected", "offline", "unauthorized", "broken"}

Socket == [at : States, inbox : Seq(Space), slots : SUBSET Space]
HubLinks ==
    [carries : SUBSET Space, ws : Sockets \cup {None}, status : Statuses, opening : BOOLEAN,
     timer : BOOLEAN, ping : BOOLEAN, refusals : Nat, revoked : SUBSET Space]

(* None is no socket's number and no link.                                   *)
LinkAssumption == MaxSockets \in Nat /\ None \notin Nat /\ None \notin HubLinks

-----------------------------------------------------------------------------
(* Types.                                                                    *)

LTypes ==
    /\ socket \in [Sockets -> Socket]
    /\ link \in HubLinks \cup {None}
    /\ told \in [Space -> BOOLEAN]
    /\ wanted \in [Space -> BOOLEAN] /\ admits \in [Space -> BOOLEAN]
    /\ retries \in [Space -> Nat] /\ timers \subseteq Space

(* A link's socket still lives for it; one that opened is pinged.            *)
SocketLives ==
    link # None /\ link.ws # None =>
        /\ socket[link.ws].at \notin {"none", "closed"}
        /\ socket[link.ws].at \in {"open", "silent"} => link.ping

LInv == LTypes /\ SocketLives /\ ToldIsStatus /\ NeverStranded

(* The start.                                                                *)
LEMMA LinkInit == ASSUME LinkAssumption, LInit PROVE LInv
<1>1. NoSocket \in Socket
  BY DEF NoSocket, Socket, States
<1> QED
  BY <1>1 DEF LInit, LInv, LTypes, SocketLives, ToldIsStatus, NeverStranded, statusOf

-----------------------------------------------------------------------------
(* The helpers.                                                              *)

(* The next socket is the first not made.                                    *)
LEMMA NextSocket ==
    ASSUME LinkAssumption, unmade # {}
    PROVE  (CHOOSE m \in unmade : \A k \in unmade : m <= k) \in unmade
<1>1. unmade \subseteq Nat
  BY DEF unmade, Sockets, LinkAssumption
<1> DEFINE R == {p \in Nat \X Nat : p[1] < p[2]}
<1>2. IsWellFoundedOn(R, Nat)
  BY NatLessThanWellFounded, Zenon DEF OpToRel
<1>3. \E m \in unmade : \A k \in unmade : ~(<<k, m>> \in R)
  <2> HIDE DEF unmade, R
  <2> QED
    BY <1>1, <1>2, WFMin
<1>4. PICK m \in unmade : \A k \in unmade : ~(<<k, m>> \in R)
  BY <1>3
<1>5. ASSUME NEW k \in unmade PROVE m <= k
  <2>1. k \in Nat /\ m \in Nat
    BY <1>1
  <2>2. ~(k < m)
    BY <1>4, <2>1
  <2> QED
    BY <2>1, <2>2
<1> QED
  BY <1>4, <1>5

(* A socket that is closed is of no use to anyone.                           *)
LEMMA ClosedSocket ==
    ASSUME LTypes, NEW n \in Sockets \cup {None}
    PROVE  /\ closed(n) \in [Sockets -> Socket]
           /\ \A k \in Sockets : k # n => closed(n)[k] = socket[k]
<1> DEFINE c == [NoSocket EXCEPT !.at = "closed"]
<1>1. c \in Socket
  <2>1. NoSocket \in Socket
    BY DEF NoSocket, Socket, States
  <2> QED
    BY <2>1 DEF Socket, States
<1> HIDE DEF c
<1>2. closed(n) = IF n = None THEN socket ELSE [socket EXCEPT ![n] = c]
  BY DEF closed, c
<1> QED
  BY <1>1, <1>2 DEF LTypes

(* What is said to every listener of a link.                                 *)
LEMMA ToldAll ==
    ASSUME LTypes, NEW l \in HubLinks, NEW up \in BOOLEAN
    PROVE  /\ tellAll(l, up) \in [Space -> BOOLEAN]
           /\ \A s \in Space : tellAll(l, up)[s] = IF s \in l.carries THEN up ELSE told[s]
BY DEF tellAll, LTypes, HubLinks

(* A link that lost its socket: the same, without one.                       *)
LEMMA LostLink ==
    ASSUME NEW l \in HubLinks, NEW refusal \in BOOLEAN
    PROVE  /\ lose(l, refusal) \in HubLinks
           /\ lose(l, refusal).carries = l.carries
           /\ lose(l, refusal).ws = None
           /\ lose(l, refusal).timer = ~refusal
           /\ lose(l, refusal).status = IF refusal THEN "unauthorized" ELSE "offline"
BY DEF lose, cleaned, HubLinks, Statuses

(* A link that is told its socket's last word keeps the invariant.           *)
LEMMA LosesWell ==
    ASSUME LinkAssumption, LInv, NEW l \in HubLinks, link # None, l.carries = link.carries,
           NEW refusal \in BOOLEAN, hears(lose(l, refusal), FALSE), NEW n \in Sockets, socket' = closed(n),
           UNCHANGED <<wanted, admits, retries, timers>>
    PROVE  LInv'
<1> DEFINE q == [lose(l, refusal) EXCEPT !.revoked = {}]
<1>1. link' = q /\ told' = tellAll(lose(l, refusal), FALSE)
  BY DEF hears, afresh
<1>2. /\ q \in HubLinks /\ q.carries = link.carries /\ q.ws = None /\ q.timer = ~refusal
      /\ q.status = IF refusal THEN "unauthorized" ELSE "offline"
  BY LostLink, ZenonT(60) DEF HubLinks
<1>3. /\ told' \in [Space -> BOOLEAN]
      /\ \A s \in Space : told'[s] = IF s \in link.carries THEN FALSE ELSE told[s]
  <2>1. PICK k : k = lose(l, refusal)
    OBVIOUS
  <2>2. k \in HubLinks /\ k.carries = link.carries
    BY <2>1, LostLink
  <2> QED
    BY <1>1, <2>1, <2>2, ToldAll DEF LInv
<1> HIDE DEF q
<1>4. LTypes'
  BY <1>1, <1>2, <1>3, ClosedSocket DEF LInv, LTypes
<1>5. SocketLives' /\ NeverStranded'
  BY <1>1, <1>2 DEF SocketLives, NeverStranded
<1>6. ToldIsStatus'
  BY <1>1, <1>2, <1>3, LinkAssumption DEF LInv, ToldIsStatus, statusOf
<1> QED
  BY <1>4, <1>5, <1>6 DEF LInv

(* A link put in the place of another, or of none.                           *)
LEMMA Replaced ==
    ASSUME LinkAssumption, LInv, NEW carries \in SUBSET Space, replace(carries),
           wanted' \in [Space -> BOOLEAN], retries' \in [Space -> Nat], timers' \subseteq Space, UNCHANGED admits
    PROVE  LInv'
<1>1. NewLink(carries) \in HubLinks
  BY DEF NewLink, HubLinks, Statuses
<1>2. link' \in HubLinks \cup {None}
  BY <1>1 DEF replace
<1>3. socket' \in [Sockets -> Socket]
  BY ClosedSocket DEF replace, LInv, LTypes, HubLinks
<1>4. told' \in [Space -> BOOLEAN] /\ \A s \in Space : told'[s] = FALSE
  <2>1. CASE link = None
    BY <2>1 DEF replace, LInv, LTypes, ToldIsStatus, statusOf
  <2>2. CASE link # None
    <3>1. \A s \in Space : s \notin link.carries => told[s] = FALSE
      BY <2>2 DEF LInv, LTypes, ToldIsStatus, statusOf
    <3> QED
      BY <2>2, <3>1, ToldAll DEF replace, LInv, LTypes
  <2> QED
    BY <2>1, <2>2
<1>5. LTypes'
  BY <1>2, <1>3, <1>4 DEF LInv, LTypes
<1>6. SocketLives' /\ NeverStranded'
  BY LinkAssumption, <1>1 DEF replace, NewLink, SocketLives, NeverStranded
<1>7. ToldIsStatus'
  BY <1>4, <1>1 DEF replace, NewLink, ToldIsStatus, statusOf
<1> QED
  BY <1>5, <1>6, <1>7 DEF LInv

-----------------------------------------------------------------------------
(* The steps.                                                                *)

(* A link of the same status says what it said.                              *)
LEMMA SameStatus ==
    ASSUME LinkAssumption, ToldIsStatus, link \in HubLinks, link' \in HubLinks, link'.carries = link.carries,
           link'.revoked = link.revoked, link'.status = link.status, told' = told
    PROVE  ToldIsStatus'
<1>1. link # None /\ link' # None
  BY DEF LinkAssumption
<1>2. \A s \in Space : told[s] <=> (s \in link.carries /\ s \notin link.revoked /\ link.status = "connected")
  BY <1>1 DEF ToldIsStatus, statusOf
<1>3. \A s \in Space : told'[s] <=> (s \in link'.carries /\ s \notin link'.revoked /\ link'.status = "connected")
  BY <1>2
<1> QED
  BY <1>1, <1>3 DEF ToldIsStatus, statusOf

(* A socket is made for the link.                                            *)
LEMMA OpenKeeps == ASSUME LinkAssumption, LInv, Open PROVE LInv'
<1> USE DEF LInv
<1>1. PICK n \in unmade :
          /\ socket' = [closed(link.ws) EXCEPT
                           ![n] = [at |-> "connecting", inbox |-> <<>>, slots |-> link.carries]]
          /\ link' = [cleaned(link) EXCEPT !.opening = FALSE, !.ws = n]
  BY NextSocket DEF Open
<1>2. n \in Sockets /\ n # None
  BY DEF unmade, Sockets, LinkAssumption
<1>3. link \in HubLinks
  BY DEF Open, LTypes
<1>4. /\ link' \in HubLinks /\ link'.carries = link.carries /\ link'.revoked = link.revoked
      /\ link'.status = link.status /\ link'.ws = n
  BY <1>1, <1>2, <1>3 DEF cleaned, HubLinks
<1>5. socket' \in [Sockets -> Socket] /\ socket'[n].at = "connecting"
  <2>1. closed(link.ws) \in [Sockets -> Socket]
    BY <1>3, ClosedSocket DEF HubLinks
  <2>2. PICK c \in [Sockets -> Socket] : c = closed(link.ws)
    BY <2>1
  <2>3. [at |-> "connecting", inbox |-> <<>>, slots |-> link.carries] \in Socket
    BY <1>3 DEF HubLinks, Socket, States
  <2> QED
    BY <1>1, <1>2, <2>2, <2>3
<1>6. LTypes'
  BY <1>4, <1>5 DEF Open, LTypes
<1>7. SocketLives' /\ NeverStranded'
  BY <1>2, <1>4, <1>5 DEF SocketLives, NeverStranded
<1>8. ToldIsStatus'
  BY <1>3, <1>4, SameStatus DEF Open
<1> QED
  BY <1>6, <1>7, <1>8

(* An opening that fails leaves the link broken.                             *)
LEMMA OpenFailsKeeps == ASSUME LinkAssumption, LInv, OpenFails PROVE LInv'
<1> USE DEF LInv
<1> DEFINE l == [link EXCEPT !.opening = FALSE, !.status = "broken"]
<1>1. link \in HubLinks /\ link # None
  BY DEF OpenFails, LTypes
<1>2. /\ l \in HubLinks /\ l.carries = link.carries /\ l.status = "broken" /\ l.ws = link.ws
      /\ l.ping = link.ping
  BY <1>1 DEF HubLinks, Statuses
<1>3. link' = [l EXCEPT !.revoked = {}] /\ told' = tellAll(l, FALSE)
  BY DEF OpenFails, hears, afresh
<1> HIDE DEF l
<1>4. /\ link' \in HubLinks /\ link'.carries = link.carries /\ link'.status = "broken"
      /\ link'.ws = link.ws /\ link'.ping = link.ping
  BY <1>2, <1>3 DEF HubLinks
<1>5. /\ told' \in [Space -> BOOLEAN]
      /\ \A s \in Space : told'[s] = IF s \in link.carries THEN FALSE ELSE told[s]
  BY <1>2, <1>3, ToldAll
<1>6. LTypes'
  BY <1>4, <1>5 DEF OpenFails, LTypes
<1>7. SocketLives' /\ NeverStranded'
  BY <1>1, <1>4 DEF OpenFails, SocketLives, NeverStranded
<1>8. ToldIsStatus'
  BY <1>1, <1>4, <1>5, LinkAssumption DEF ToldIsStatus, statusOf
<1> QED
  BY <1>6, <1>7, <1>8

(* A new try begins; nothing else changes.                                   *)
LEMMA TryKeeps == ASSUME LinkAssumption, LInv, Backoff \/ Wake PROVE LInv'
<1> USE DEF LInv
<1>1. link \in HubLinks /\ link # None
  BY DEF Backoff, Wake, LTypes
<1>2. /\ link' \in HubLinks /\ link'.carries = link.carries /\ link'.status = link.status
      /\ link'.revoked = link.revoked /\ link'.ws = link.ws /\ link'.ping = link.ping
      /\ link'.opening
  BY <1>1 DEF Backoff, Wake, startOpen, HubLinks
<1>3. UNCHANGED <<wanted, key, socket, admits, told, retries, timers>>
  BY DEF Backoff, Wake
<1>4. LTypes'
  BY <1>2, <1>3 DEF LTypes
<1>5. SocketLives' /\ NeverStranded'
  BY <1>1, <1>2, <1>3 DEF SocketLives, NeverStranded
<1>6. ToldIsStatus'
  BY <1>1, <1>2, <1>3, SameStatus
<1> QED
  BY <1>4, <1>5, <1>6

(* The relay's answer, or none: the socket waits for its event.              *)
LEMMA RelayKeeps == ASSUME LinkAssumption, LInv, NEW n \in Sockets, RelayAccepts(n) PROVE LInv'
<1> USE DEF LInv
<1>1. /\ socket' \in [Sockets -> Socket]
      /\ socket'[n].at \in {"opened", "unauthorized", "lost"}
      /\ \A k \in Sockets : k # n => socket'[k] = socket[k]
  <2> DEFINE refused == {s \in socket[n].slots : ~admits[s]}
  <2>1. socket \in [Sockets -> Socket] /\ socket[n] \in Socket
    BY DEF LTypes
  <2>2. CASE \E order \in UNION {[1..k -> refused] : k \in 0..2} :
                socket' = [socket EXCEPT ![n].at = "opened", ![n].inbox = order]
    <3>1. PICK order \in UNION {[1..k -> refused] : k \in 0..2} :
              socket' = [socket EXCEPT ![n].at = "opened", ![n].inbox = order]
      BY <2>2
    <3>2. PICK k \in 0..2 : order \in [1..k -> refused]
      <4>1. PICK F \in {[1..k -> refused] : k \in 0..2} : order \in F
        BY <3>1, Zenon
      <4> QED
        BY <4>1, Zenon
    <3>3. order \in Seq(Space)
      <4>1. refused \subseteq Space
        BY <2>1 DEF Socket
      <4>2. order \in [1..k -> Space]
        <5> HIDE DEF refused
        <5> QED
          BY <3>2, <4>1
      <4> QED
        BY <4>2
    <3>4. PICK w : w = [socket[n] EXCEPT !.at = "opened", !.inbox = order]
      OBVIOUS
    <3>5. w \in Socket /\ w.at = "opened"
      BY <2>1, <3>3, <3>4 DEF Socket, States
    <3>6. socket' = [socket EXCEPT ![n] = w]
      BY <2>1, <3>1, <3>4
    <3> QED
      BY <2>1, <3>5, <3>6
  <2>3. CASE \E at \in {"unauthorized", "lost"} : socket' = [socket EXCEPT ![n].at = at]
    <3>1. PICK at \in {"unauthorized", "lost"} : socket' = [socket EXCEPT ![n].at = at]
      BY <2>3
    <3>2. PICK w : w = [socket[n] EXCEPT !.at = at]
      OBVIOUS
    <3>3. w \in Socket /\ w.at = at
      BY <2>1, <3>2 DEF Socket, States
    <3>4. socket' = [socket EXCEPT ![n] = w]
      BY <2>1, <3>1, <3>2
    <3> QED
      BY <2>1, <3>3, <3>4
  <2> QED
    BY <2>2, <2>3 DEF RelayAccepts
<1>2. UNCHANGED <<wanted, key, link, admits, told, retries, timers>>
  BY DEF RelayAccepts
<1>3. LTypes'
  BY <1>1, <1>2 DEF LTypes
<1>4. SocketLives' /\ NeverStranded'
  <2>1. link # None /\ link.ws # None => link.ws \in Sockets
    BY DEF LTypes, HubLinks
  <2> QED
    BY <1>1, <1>2, <2>1 DEF SocketLives, NeverStranded
<1>5. ToldIsStatus'
  BY <1>2 DEF ToldIsStatus, statusOf
<1> QED
  BY <1>3, <1>4, <1>5

(* The socket opens: its spaces hear it, and pings start.                    *)
LEMMA OpenedKeeps == ASSUME LinkAssumption, LInv, NEW n \in Sockets, Opened(n) PROVE LInv'
<1> USE DEF LInv
<1> DEFINE l == [link EXCEPT !.status = "connected", !.ping = TRUE]
<1>1. link \in HubLinks /\ link # None /\ link.ws = n /\ n # None
  BY DEF Opened, mine, LTypes, Sockets, LinkAssumption
<1>2. l \in HubLinks /\ l.carries = link.carries /\ l.status = "connected" /\ l.ws = n /\ l.ping
  BY <1>1 DEF HubLinks, Statuses
<1>3. link' = [l EXCEPT !.revoked = {}] /\ told' = tellAll(l, TRUE)
  BY DEF Opened, hears, afresh
<1> HIDE DEF l
<1>4. /\ link' \in HubLinks /\ link'.carries = link.carries /\ link'.status = "connected"
      /\ link'.revoked = {} /\ link'.ws = n /\ link'.ping
  BY <1>2, <1>3 DEF HubLinks
<1>5. /\ told' \in [Space -> BOOLEAN]
      /\ \A s \in Space : told'[s] = IF s \in link.carries THEN TRUE ELSE told[s]
  BY <1>2, <1>3, ToldAll
<1>6. socket' \in [Sockets -> Socket] /\ socket'[n].at = "open"
  <2>1. socket[n] \in Socket
    BY DEF LTypes
  <2>2. PICK w : w = [socket[n] EXCEPT !.at = "open"]
    OBVIOUS
  <2>3. w \in Socket /\ w.at = "open"
    BY <2>1, <2>2 DEF Socket, States
  <2>4. socket' = [socket EXCEPT ![n] = w]
    BY <2>2 DEF Opened, LTypes
  <2> QED
    BY <2>3, <2>4 DEF LTypes
<1>7. LTypes'
  BY <1>4, <1>5, <1>6 DEF Opened, LTypes
<1>8. SocketLives' /\ NeverStranded'
  BY <1>1, <1>4, <1>6 DEF SocketLives, NeverStranded
<1>9. ToldIsStatus'
  <2>1. link' # None
    BY <1>4 DEF LinkAssumption
  <2>2. \A s \in Space : s \notin link.carries => ~told[s]
    BY <1>1 DEF ToldIsStatus, statusOf
  <2>3. \A s \in Space : told'[s] <=> s \in link'.carries
    BY <1>4, <1>5, <2>2
  <2> QED
    BY <1>4, <2>1, <2>3 DEF ToldIsStatus, statusOf
<1> QED
  BY <1>7, <1>8, <1>9

(* The socket's last word: lost, or refused.                                 *)
LEMMA ClosedKeeps == ASSUME LinkAssumption, LInv, NEW n \in Sockets, Closed(n) PROVE LInv'
<1> DEFINE refusals == IF socket[n].at = "unauthorized" THEN link.refusals + 1 ELSE link.refusals
           l == [link EXCEPT !.refusals = refusals]
           refusal == socket[n].at = "unauthorized" /\ refusals > UnauthorizedRetries
<1>1. link \in HubLinks /\ link # None
  BY DEF Closed, mine, LInv, LTypes
<1>2. refusals \in Nat
  BY <1>1 DEF HubLinks
<1>3. l \in HubLinks /\ l.carries = link.carries
  <2> HIDE DEF refusals
  <2> QED
    BY <1>1, <1>2 DEF HubLinks
<1>4. hears(lose(l, refusal), FALSE)
  BY DEF Closed
<1>5. refusal \in BOOLEAN
  OBVIOUS
<1> HIDE DEF l, refusal
<1> QED
  BY <1>1, <1>3, <1>4, <1>5, LosesWell DEF Closed

(* A ping that finds it silent.                                              *)
LEMMA SilenceKeeps == ASSUME LinkAssumption, LInv, PingFindsSilence PROVE LInv'
<1>1. link \in HubLinks /\ link # None /\ link.ws \in Sockets
  BY DEF PingFindsSilence, LInv, LTypes, HubLinks
<1> QED
  BY <1>1, LosesWell DEF PingFindsSilence

(* The network drops a socket that had opened.                               *)
LEMMA DropKeeps == ASSUME LinkAssumption, LInv, NEW n \in Sockets, Drop(n) PROVE LInv'
<1> USE DEF LInv
<1>1. PICK at \in {"lost", "silent"} : socket' = [socket EXCEPT ![n].at = at, ![n].inbox = <<>>]
  BY DEF Drop
<1>2. socket[n] \in Socket
  BY DEF LTypes
<1>3. PICK w : w = [socket[n] EXCEPT !.at = at, !.inbox = <<>>]
  OBVIOUS
<1>4. w \in Socket /\ w.at = at
  <2>1. <<>> \in Seq(Space)
    OBVIOUS
  <2> QED
    BY <1>2, <1>3, <2>1 DEF Socket, States
<1>5. socket' = [socket EXCEPT ![n] = w]
  BY <1>1, <1>3 DEF LTypes
<1>6. UNCHANGED <<wanted, key, link, admits, told, retries, timers>> /\ socket[n].at = "open"
  BY DEF Drop
<1>7. LTypes'
  BY <1>4, <1>5, <1>6 DEF LTypes
<1>8. SocketLives' /\ NeverStranded'
  <2>1. link # None /\ link.ws # None => link.ws \in Sockets
    BY DEF LTypes, HubLinks
  <2>2. socket'[n].at = at /\ \A k \in Sockets : k # n => socket'[k] = socket[k]
    BY <1>4, <1>5 DEF LTypes
  <2> QED
    BY <1>6, <2>1, <2>2 DEF SocketLives, NeverStranded
<1>9. ToldIsStatus'
  BY <1>6 DEF ToldIsStatus, statusOf
<1> QED
  BY <1>7, <1>8, <1>9

(* A space of the socket is cut off.                                         *)
LEMMA RevokedKeeps == ASSUME LinkAssumption, LInv, NEW n \in Sockets, Revoked(n) PROVE LInv'
<1> USE DEF LInv
<1> DEFINE s == Head(socket[n].inbox)
<1>1. link \in HubLinks /\ link # None /\ socket[n] \in Socket
  BY DEF Revoked, mine, LTypes
<1>2. s \in Space
  BY <1>1 DEF Revoked, Socket
<1>3. link' = [link EXCEPT !.revoked = @ \cup {s}, !.refusals = 0] /\ told' = [told EXCEPT ![s] = FALSE]
  BY DEF Revoked
<1>4. retries' \in [Space -> Nat] /\ timers' \subseteq Space
  <2> HIDE DEF s
  <2>1. CASE UNCHANGED <<retries, timers>>
    BY <2>1 DEF LTypes
  <2>2. CASE retries' = [retries EXCEPT ![s] = @ + 1] /\ timers' = timers \cup {s}
    BY <1>2, <2>2 DEF LTypes
  <2>3. UNCHANGED <<retries, timers>> \/ (retries' = [retries EXCEPT ![s] = @ + 1] /\ timers' = timers \cup {s})
    BY Zenon DEF Revoked, s
  <2> QED
    BY <2>1, <2>2, <2>3
<1>5. /\ socket' \in [Sockets -> Socket]
      /\ \A k \in Sockets : socket'[k].at = socket[k].at
  <2>1. PICK w : w = [socket[n] EXCEPT !.inbox = Tail(@)]
    OBVIOUS
  <2>2. w \in Socket /\ w.at = socket[n].at
    <3>1. socket[n].inbox # <<>>
      BY DEF Revoked
    <3>2. Tail(socket[n].inbox) \in Seq(Space)
      BY <1>1, <3>1 DEF Socket
    <3> QED
      BY <1>1, <2>1, <3>2 DEF Socket
  <2>3. socket' = [socket EXCEPT ![n] = w]
    BY <2>1 DEF Revoked, LTypes
  <2> QED
    BY <2>2, <2>3 DEF LTypes
<1> HIDE DEF s
<1>6. /\ link' \in HubLinks /\ link'.carries = link.carries /\ link'.status = link.status
      /\ link'.revoked = link.revoked \cup {s} /\ link'.ws = link.ws /\ link'.ping = link.ping
      /\ link'.opening = link.opening /\ link'.timer = link.timer
  BY <1>1, <1>2, <1>3 DEF HubLinks
<1>7. LTypes'
  BY <1>2, <1>3, <1>4, <1>5, <1>6 DEF Revoked, LTypes
<1>8. SocketLives' /\ NeverStranded'
  <2>1. link.ws # None => link.ws \in Sockets
    BY <1>1 DEF HubLinks
  <2> QED
    BY <1>1, <1>5, <1>6, <2>1 DEF SocketLives, NeverStranded
<1>9. ToldIsStatus'
  <2>1. link' # None
    BY <1>6 DEF LinkAssumption
  <2>2. \A x \in Space : told[x] <=> (x \in link.carries /\ x \notin link.revoked /\ link.status = "connected")
    BY <1>1 DEF ToldIsStatus, statusOf
  <2>3. \A x \in Space : told'[x] <=> (x \in link'.carries /\ x \notin link'.revoked /\ link'.status = "connected")
    BY <1>2, <1>3, <1>6, <2>2 DEF LTypes
  <2> QED
    BY <2>1, <2>3 DEF ToldIsStatus, statusOf
<1> QED
  BY <1>7, <1>8, <1>9

(* A frame of a space's own channel only resets counts.                      *)
LEMMA FrameKeeps == ASSUME LinkAssumption, LInv, NEW s \in Space, FrameFor(s) PROVE LInv'
<1> USE DEF LInv
<1>1. link \in HubLinks /\ link # None
  BY DEF FrameFor, LTypes
<1>2. /\ link' \in HubLinks /\ link'.carries = link.carries /\ link'.status = link.status
      /\ link'.revoked = link.revoked /\ link'.ws = link.ws /\ link'.ping = link.ping
      /\ link'.opening = link.opening /\ link'.timer = link.timer
  BY <1>1 DEF FrameFor, HubLinks
<1>3. UNCHANGED <<wanted, key, socket, admits, told, timers>> /\ retries' \in [Space -> Nat]
  BY DEF FrameFor, LTypes
<1>4. LTypes'
  BY <1>2, <1>3 DEF LTypes
<1>5. SocketLives' /\ NeverStranded'
  BY <1>1, <1>2, <1>3 DEF SocketLives, NeverStranded
<1>6. ToldIsStatus'
  BY <1>1, <1>2, <1>3, SameStatus
<1> QED
  BY <1>4, <1>5, <1>6

(* A settings write replaces the link, or leaves it.                         *)
LEMMA SettingsKeep == ASSUME LinkAssumption, LInv, SettingsSaved PROVE LInv'
<1>1. wanted' \in [Space -> BOOLEAN] /\ retries' \in [Space -> Nat] /\ UNCHANGED <<admits, timers>>
  BY DEF SettingsSaved
<1>2. PICK carries \in SUBSET Space : UNCHANGED <<link, socket, told>> \/ replace(carries)
  BY DEF SettingsSaved
<1>3. CASE UNCHANGED <<link, socket, told>>
  BY <1>1, <1>3 DEF LInv, LTypes, SocketLives, NeverStranded, ToldIsStatus, statusOf
<1>4. CASE replace(carries)
  BY <1>1, <1>4, Replaced DEF LInv, LTypes
<1> QED
  BY <1>2, <1>3, <1>4

(* A revoked space's turn replaces the link, or does nothing.                *)
LEMMA RetryKeeps == ASSUME LinkAssumption, LInv, NEW s \in Space, RetryRevoked(s) PROVE LInv'
<1>1. UNCHANGED <<wanted, key, admits, retries>> /\ timers' \subseteq Space
  BY DEF RetryRevoked, LInv, LTypes
<1>2. carried \in SUBSET Space
  BY DEF carried
<1>3. CASE UNCHANGED <<link, socket, told>>
  BY <1>1, <1>3 DEF LInv, LTypes, SocketLives, NeverStranded, ToldIsStatus, statusOf
<1>4. CASE replace(carried)
  BY <1>1, <1>2, <1>4, Replaced DEF LInv, LTypes
<1> QED
  BY <1>3, <1>4 DEF RetryRevoked

(* A token revoked or issued: no socket changes its state.                   *)
LEMMA FlipKeeps == ASSUME LinkAssumption, LInv, NEW s \in Space, AdmitsFlip(s) PROVE LInv'
<1> USE DEF LInv
<1>1. /\ socket' \in [Sockets -> Socket]
      /\ \A k \in Sockets : socket'[k].at = socket[k].at
  <2>1. ASSUME NEW w \in Socket
        PROVE  LET q == [w EXCEPT !.inbox = Append(@, s)] IN q \in Socket /\ q.at = w.at
    <3>1. Append(w.inbox, s) \in Seq(Space)
      BY DEF Socket
    <3> QED
      BY <3>1 DEF Socket
  <2> QED
    BY <2>1 DEF AdmitsFlip, LTypes
<1>2. UNCHANGED <<wanted, key, link, told, retries, timers>> /\ admits' \in [Space -> BOOLEAN]
  BY DEF AdmitsFlip, LTypes
<1>3. LTypes'
  BY <1>1, <1>2 DEF LTypes
<1>4. SocketLives' /\ NeverStranded'
  <2>1. link # None /\ link.ws # None => link.ws \in Sockets
    BY DEF LTypes, HubLinks
  <2> QED
    BY <1>1, <1>2, <2>1 DEF SocketLives, NeverStranded
<1>5. ToldIsStatus'
  BY <1>2 DEF ToldIsStatus, statusOf
<1> QED
  BY <1>3, <1>4, <1>5

(* Any step of the connection's.                                             *)
LEMMA LinkStep == ASSUME LinkAssumption, LInv, LNext PROVE LInv'
BY OpenKeeps, OpenFailsKeeps, TryKeeps, SilenceKeeps, SettingsKeep, RelayKeeps, OpenedKeeps, ClosedKeeps,
   DropKeeps, RevokedKeeps, FrameKeeps, RetryKeeps, FlipKeeps DEF LNext

(* And a step of anything else.                                              *)
LEMMA LinkStutters == LInv /\ UNCHANGED lvars => LInv'
BY DEF lvars, LInv, LTypes, SocketLives, NeverStranded, ToldIsStatus, statusOf

-----------------------------------------------------------------------------
(* The connection of a device that runs it alone.                            *)
LSpec == LInit /\ [][LNext]_lvars

(* Whatever settings, losses and refusals meet, a space's listeners were     *)
(* last told what its status shows, and a link that may come back always has *)
(* a try under way.                                                          *)
THEOREM ToldAndTrying == ASSUME LinkAssumption PROVE LSpec => [](ToldIsStatus /\ NeverStranded)
<1>1. LInit => LInv
  BY LinkInit
<1>2. LInv /\ [LNext]_lvars => LInv'
  BY LinkStep, LinkStutters
<1>3. LInv => ToldIsStatus /\ NeverStranded
  BY DEF LInv
<1> QED
  BY <1>1, <1>2, <1>3, PTL DEF LSpec
=============================================================================
