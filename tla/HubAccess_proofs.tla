-------------------------- MODULE HubAccess_proofs --------------------------
(* A revoked token stays cut, and every device sees who is there: for any    *)
(* devices, tokens and sockets, requests that die and late reads.            *)
EXTENDS HubAccess, TLAPS, FiniteSetTheorems, SequenceTheorems

Kind == {"here", "join", "leave"}
Frame == Kind \X Tags

(* The owner's grant is no token, and None is nothing else.                  *)
AccessAssumption ==
    /\ Token \subseteq Nat \ {0} /\ None \notin Nat /\ MaxTags \in Nat
    /\ None \notin [at : {"open", "ended"}, device : Device \cup {None}, grant : Token \cup {OwnerGrant, None},
                    up : BOOLEAN, sees : SUBSET Tags, inbox : Seq(Frame)]

-----------------------------------------------------------------------------
(* Frames.                                                                   *)

(* A finite set as a sequence holds its elements.                            *)
LEMMA SetAsSeq ==
    ASSUME NEW S, IsFiniteSet(S)
    PROVE  /\ SetToSeq(S) \in Seq(S)
           /\ \A e : e \in S <=> \E i \in DOMAIN SetToSeq(S) : SetToSeq(S)[i] = e
<1> DEFINE n == Cardinality(S)
           Fits(f) == f \in [1..n -> S] /\ IsInjective(f)
<1>1. n \in Nat /\ ExistsBijection(1..n, S)
  BY FS_CardinalityType
<1>2. \E f \in [1..n -> S] : IsInjective(f)
  BY <1>1 DEF ExistsBijection, Bijection, Injection, IsInjective
<1>3. SetToSeq(S) \in [1..n -> S] /\ IsInjective(SetToSeq(S))
  BY <1>2 DEF SetToSeq
<1>4. SetToSeq(S) \in Injection(1..n, S)
  BY <1>3 DEF Injection
<1>5. Cardinality(1..n) = n /\ IsFiniteSet(1..n)
  BY <1>1, FS_Interval
<1>6. SetToSeq(S) \in Surjection(1..n, S)
  BY <1>4, <1>5, FS_Injection
<1>7. \A e \in S : \E i \in 1..n : SetToSeq(S)[i] = e
  BY <1>6 DEF Surjection
<1>8. SetToSeq(S) \in Seq(S)
  BY <1>1, <1>3, IsASeq
<1> QED
  BY <1>3, <1>7, <1>8

(* What is said to a socket of several others is a sequence of frames, one   *)
(* of each.                                                                  *)
LEMMA FramesOf ==
    ASSUME AccessAssumption, NEW kind \in Kind, NEW G \in SUBSET Tags
    PROVE  LET q == SetToSeq({<<kind, g>> : g \in G})
           IN  /\ q \in Seq(Frame)
               /\ \A i \in DOMAIN q : q[i][1] = kind /\ q[i][2] \in G
               /\ \A g \in G : \E i \in DOMAIN q : q[i][2] = g
<1> DEFINE S == {<<kind, g>> : g \in G}
           f == [g \in G |-> <<kind, g>>]
<1>1. IsFiniteSet(G)
  <2>1. IsFiniteSet(Tags)
    BY FS_Interval DEF AccessAssumption, Tags
  <2> QED
    BY <2>1, FS_Subset
<1>2. f \in Surjection(G, S)
  BY DEF Surjection
<1>3. IsFiniteSet(S)
  <2> HIDE DEF f, S
  <2> QED
    BY <1>1, <1>2, FS_Surjection
<1>4. S \subseteq Frame
  BY DEF Frame
<1>5. /\ SetToSeq(S) \in Seq(S)
      /\ \A e : e \in S <=> \E i \in DOMAIN SetToSeq(S) : SetToSeq(S)[i] = e
  <2> HIDE DEF S
  <2> QED
    BY <1>3, SetAsSeq
<1>6. SetToSeq(S) \in Seq(Frame)
  BY <1>4, <1>5, SeqMonotonic
<1>7. ASSUME NEW i \in DOMAIN SetToSeq(S)
      PROVE  SetToSeq(S)[i][1] = kind /\ SetToSeq(S)[i][2] \in G
  <2>1. SetToSeq(S)[i] \in S
    BY <1>5
  <2> QED
    BY <2>1
<1>8. ASSUME NEW g \in G PROVE \E i \in DOMAIN SetToSeq(S) : SetToSeq(S)[i][2] = g
  <2>1. PICK i \in DOMAIN SetToSeq(S) : SetToSeq(S)[i] = <<kind, g>>
    BY <1>5
  <2> QED
    BY <2>1
<1> QED
  BY <1>6, <1>7, <1>8

-----------------------------------------------------------------------------
(* Types. A grant was issued, or is the owner's.                             *)

Inviting == {"dropOld", "deleteOld", "putTok", "putPointer"}
TakingAway ==
    {"dropTok", "deleteTok", "deletePointer", "dropHeld", "deleteHeld", "deleteOwnPointer"}
Request == [at : Inviting \cup TakingAway, token : Token] \cup {Idle}

Socket ==
    [at : {"open", "ended"}, device : Device \cup {None}, grant : Token \cup {OwnerGrant, None},
     up : BOOLEAN, sees : SUBSET Tags, inbox : Seq(Frame)]

KvOK ==
    /\ issued \subseteq Token
    /\ tok \subseteq issued /\ lateTok \subseteq issued
    /\ pointer \in issued \cup {None} /\ latePointer \subseteq issued \cup {None}
HubOK ==
    /\ revoked \subseteq Token /\ closed \in BOOLEAN /\ cut \subseteq issued
    /\ asking \in [Device -> issued \cup {OwnerGrant, None}]
SocketsOK == socket \in [Tags -> Socket \cup {None}]
RequestOK ==
    /\ request \in Request
    /\ request.at \in Inviting => request.token \in issued
    /\ request.at = "dropOld" => pointer # None
    /\ request.at \in TakingAway => request.token = pointer

ATypes == KvOK /\ HubOK /\ SocketsOK /\ RequestOK

(* The start.                                                                *)
LEMMA ATypesInit == ASSUME AccessAssumption, AInit PROVE ATypes
BY DEF AccessAssumption, AInit, ATypes, KvOK, HubOK, SocketsOK, RequestOK, Request, Idle, Inviting, TakingAway

-----------------------------------------------------------------------------
(* The channel.                                                              *)

(* Whose socket is on the channel.                                           *)
LEMMA PresentIs ==
    ASSUME SocketsOK, AccessAssumption, NEW t
    PROVE  t \in present <=> /\ t \in Tags /\ socket[t] \in Socket
                             /\ socket[t].at = "open" /\ socket[t].grant # None
BY DEF present, open, SocketsOK, AccessAssumption, Socket

(* Nobody new is there, and who stays is there by the same grant.            *)
Fewer ==
    /\ present' \subseteq present
    /\ \A t \in present' : socket'[t].grant = socket[t].grant

(* Sockets that leave are ended; the others are told so.                     *)
LEMMA LeaveTypes ==
    ASSUME AccessAssumption, SocketsOK, NEW gone \in SUBSET Tags, leave(gone)
    PROVE  SocketsOK' /\ Fewer /\ present' = present \ gone
<1> DEFINE left == SetToSeq({<<"leave", g>> : g \in gone \cap present})
           said(t) == [socket[t] EXCEPT !.inbox = @ \o left]
<1>1. present \subseteq Tags
  BY DEF present, open
<1>2. left \in Seq(Frame)
  <2>1. gone \cap present \in SUBSET Tags
    BY <1>1
  <2> QED
    BY <2>1, FramesOf DEF Kind
<1> HIDE DEF left
<1>3. Ended \in Socket /\ Ended.at = "ended"
  BY EmptySeq DEF Ended, Socket
<1>4. ASSUME NEW t \in present
      PROVE  said(t) \in Socket /\ said(t).at = "open" /\ said(t).grant = socket[t].grant /\ said(t).grant # None
  <2>1. socket[t] \in Socket /\ socket[t].at = "open" /\ socket[t].grant # None
    BY PresentIs
  <2>2. socket[t].inbox \o left \in Seq(Frame)
    BY <1>2, <2>1, ConcatProperties DEF Socket
  <2> QED
    BY <2>1, <2>2 DEF Socket
<1>5. socket' = [t \in Tags |-> IF t \in gone THEN Ended ELSE IF t \in present THEN said(t) ELSE socket[t]]
  BY DEF leave, announced, left
<1>6. SocketsOK'
  BY <1>3, <1>4, <1>5 DEF SocketsOK
<1>7. ASSUME NEW t PROVE t \in present' <=> t \in present \ gone
  <2> HIDE DEF said
  <2>1. t \in present' <=> /\ t \in Tags /\ socket'[t] \in Socket
                           /\ socket'[t].at = "open" /\ socket'[t].grant # None
    BY <1>6, PresentIs DEF SocketsOK, present, open, AccessAssumption, Socket
  <2>2. CASE t \in gone
    BY <1>3, <1>5, <2>1, <2>2
  <2>3. CASE t \notin gone /\ t \in present
    BY <1>1, <1>4, <1>5, <2>1, <2>3
  <2>4. CASE t \notin gone /\ t \notin present
    BY <1>5, <2>1, <2>4, PresentIs
  <2> QED
    BY <2>2, <2>3, <2>4
<1>8. \A t \in present' : socket'[t].grant = socket[t].grant
  <2> HIDE DEF said
  <2> QED
    BY <1>1, <1>4, <1>5, <1>7
<1> QED
  BY <1>6, <1>7, <1>8 DEF Fewer

(* While the sockets stay, so does the channel.                              *)
LEMMA StayTypes ==
    ASSUME SocketsOK, UNCHANGED socket PROVE SocketsOK' /\ Fewer /\ present' = present
BY DEF SocketsOK, Fewer, present, open

(* A frame heard, and a device that vanished, move no socket.                *)
LEMMA HearTypes ==
    ASSUME AccessAssumption, SocketsOK, NEW t \in Tags, Hear(t)
    PROVE  SocketsOK' /\ Fewer /\ present' = present
<1> DEFINE frame == Head(socket[t].inbox)
           sees == CASE frame[1] \in {"here", "join"} -> socket[t].sees \cup {frame[2]}
                     [] OTHER -> socket[t].sees \ {frame[2]}
           r == [socket[t] EXCEPT !.inbox = Tail(@), !.sees = sees]
<1>1. socket[t] \in Socket /\ socket[t].inbox \in Seq(Frame) /\ socket[t].inbox # <<>>
  BY DEF Hear, SocketsOK, Socket
<1>2. frame \in Frame /\ Tail(socket[t].inbox) \in Seq(Frame)
  BY <1>1, HeadTailProperties
<1>3. sees \in SUBSET Tags
  <2>1. frame[2] \in Tags /\ socket[t].sees \in SUBSET Tags
    BY <1>1, <1>2 DEF Frame, Socket
  <2> QED
    BY <2>1
<1>4. socket' = [socket EXCEPT ![t] = r]
  BY DEF Hear
<1> HIDE DEF frame, sees
<1>5. r \in Socket /\ r.at = socket[t].at /\ r.grant = socket[t].grant
  BY <1>1, <1>2, <1>3 DEF Socket
<1>6. SocketsOK'
  BY <1>4, <1>5 DEF SocketsOK
<1>7. present' = present
  <2>1. socket[t] # None /\ socket'[t] # None
    BY <1>1, <1>4, <1>5 DEF AccessAssumption, Socket, SocketsOK
  <2>2. \A u \in Tags : (u \in open' <=> u \in open) /\ (u \in present' <=> u \in present)
    BY <1>4, <1>5, <2>1 DEF open, present, SocketsOK
  <2> QED
    BY <2>2 DEF present, open
<1>8. \A u \in present' : socket'[u].grant = socket[u].grant
  BY <1>4, <1>5, <1>7 DEF present, open, SocketsOK
<1> QED
  BY <1>6, <1>7, <1>8 DEF Fewer

(* A device that vanished hears nothing more, and moves no socket either.    *)
LEMMA VanishTypes ==
    ASSUME AccessAssumption, SocketsOK, NEW t \in Tags, Vanish(t)
    PROVE  SocketsOK' /\ Fewer /\ present' = present
<1> DEFINE r == [socket[t] EXCEPT !.up = FALSE, !.inbox = <<>>]
<1>1. socket[t] \in Socket /\ socket[t] # None
  BY DEF Vanish, SocketsOK, Socket, open
<1>2. r \in Socket /\ r.at = socket[t].at /\ r.grant = socket[t].grant
  BY <1>1, EmptySeq DEF Socket
<1>3. socket' = [socket EXCEPT ![t] = r]
  BY DEF Vanish
<1>4. SocketsOK'
  BY <1>2, <1>3 DEF SocketsOK
<1>5. present' = present
  <2>1. socket'[t] # None
    BY <1>1, <1>2, <1>3 DEF AccessAssumption, Socket, SocketsOK
  <2>2. \A u \in Tags : (u \in open' <=> u \in open) /\ (u \in present' <=> u \in present)
    BY <1>1, <1>2, <1>3, <2>1 DEF open, present, SocketsOK
  <2> QED
    BY <2>2 DEF present, open
<1>6. \A u \in present' : socket'[u].grant = socket[u].grant
  BY <1>2, <1>3, <1>5 DEF present, open, SocketsOK
<1> QED
  BY <1>4, <1>5, <1>6 DEF Fewer

-----------------------------------------------------------------------------
(* An admitted socket joins unless its grant is refused.                     *)

(* The tag a socket gets.                                                    *)
next == CHOOSE t \in Tags : socket[t] = None /\ \A u \in Tags : socket[u] = None => t <= u

(* The lowest free tag.                                                      *)
LEMMA NextFree ==
    ASSUME AccessAssumption, \E t \in Tags : socket[t] = None
    PROVE  next \in Tags /\ socket[next] = None /\ next \notin present
<1> DEFINE free == {t \in Tags : socket[t] = None}
<1>1. free \in SUBSET Nat /\ free # {}
  BY DEF AccessAssumption, Tags
<1>2. \E t \in free : \A u \in free : t <= u
  <2> DEFINE less == {p \in Nat \X Nat : p[1] < p[2]}
  <2>1. IsWellFoundedOn(less, Nat)
    BY NatLessThanWellFounded DEF OpToRel
  <2>2. \A t \in Nat, u \in Nat : u < t => <<u, t>> \in less
    OBVIOUS
  <2> HIDE DEF free, less
  <2>3. PICK t \in free : \A u \in free : ~ (<<u, t>> \in less)
    BY <1>1, <2>1, WFMin
  <2>4. ASSUME NEW u \in free PROVE t <= u
    <3>1. t \in Nat /\ u \in Nat /\ ~ (u < t)
      BY <1>1, <2>2, <2>3
    <3> QED
      BY <3>1
  <2> QED
    BY <2>4
<1> QED
  BY <1>2 DEF next, present, open

(* What an admission does to the sockets.                                    *)
LEMMA AcceptIs ==
    ASSUME AccessAssumption, HubOK, SocketsOK, NEW d \in Device, Accept(d), ~refused(asking[d])
    PROVE  /\ next \in Tags /\ socket[next] = None /\ next \notin present
           /\ asking[d] \in issued \cup {OwnerGrant} /\ asking[d] # None
           /\ socket' = [t \in Tags |->
                 IF t = next
                 THEN [at |-> "open", device |-> d, grant |-> asking[d], up |-> TRUE, sees |-> {},
                       inbox |-> SetToSeq({<<"here", u>> : u \in present})]
                 ELSE IF t \in present THEN told(t, <<"join", next>>) ELSE socket[t]]
<1>1. next \in Tags /\ socket[next] = None /\ next \notin present
  BY NextFree DEF Accept
<1>2. asking[d] \in issued \cup {OwnerGrant} /\ asking[d] # None
  BY DEF Accept, HubOK
<1> QED
  BY <1>1, <1>2 DEF Accept, next

(* The admitted socket is there by its grant, the others as before.          *)
LEMMA AcceptTypes ==
    ASSUME AccessAssumption, KvOK, HubOK, SocketsOK, NEW d \in Device, Accept(d), ~refused(asking[d])
    PROVE  /\ SocketsOK'
           /\ present' = present \cup {next} /\ next \notin present
           /\ socket'[next].grant = asking[d]
           /\ \A t \in present : socket'[t].grant = socket[t].grant
<1> DEFINE r == [at |-> "open", device |-> d, grant |-> asking[d], up |-> TRUE, sees |-> {},
                 inbox |-> SetToSeq({<<"here", u>> : u \in present})]
<1>1. present \in SUBSET Tags
  BY DEF present, open
<1>2. asking[d] \in Token \cup {OwnerGrant, None} /\ asking[d] # None /\ next \in Tags /\ next \notin present
  BY AcceptIs DEF KvOK
<1>3. r \in Socket
  <2>1. SetToSeq({<<"here", u>> : u \in present}) \in Seq(Frame)
    BY <1>1, FramesOf DEF Kind
  <2> QED
    BY <1>2, <2>1 DEF Socket
<1>4. r.at = "open" /\ r.grant = asking[d]
  OBVIOUS
<1>5. ASSUME NEW t \in present
      PROVE  LET q == told(t, <<"join", next>>)
             IN  q \in Socket /\ q.at = "open" /\ q.grant = socket[t].grant /\ q.grant # None
  <2>1. socket[t] \in Socket /\ socket[t].at = "open" /\ socket[t].grant # None
    BY PresentIs
  <2>2. Append(socket[t].inbox, <<"join", next>>) \in Seq(Frame)
    BY <1>2, <2>1, AppendProperties DEF Socket, Frame, Kind
  <2> QED
    BY <2>1, <2>2 DEF told, Socket
<1> HIDE DEF r
<1>6. socket' = [t \in Tags |-> IF t = next THEN r
                                ELSE IF t \in present THEN told(t, <<"join", next>>) ELSE socket[t]]
  BY AcceptIs DEF r
<1>7. SocketsOK'
  BY <1>3, <1>5, <1>6 DEF SocketsOK
<1>8. ASSUME NEW t PROVE t \in present' <=> t \in present \cup {next}
  <2>1. t \in present' <=> /\ t \in Tags /\ socket'[t] \in Socket
                           /\ socket'[t].at = "open" /\ socket'[t].grant # None
    BY <1>7, PresentIs DEF SocketsOK, present, open, AccessAssumption, Socket
  <2>2. CASE t = next
    BY <1>2, <1>3, <1>4, <1>6, <2>1, <2>2
  <2>3. CASE t # next /\ t \in present
    BY <1>1, <1>5, <1>6, <2>1, <2>3
  <2>4. CASE t # next /\ t \notin present
    BY <1>6, <2>1, <2>4, PresentIs
  <2> QED
    BY <2>2, <2>3, <2>4
<1>9. socket'[next].grant = asking[d]
  BY <1>2, <1>4, <1>6
<1>10. \A t \in present : socket'[t].grant = socket[t].grant
  BY <1>1, <1>2, <1>5, <1>6
<1> QED
  BY <1>2, <1>7, <1>8, <1>9, <1>10

(* A socket closed, and the ghosts swept, leave.                             *)
LEMMA OpenTags == open \subseteq Tags /\ present \subseteq Tags
BY DEF open, present

(* Every step keeps the sockets' types; only an admission adds to them.      *)
LEMMA SocketStep ==
    ASSUME AccessAssumption, KvOK, HubOK, SocketsOK, ANext
    PROVE  /\ SocketsOK'
           /\ Fewer \/ \E d \in Device : Accept(d) /\ ~refused(asking[d])
<1>1. CASE Invite \/ DeleteOld \/ PutTok \/ PutPointer \/ Revoke \/ DeletePointer \/ Leave
           \/ RequestDies \/ KvSettles \/ Forget \/ \E d \in Device : Ask(d)
  <2>1. UNCHANGED socket
    BY <1>1 DEF Invite, DeleteOld, PutTok, PutPointer, Revoke, DeletePointer, Leave, RequestDies, KvSettles, Forget, Ask
  <2> QED
    BY <2>1, StayTypes
<1>2. CASE DropOld
  <2>1. \E t : leave({s \in present : socket[s].grant = t})
    BY <1>2 DEF DropOld, dropGrant, drop
  <2> QED
    BY <2>1, OpenTags, LeaveTypes
<1>3. CASE EndShare
  <2>1. leave(present)
    BY <1>3 DEF EndShare, drop
  <2> QED
    BY <2>1, OpenTags, LeaveTypes
<1>4. ASSUME NEW t \in Tags, Close(t) PROVE SocketsOK' /\ Fewer
  <2>1. leave({t})
    BY <1>4 DEF Close
  <2> QED
    BY <2>1, LeaveTypes
<1>5. CASE Sweep
  <2>1. \E gone \in SUBSET Tags : leave(gone)
    BY <1>5, OpenTags DEF Sweep
  <2> QED
    BY <2>1, LeaveTypes
<1>6. ASSUME NEW d \in Device, Accept(d)
      PROVE  SocketsOK' /\ (Fewer \/ \E x \in Device : Accept(x) /\ ~refused(asking[x]))
  <2>1. CASE refused(asking[d])
    <3>1. UNCHANGED socket
      BY <1>6, <2>1 DEF Accept
    <3> QED
      BY <3>1, StayTypes
  <2>2. CASE ~refused(asking[d])
    BY <1>6, <2>2, AcceptTypes
  <2> QED
    BY <2>1, <2>2
<1> QED
  BY <1>1, <1>2, <1>3, <1>4, <1>5, <1>6, HearTypes, VanishTypes DEF ANext

(* A request of the right shape.                                             *)
LEMMA RequestIs ==
    ASSUME RequestOK, request # Idle
    PROVE  /\ request \in [at : Inviting \cup TakingAway, token : Token]
           /\ request.at # "idle"
BY DEF RequestOK, Request, Inviting, TakingAway

-----------------------------------------------------------------------------
(* Every step keeps the types of the broker's store and of its requests.     *)

(* A request is made.                                                        *)
LEMMA InviteTypes ==
    ASSUME AccessAssumption, KvOK, HubOK, RequestOK, Invite PROVE KvOK' /\ HubOK' /\ RequestOK'
<1>1. PICK t \in Token \ issued, at \in {"putTok", "dropOld"} :
         /\ issued' = issued \cup {t}
         /\ request' = [at |-> at, token |-> t]
         /\ at = "dropOld" => pointer # None
  BY DEF Invite, goTo
<1>2. UNCHANGED <<tok, pointer, lateTok, latePointer, revoked, closed, asking, socket, cut>>
  BY DEF Invite
<1>3. KvOK' /\ HubOK'
  BY <1>1, <1>2 DEF KvOK, HubOK
<1>4. request' \in Request /\ request'.at = at /\ request'.token = t
  BY <1>1 DEF Request, Inviting
<1>5. RequestOK'
  BY <1>1, <1>2, <1>4 DEF RequestOK, Inviting, TakingAway
<1> QED
  BY <1>3, <1>5

(* The owner takes the participant's token away, or the participant leaves.  *)
LEMMA RevokeTypes ==
    ASSUME AccessAssumption, KvOK, HubOK, RequestOK, Revoke \/ Leave PROVE KvOK' /\ HubOK' /\ RequestOK'
<1>1. PICK at \in {"dropTok", "dropHeld"} : request' = [at |-> at, token |-> pointer] /\ pointer \in Token
  BY DEF Revoke, Leave, goTo, KvOK, AccessAssumption
<1>2. UNCHANGED <<kv, revoked, closed, asking, socket, cut>>
  BY DEF Revoke, Leave
<1>3. KvOK' /\ HubOK'
  BY <1>2 DEF KvOK, HubOK, kv
<1>4. request' \in Request /\ request'.at = at /\ request'.token = pointer
  BY <1>1 DEF Request, TakingAway
<1>5. RequestOK'
  BY <1>1, <1>2, <1>4 DEF RequestOK, Inviting, TakingAway, kv
<1> QED
  BY <1>3, <1>5

(* The hub is told.                                                          *)
LEMMA DropOldTypes ==
    ASSUME AccessAssumption, KvOK, HubOK, RequestOK, DropOld PROVE KvOK' /\ HubOK' /\ RequestOK'
<1>1. request # Idle
  BY DEF DropOld, Idle
<1>2. request \in [at : Inviting \cup TakingAway, token : Token]
  BY <1>1, RequestIs
<1>3. PICK at \in {"deleteOld", "deleteTok", "deleteHeld"} :
         /\ request' = [request EXCEPT !.at = at]
         /\ at = "deleteOld" => request.at = "dropOld"
         /\ at = "deleteTok" => request.at = "dropTok"
         /\ at = "deleteHeld" => request.at = "dropHeld"
  BY DEF DropOld
<1>4. request' \in Request /\ request'.at = at /\ request'.token = request.token
  BY <1>2, <1>3 DEF Request, Inviting, TakingAway
<1>5. UNCHANGED <<kv, closed, asking, cut>>
  BY DEF DropOld
<1>6. revoked' \subseteq Token
  <2>1. CASE request.at = "dropOld"
    <3>1. revoked' = revoked \cup {pointer} /\ pointer # None
      BY <2>1 DEF DropOld, dropGrant, remembered, RequestOK
    <3> QED
      BY <3>1 DEF KvOK, HubOK
  <2>2. CASE request.at # "dropOld"
    <3>1. revoked' = revoked \cup {request.token}
      BY <2>2 DEF DropOld, dropGrant, remembered
    <3> QED
      BY <1>2, <3>1 DEF HubOK
  <2> QED
    BY <2>1, <2>2
<1>7. KvOK' /\ HubOK'
  BY <1>5, <1>6 DEF KvOK, HubOK, kv
<1>8. RequestOK'
  BY <1>3, <1>4, <1>5 DEF RequestOK, Inviting, TakingAway, kv
<1> QED
  BY <1>7, <1>8

(* A token's record is deleted.                                              *)
LEMMA DeleteOldTypes ==
    ASSUME AccessAssumption, KvOK, HubOK, RequestOK, DeleteOld PROVE KvOK' /\ HubOK' /\ RequestOK'
<1>1. request # Idle
  BY DEF DeleteOld, Idle
<1>2. request \in [at : Inviting \cup TakingAway, token : Token]
  BY <1>1, RequestIs
<1>3. PICK at \in {"putTok", "deletePointer", "deleteOwnPointer"} :
         /\ request' = [request EXCEPT !.at = at]
         /\ at = "putTok" => request.at = "deleteOld"
         /\ at = "deletePointer" => request.at = "deleteTok"
         /\ at = "deleteOwnPointer" => request.at = "deleteHeld"
  BY DEF DeleteOld
<1>4. request' \in Request /\ request'.at = at /\ request'.token = request.token
  BY <1>2, <1>3 DEF Request, Inviting, TakingAway
<1>5. UNCHANGED <<pointer, latePointer, issued, revoked, closed, asking, cut>>
  BY DEF DeleteOld
<1>6. tok' \subseteq tok /\ lateTok' \subseteq lateTok \cup tok
  BY DEF DeleteOld
<1>7. KvOK' /\ HubOK'
  BY <1>5, <1>6 DEF KvOK, HubOK
<1>8. RequestOK'
  BY <1>3, <1>4, <1>5 DEF RequestOK, Inviting, TakingAway
<1> QED
  BY <1>7, <1>8

(* The new token's record is put.                                            *)
LEMMA PutTokTypes ==
    ASSUME AccessAssumption, KvOK, HubOK, RequestOK, PutTok PROVE KvOK' /\ HubOK' /\ RequestOK'
<1>1. request # Idle /\ request.at = "putTok"
  BY DEF PutTok, Idle
<1>2. request \in [at : Inviting \cup TakingAway, token : Token] /\ request.token \in issued
  BY <1>1, RequestIs DEF RequestOK, Inviting
<1>3. UNCHANGED <<pointer, lateTok, latePointer, issued, revoked, closed, asking, cut>>
  BY DEF PutTok
<1>4. tok' = tok \cup {request.token} /\ request' = [at |-> "putPointer", token |-> request.token]
  BY DEF PutTok, goTo
<1>5. KvOK' /\ HubOK'
  BY <1>2, <1>3, <1>4 DEF KvOK, HubOK
<1>6. request' \in Request /\ request'.at = "putPointer" /\ request'.token = request.token
  BY <1>2, <1>4 DEF Request, Inviting
<1>7. RequestOK'
  BY <1>2, <1>3, <1>6 DEF RequestOK, Inviting, TakingAway
<1> QED
  BY <1>5, <1>7

(* A request is over: it ended well, or died.                                *)
LEMMA EndTypes ==
    ASSUME AccessAssumption, KvOK, HubOK, RequestOK, PutPointer \/ DeletePointer \/ RequestDies
    PROVE  KvOK' /\ HubOK' /\ RequestOK' /\ request' = Idle
<1>1. request' = Idle
  BY DEF PutPointer, DeletePointer, RequestDies
<1>2. RequestOK'
  BY <1>1 DEF RequestOK, Request, Idle, Inviting, TakingAway
<1>3. CASE PutPointer
  <2>1. request # Idle /\ request.at = "putPointer"
    BY <1>3 DEF PutPointer, Idle
  <2>2. request.token \in issued
    BY <2>1 DEF RequestOK, Inviting
  <2>3. /\ pointer' = request.token /\ latePointer' = latePointer \cup {pointer}
        /\ cut' = cut \cup (issued \ {request.token})
        /\ UNCHANGED <<tok, lateTok, issued, revoked, closed, asking>>
    BY <1>3 DEF PutPointer, setPointer
  <2> QED
    BY <1>1, <1>2, <2>2, <2>3 DEF KvOK, HubOK
<1>4. CASE DeletePointer
  <2>1. request # Idle /\ request.at \in {"deletePointer", "deleteOwnPointer"}
    BY <1>4 DEF DeletePointer, Idle
  <2>2. request.token = pointer /\ request \in [at : Inviting \cup TakingAway, token : Token]
    BY <2>1, RequestIs DEF RequestOK, TakingAway
  <2>3. pointer \in issued
    BY <2>2 DEF KvOK, AccessAssumption
  <2>4. pointer' = None /\ latePointer' = latePointer \cup {pointer}
    BY <1>4, <2>2 DEF DeletePointer, setPointer
  <2>5. cut' \subseteq cut \cup issued /\ UNCHANGED <<tok, lateTok, issued, revoked, closed, asking>>
    BY <1>4, <2>2, <2>3 DEF DeletePointer
  <2> QED
    BY <1>1, <1>2, <2>3, <2>4, <2>5 DEF KvOK, HubOK
<1>5. CASE RequestDies
  <2>1. UNCHANGED <<kv, revoked, closed, asking, cut>>
    BY <1>5 DEF RequestDies
  <2> QED
    BY <1>1, <1>2, <2>1 DEF KvOK, HubOK, kv
<1> QED
  BY <1>3, <1>4, <1>5

(* The others leave requests alone.                                          *)
LEMMA OtherTypes ==
    ASSUME AccessAssumption, KvOK, HubOK, RequestOK,
           \/ EndShare \/ KvSettles \/ Forget \/ Sweep
           \/ \E d \in Device : Ask(d) \/ Accept(d)
           \/ \E t \in Tags : Hear(t) \/ Close(t) \/ Vanish(t)
    PROVE  KvOK' /\ HubOK' /\ RequestOK'
<1>1. UNCHANGED <<tok, pointer, issued, request, cut>>
  BY DEF EndShare, KvSettles, Forget, Sweep, Ask, Accept, Hear, Close, Vanish, kv
<1>2. lateTok' \subseteq lateTok /\ latePointer' \subseteq latePointer
  BY DEF EndShare, KvSettles, Forget, Sweep, Ask, Accept, Hear, Close, Vanish, kv
<1>3. revoked' \subseteq revoked /\ closed' \in BOOLEAN
  BY DEF EndShare, KvSettles, Forget, Sweep, Ask, Accept, Hear, Close, Vanish, HubOK
<1>4. asking' \in [Device -> issued \cup {OwnerGrant, None}]
  <2>1. ASSUME NEW d \in Device, Ask(d) PROVE asking' \in [Device -> issued \cup {OwnerGrant, None}]
    <3>1. \E g \in issued \cup {OwnerGrant} : asking' = [asking EXCEPT ![d] = g]
      BY <2>1 DEF Ask
    <3> QED
      BY <3>1 DEF HubOK
  <2>2. ASSUME NEW d \in Device, Accept(d) PROVE asking' \in [Device -> issued \cup {OwnerGrant, None}]
    <3>1. asking' = [asking EXCEPT ![d] = None]
      BY <2>2 DEF Accept
    <3> QED
      BY <3>1 DEF HubOK
  <2>3. CASE UNCHANGED asking
    BY <2>3 DEF HubOK
  <2> QED
    BY <2>1, <2>2, <2>3 DEF EndShare, KvSettles, Forget, Sweep, Hear, Close, Vanish
<1>5. KvOK' /\ HubOK'
  BY <1>1, <1>2, <1>3, <1>4 DEF KvOK, HubOK
<1>6. RequestOK'
  BY <1>1 DEF RequestOK
<1> QED
  BY <1>5, <1>6

(* The types hold step by step.                                              *)
LEMMA ATypesStep == ASSUME AccessAssumption, ATypes, ANext PROVE ATypes'
<1>1. KvOK' /\ HubOK' /\ RequestOK'
  BY InviteTypes, RevokeTypes, DropOldTypes, DeleteOldTypes, PutTokTypes, EndTypes, OtherTypes
     DEF ATypes, ANext
<1>2. SocketsOK'
  BY SocketStep DEF ATypes
<1> QED
  BY <1>1, <1>2 DEF ATypes

-----------------------------------------------------------------------------
(* What is revoked stays cut. A token that is no longer the participant's    *)
(* has no socket and gets none: the hub refuses it, or no read finds it.     *)

NotBy(t) == \A s \in present : socket[s].grant # t
Dropped(t) == t \in revoked /\ NotBy(t)
Unread(t) == ~live(t) /\ \A d \in Device : asking[d] # t
Gone(t) == NotBy(t) /\ (t \in revoked \/ Unread(t))

(* A token the request under way is to put in place: nothing goes by it yet. *)
Fresh(t) == request.at \in Inviting /\ request.token = t
Quiet(t) ==
    /\ NotBy(t) /\ \A d \in Device : asking[d] # t
    /\ t # pointer /\ t \notin latePointer /\ t \notin cut

OthersGone ==
    \A t \in issued : /\ Fresh(t) => Quiet(t)
                      /\ t # pointer /\ ~Fresh(t) => Gone(t)

(* Past its first await a request has had the hub drop the pointer's token.  *)
PastDrop ==
    (Inviting \ {"dropOld"}) \cup {"deleteTok", "deletePointer", "deleteHeld", "deleteOwnPointer"}
PointerDropped == request.at \in PastDrop /\ pointer # None => Dropped(pointer)

Admitted ==
    /\ \A s \in present : socket[s].grant \in issued \cup {OwnerGrant}
    /\ closed => present = {}
    /\ pointer \notin cut

CutInv == OthersGone /\ PointerDropped /\ Admitted

(* The start.                                                                *)
LEMMA CutInit == ASSUME AccessAssumption, AInit PROVE CutInv
BY DEF AccessAssumption, AInit, CutInv, OthersGone, PointerDropped, Admitted, present, open, PastDrop, Inviting, Idle

(* A socket that is not there does not come by a step that admits none.      *)
LEMMA NotByStays ==
    ASSUME Fewer PROVE /\ \A t : NotBy(t) => NotBy(t)'
                       /\ present = {} => present' = {}
                       /\ (\A s \in present : socket[s].grant \in issued \cup {OwnerGrant})
                             => \A s \in present' : socket'[s].grant \in issued \cup {OwnerGrant}
BY DEF Fewer, NotBy

(* While the hub's tables and what the requests go by stay, so does all.     *)
LEMMA CutStays ==
    ASSUME CutInv, Fewer, UNCHANGED <<issued, revoked, asking, pointer, latePointer, cut, request, tok, lateTok>>,
           closed' = closed \/ present' = {}
    PROVE  CutInv'
<1>1. OthersGone'
  <2>1. \A t : (Quiet(t) => Quiet(t)') /\ (Gone(t) => Gone(t)') /\ Fresh(t)' = Fresh(t)
    BY NotByStays DEF Quiet, Gone, Unread, Fresh, live
  <2> QED
    BY <2>1 DEF CutInv, OthersGone
<1>2. PointerDropped'
  BY NotByStays DEF CutInv, PointerDropped, Dropped
<1>3. Admitted'
  BY NotByStays DEF CutInv, Admitted
<1> QED
  BY <1>1, <1>2, <1>3 DEF CutInv

(* A new token is quiet.                                                     *)
LEMMA InviteCuts == ASSUME AccessAssumption, ATypes, CutInv, Invite PROVE CutInv'
<1>1. PICK t \in Token \ issued, at \in {"putTok", "dropOld"} :
         /\ issued' = issued \cup {t}
         /\ request' = [at |-> at, token |-> t]
         /\ at = "putTok" => pointer = None
  BY DEF Invite, goTo
<1>2. request = Idle /\ UNCHANGED <<tok, pointer, lateTok, latePointer, revoked, closed, asking, socket, cut>>
  BY DEF Invite
<1>3. Fewer /\ present' = present
  BY <1>2, StayTypes DEF ATypes
<1>4. \A u : ~Fresh(u)
  BY <1>2 DEF Idle, Fresh, Inviting
<1>5. \A u : Fresh(u)' <=> u = t
  BY <1>1 DEF Fresh, Inviting
<1>6. Quiet(t)'
  <2>1. t # None /\ t # OwnerGrant
    BY DEF AccessAssumption, OwnerGrant
  <2>2. NotBy(t)
    BY <1>1, <2>1 DEF CutInv, Admitted, NotBy
  <2>3. \A d \in Device : asking[d] # t
    BY <1>1, <2>1 DEF ATypes, HubOK
  <2>4. t # pointer /\ t \notin latePointer /\ t \notin cut
    BY <1>1, <2>1 DEF ATypes, KvOK, HubOK
  <2> QED
    BY <1>2, <1>3, <2>2, <2>3, <2>4, NotByStays DEF Quiet
<1>7. \A u : Gone(u) => Gone(u)'
  BY <1>2, <1>3, NotByStays DEF Gone, Unread, live
<1>8. OthersGone'
  BY <1>1, <1>2, <1>4, <1>5, <1>6, <1>7 DEF CutInv, OthersGone
<1>9. PointerDropped'
  BY <1>1, <1>2 DEF PointerDropped, PastDrop, Inviting
<1>10. Admitted'
  BY <1>1, <1>2, <1>3, NotByStays DEF CutInv, Admitted
<1> QED
  BY <1>8, <1>9, <1>10 DEF CutInv

(* A taking away starts with the hub not told.                               *)
LEMMA RevokeCuts == ASSUME AccessAssumption, ATypes, CutInv, Revoke \/ Leave PROVE CutInv'
<1>1. request'.at \in {"dropTok", "dropHeld"} /\ request = Idle
  BY DEF Revoke, Leave, goTo
<1>2. UNCHANGED <<kv, revoked, closed, asking, socket, cut>>
  BY DEF Revoke, Leave
<1>3. Fewer
  BY <1>2, StayTypes DEF ATypes
<1>4. \A u : ~Fresh(u) /\ ~Fresh(u)'
  BY <1>1 DEF Idle, Fresh, Inviting
<1>5. \A u : Gone(u) => Gone(u)'
  BY <1>2, <1>3, NotByStays DEF Gone, Unread, live, kv
<1>6. OthersGone'
  BY <1>2, <1>4, <1>5 DEF CutInv, OthersGone, kv
<1>7. PointerDropped'
  BY <1>1 DEF PointerDropped, PastDrop, Inviting
<1>8. Admitted'
  BY <1>2, <1>3, NotByStays DEF CutInv, Admitted, kv
<1> QED
  BY <1>6, <1>7, <1>8 DEF CutInv

(* The hub told to drop a token refuses it and has no socket by it.          *)
LEMMA DropsGrant ==
    ASSUME AccessAssumption, SocketsOK, NEW t, dropGrant(t)
    PROVE  Fewer /\ Dropped(t)' /\ revoked' = revoked \cup {t}
<1>1. leave({s \in present : socket[s].grant = t}) /\ revoked' = revoked \cup {t}
  BY DEF dropGrant, drop, remembered
<1>2. Fewer /\ present' = present \ {s \in present : socket[s].grant = t}
  BY <1>1, OpenTags, LeaveTypes
<1> QED
  BY <1>1, <1>2 DEF Fewer, Dropped, NotBy

(* The hub refuses the token it is told of and cuts its sockets.             *)
LEMMA DropOldCuts == ASSUME AccessAssumption, ATypes, CutInv, DropOld PROVE CutInv'
<1>1. request # Idle
  BY DEF DropOld, Idle
<1>2. request \in [at : Inviting \cup TakingAway, token : Token]
  BY <1>1, RequestIs DEF ATypes
<1>3. /\ request'.token = request.token
      /\ request.at \in Inviting <=> request'.at \in Inviting
      /\ request.at = "dropOld" \/ request.token = pointer
  BY <1>2 DEF DropOld, ATypes, RequestOK, Inviting, TakingAway
<1>4. PICK t : t = pointer /\ dropGrant(t)
  BY <1>3 DEF DropOld
<1>5. Fewer /\ Dropped(t)' /\ revoked' = revoked \cup {t}
  BY <1>4, DropsGrant DEF ATypes
<1>6. UNCHANGED <<kv, closed, asking, cut>>
  BY DEF DropOld
<1>7. \A u : (Quiet(u) => Quiet(u)') /\ (Gone(u) => Gone(u)') /\ (Fresh(u)' <=> Fresh(u))
  BY <1>3, <1>5, <1>6, NotByStays DEF Quiet, Gone, Unread, Fresh, live, kv
<1>8. OthersGone'
  BY <1>6, <1>7 DEF CutInv, OthersGone, kv
<1>9. PointerDropped'
  BY <1>4, <1>5, <1>6 DEF PointerDropped, Dropped, NotBy, kv
<1>10. Admitted'
  BY <1>5, <1>6, NotByStays DEF CutInv, Admitted, kv
<1> QED
  BY <1>8, <1>9, <1>10 DEF CutInv

(* A token's record moves to what a late read may still find.                *)
LEMMA DeleteOldCuts == ASSUME AccessAssumption, ATypes, CutInv, DeleteOld PROVE CutInv'
<1>1. request # Idle /\ request.at \in {"deleteOld", "deleteTok", "deleteHeld"}
  BY DEF DeleteOld, Idle
<1>2. request \in [at : Inviting \cup TakingAway, token : Token]
  BY <1>1, RequestIs DEF ATypes
<1>3. /\ request'.token = request.token /\ request'.at \in PastDrop
      /\ request.at \in Inviting <=> request'.at \in Inviting
  BY <1>1, <1>2 DEF DeleteOld, PastDrop, Inviting
<1>4. UNCHANGED <<pointer, latePointer, issued, revoked, closed, asking, socket, cut>>
  BY DEF DeleteOld
<1>5. tok' \cup lateTok' \subseteq tok \cup lateTok
  BY DEF DeleteOld
<1>6. Fewer
  BY <1>4, StayTypes DEF ATypes
<1>7. \A u : (Quiet(u) => Quiet(u)') /\ (Gone(u) => Gone(u)') /\ (Fresh(u)' <=> Fresh(u))
  BY <1>3, <1>4, <1>5, <1>6, NotByStays DEF Quiet, Gone, Unread, Fresh, live
<1>8. OthersGone'
  BY <1>4, <1>7 DEF CutInv, OthersGone
<1>9. PointerDropped'
  BY <1>1, <1>4, <1>6, NotByStays DEF CutInv, PointerDropped, Dropped, PastDrop, Inviting
<1>10. Admitted'
  BY <1>4, <1>6, NotByStays DEF CutInv, Admitted
<1> QED
  BY <1>8, <1>9, <1>10 DEF CutInv

(* The fresh token's record is put; no pointer leads to it yet.              *)
LEMMA PutTokCuts == ASSUME AccessAssumption, ATypes, CutInv, PutTok PROVE CutInv'
<1>1. request.at = "putTok" /\ request'.at = "putPointer" /\ request'.token = request.token
  BY DEF PutTok, goTo
<1>2. tok' = tok \cup {request.token}
      /\ UNCHANGED <<pointer, lateTok, latePointer, issued, revoked, closed, asking, socket, cut>>
  BY DEF PutTok
<1>3. Fewer
  BY <1>2, StayTypes DEF ATypes
<1>4. \A u : (Quiet(u) => Quiet(u)') /\ (Fresh(u)' <=> Fresh(u))
  BY <1>1, <1>2, <1>3, NotByStays DEF Quiet, Fresh, Inviting
<1>5. \A u : ~Fresh(u) /\ Gone(u) => Gone(u)'
  <2>1. \A u : ~Fresh(u) => u # request.token
    BY <1>1 DEF Fresh, Inviting
  <2> QED
    BY <1>2, <1>3, <2>1, NotByStays DEF Gone, Unread, live
<1>6. OthersGone'
  BY <1>2, <1>4, <1>5 DEF CutInv, OthersGone
<1>7. PointerDropped'
  BY <1>1, <1>2, <1>3, NotByStays DEF CutInv, PointerDropped, Dropped, PastDrop, Inviting
<1>8. Admitted'
  BY <1>2, <1>3, NotByStays DEF CutInv, Admitted
<1> QED
  BY <1>6, <1>7, <1>8 DEF CutInv

(* The fresh token takes the pointer, dropped before; the request is over.   *)
LEMMA PutPointerCuts == ASSUME AccessAssumption, ATypes, CutInv, PutPointer PROVE CutInv'
<1>1. request.at = "putPointer" /\ request' = Idle
  BY DEF PutPointer
<1>2. /\ pointer' = request.token /\ latePointer' = latePointer \cup {pointer}
      /\ cut' = cut \cup (issued \ {request.token})
      /\ UNCHANGED <<tok, lateTok, issued, revoked, closed, asking, socket>>
  BY DEF PutPointer, setPointer
<1>3. Fewer
  BY <1>2, StayTypes DEF ATypes
<1>4. request.token \in issued /\ \A u : (Fresh(u) <=> u = request.token) /\ ~Fresh(u)'
  BY <1>1 DEF ATypes, RequestOK, Fresh, Inviting, Idle
<1>5. Quiet(request.token)
  BY <1>4 DEF CutInv, OthersGone
<1>6. ASSUME NEW u \in issued, u # request.token PROVE Gone(u)'
  <2>1. CASE u = pointer
    <3>1. pointer # None
      BY <2>1 DEF ATypes, KvOK, AccessAssumption
    <3>2. Dropped(u)
      BY <1>1, <2>1, <3>1 DEF CutInv, PointerDropped, PastDrop, Inviting
    <3> QED
      BY <1>2, <1>3, <3>2, NotByStays DEF Dropped, Gone
  <2>2. CASE u # pointer
    <3>1. Gone(u)
      BY <1>4, <1>6, <2>2 DEF CutInv, OthersGone
    <3> QED
      BY <1>2, <1>3, <1>6, <2>2, <3>1, NotByStays DEF Gone, Unread, live
  <2> QED
    BY <2>1, <2>2
<1>7. OthersGone'
  BY <1>2, <1>4, <1>6 DEF OthersGone
<1>8. PointerDropped'
  BY <1>1 DEF PointerDropped, PastDrop, Inviting, Idle
<1>9. Admitted'
  BY <1>2, <1>3, <1>5, NotByStays DEF CutInv, Admitted, Quiet
<1> QED
  BY <1>7, <1>8, <1>9 DEF CutInv

(* The pointer, dropped before, is deleted; the request is over.             *)
LEMMA DeletePointerCuts == ASSUME AccessAssumption, ATypes, CutInv, DeletePointer PROVE CutInv'
<1>1. request.at \in {"deletePointer", "deleteOwnPointer"} /\ request # Idle /\ request' = Idle
  BY DEF DeletePointer, Idle
<1>2. request.token = pointer /\ request.token \in Token
  BY <1>1, RequestIs DEF ATypes, RequestOK, TakingAway
<1>3. /\ pointer' = None /\ latePointer' = latePointer \cup {pointer}
      /\ UNCHANGED <<tok, lateTok, issued, revoked, closed, asking, socket>>
  BY <1>2 DEF DeletePointer, setPointer
<1>4. cut' \subseteq issued
  BY <1>2 DEF DeletePointer, ATypes, HubOK, KvOK, AccessAssumption
<1>5. Fewer
  BY <1>3, StayTypes DEF ATypes
<1>6. \A u : ~Fresh(u) /\ ~Fresh(u)'
  BY <1>1 DEF Fresh, Inviting, Idle
<1>7. Dropped(pointer)
  BY <1>1, <1>2 DEF CutInv, PointerDropped, PastDrop, AccessAssumption
<1>8. ASSUME NEW u \in issued PROVE Gone(u)'
  <2>1. CASE u = pointer
    BY <1>3, <1>5, <1>7, <2>1, NotByStays DEF Dropped, Gone
  <2>2. CASE u # pointer
    <3>1. Gone(u)
      BY <1>6, <1>8, <2>2 DEF CutInv, OthersGone
    <3>2. u # None
      BY <1>8 DEF ATypes, KvOK, AccessAssumption
    <3> QED
      BY <1>3, <1>5, <2>2, <3>1, <3>2, NotByStays DEF Gone, Unread, live
  <2> QED
    BY <2>1, <2>2
<1>9. OthersGone'
  BY <1>3, <1>6, <1>8 DEF OthersGone
<1>10. PointerDropped'
  BY <1>3 DEF PointerDropped
<1>11. Admitted'
  <2>1. None \notin cut'
    BY <1>4 DEF ATypes, KvOK, AccessAssumption
  <2> QED
    BY <1>3, <1>5, <2>1, NotByStays DEF CutInv, Admitted
<1> QED
  BY <1>9, <1>10, <1>11 DEF CutInv

(* A fresh token whose request died is one no pointer leads to.              *)
LEMMA RequestDiesCuts == ASSUME AccessAssumption, ATypes, CutInv, RequestDies PROVE CutInv'
<1>1. request' = Idle /\ UNCHANGED <<kv, revoked, closed, asking, socket, cut>>
  BY DEF RequestDies
<1>2. Fewer
  BY <1>1, StayTypes DEF ATypes
<1>3. \A u : ~Fresh(u)'
  BY <1>1 DEF Fresh, Inviting, Idle
<1>4. \A u : Quiet(u) => Gone(u)
  BY DEF Quiet, Gone, Unread, live
<1>5. \A u : Gone(u) => Gone(u)'
  BY <1>1, <1>2, NotByStays DEF Gone, Unread, live, kv
<1>6. OthersGone'
  BY <1>1, <1>3, <1>4, <1>5 DEF CutInv, OthersGone, kv
<1>7. PointerDropped'
  BY <1>1 DEF PointerDropped, PastDrop, Inviting, Idle
<1>8. Admitted'
  BY <1>1, <1>2, NotByStays DEF CutInv, Admitted, kv
<1> QED
  BY <1>6, <1>7, <1>8 DEF CutInv

(* Late reads stop.                                                          *)
LEMMA KvSettlesCuts == ASSUME AccessAssumption, ATypes, CutInv, KvSettles PROVE CutInv'
<1>1. /\ lateTok' \subseteq lateTok /\ latePointer' \subseteq latePointer
      /\ UNCHANGED <<tok, pointer, issued, revoked, closed, request, asking, socket, cut>>
  BY DEF KvSettles
<1>2. Fewer
  BY <1>1, StayTypes DEF ATypes
<1>3. \A u : (Quiet(u) => Quiet(u)') /\ (Gone(u) => Gone(u)') /\ (Fresh(u)' <=> Fresh(u))
  BY <1>1, <1>2, NotByStays DEF Quiet, Gone, Unread, Fresh, live
<1>4. OthersGone'
  BY <1>1, <1>3 DEF CutInv, OthersGone
<1>5. PointerDropped'
  BY <1>1, <1>2, NotByStays DEF CutInv, PointerDropped, Dropped
<1>6. Admitted'
  BY <1>1, <1>2, NotByStays DEF CutInv, Admitted
<1> QED
  BY <1>4, <1>5, <1>6 DEF CutInv

(* The hub forgets a token only when no read finds it any more.              *)
LEMMA ForgetCuts == ASSUME AccessAssumption, ATypes, CutInv, Forget PROVE CutInv'
<1>1. /\ request = Idle /\ lateTok = {} /\ latePointer = {} /\ \A d \in Device : asking[d] = None
      /\ UNCHANGED <<kv, closed, request, asking, socket, cut>>
  BY DEF Forget
<1>2. Fewer
  BY <1>1, StayTypes DEF ATypes
<1>3. \A u : ~Fresh(u) /\ ~Fresh(u)'
  BY <1>1 DEF Fresh, Inviting, Idle
<1>4. ASSUME NEW u \in issued, u # pointer PROVE Gone(u)'
  <2>1. NotBy(u)
    BY <1>3, <1>4 DEF CutInv, OthersGone, Gone
  <2>2. u # None
    BY DEF ATypes, KvOK, AccessAssumption
  <2>3. Unread(u)'
    BY <1>1, <1>4, <2>2 DEF Unread, live, kv
  <2> QED
    BY <1>2, <2>1, <2>3, NotByStays DEF Gone
<1>5. OthersGone'
  BY <1>1, <1>3, <1>4 DEF OthersGone, kv
<1>6. PointerDropped'
  BY <1>1 DEF PointerDropped, PastDrop, Inviting, Idle
<1>7. Admitted'
  BY <1>1, <1>2, NotByStays DEF CutInv, Admitted, kv
<1> QED
  BY <1>5, <1>6, <1>7 DEF CutInv

(* A token asked for is one a read finds.                                    *)
LEMMA AskCuts == ASSUME AccessAssumption, ATypes, CutInv, NEW d \in Device, Ask(d) PROVE CutInv'
<1>1. PICK g \in {OwnerGrant} \cup {t \in issued : live(t)} : asking' = [asking EXCEPT ![d] = g]
  BY DEF Ask
<1>2. UNCHANGED <<kv, revoked, closed, request, socket, cut>>
  BY DEF Ask
<1>3. Fewer
  BY <1>2, StayTypes DEF ATypes
<1>4. asking \in [Device -> issued \cup {OwnerGrant, None}]
  BY DEF ATypes, HubOK
<1>5. OwnerGrant \notin issued
  BY DEF ATypes, KvOK, AccessAssumption, OwnerGrant
<1>6. ASSUME NEW u \in issued, ~live(u), \A x \in Device : asking[x] # u
      PROVE  \A x \in Device : asking'[x] # u
  BY <1>1, <1>4, <1>5, <1>6
<1>7. \A u \in issued : Gone(u) => Gone(u)'
  BY <1>2, <1>3, <1>6, NotByStays DEF Gone, Unread, live, kv
<1>8. \A u \in issued : Quiet(u) => Quiet(u)'
  <2>1. \A u : Quiet(u) => ~live(u)
    BY DEF Quiet, live
  <2> QED
    BY <1>2, <1>3, <1>6, <2>1, NotByStays DEF Quiet, kv
<1>9. OthersGone'
  BY <1>2, <1>7, <1>8 DEF CutInv, OthersGone, Fresh, kv
<1>10. PointerDropped'
  BY <1>2, <1>3, NotByStays DEF CutInv, PointerDropped, Dropped, kv
<1>11. Admitted'
  BY <1>2, <1>3, NotByStays DEF CutInv, Admitted, kv
<1> QED
  BY <1>9, <1>10, <1>11 DEF CutInv

(* The hub refuses what it dropped, and everything once it is closed.        *)
LEMMA AcceptCuts == ASSUME AccessAssumption, ATypes, CutInv, NEW d \in Device, Accept(d) PROVE CutInv'
<1> DEFINE g == asking[d]
<1>1. asking' = [asking EXCEPT ![d] = None] /\ UNCHANGED <<kv, revoked, closed, request, cut>>
  BY DEF Accept
<1>2. \A u \in issued : (\A x \in Device : asking[x] # u) => \A x \in Device : asking'[x] # u
  BY <1>1 DEF ATypes, KvOK, HubOK, AccessAssumption
<1>3. g \in issued \cup {OwnerGrant} /\ g # None
  BY DEF Accept, ATypes, HubOK
<1>4. ASSUME NEW u \in issued, NotBy(u), u \in revoked \/ (\A x \in Device : asking[x] # u) PROVE NotBy(u)'
  <2>1. CASE refused(g)
    <3>1. UNCHANGED socket
      BY <2>1 DEF Accept
    <3> QED
      BY <1>4, <3>1, StayTypes, NotByStays DEF ATypes
  <2>2. CASE ~refused(g)
    <3>1. /\ present' = present \cup {next} /\ socket'[next].grant = g
          /\ \A t \in present : socket'[t].grant = socket[t].grant
      BY <2>2, AcceptTypes DEF ATypes
    <3>2. g # u
      BY <1>4, <2>2 DEF refused
    <3> QED
      BY <1>4, <3>1, <3>2 DEF NotBy
  <2> QED
    BY <2>1, <2>2
<1>5. \A u \in issued : (Gone(u) => Gone(u)') /\ (Quiet(u) => Quiet(u)')
  BY <1>1, <1>2, <1>4 DEF Gone, Unread, Quiet, live, kv
<1>6. OthersGone'
  BY <1>1, <1>5 DEF CutInv, OthersGone, Fresh, kv
<1>7. PointerDropped'
  BY <1>1, <1>4 DEF CutInv, PointerDropped, Dropped, ATypes, KvOK, kv
<1>8. Admitted'
  <2>1. CASE refused(g)
    <3>1. UNCHANGED socket
      BY <2>1 DEF Accept
    <3> QED
      BY <1>1, <3>1, StayTypes, NotByStays DEF ATypes, CutInv, Admitted, kv
  <2>2. CASE ~refused(g)
    <3>1. /\ present' = present \cup {next} /\ socket'[next].grant = g
          /\ \A t \in present : socket'[t].grant = socket[t].grant
      BY <2>2, AcceptTypes DEF ATypes
    <3>2. ~closed
      BY <2>2 DEF refused
    <3> QED
      BY <1>1, <1>3, <3>1, <3>2 DEF CutInv, Admitted, kv
  <2> QED
    BY <2>1, <2>2
<1> QED
  BY <1>6, <1>7, <1>8 DEF CutInv

(* The channel is shut, or sockets come to their end.                        *)
LEMMA SocketsCut ==
    ASSUME AccessAssumption, ATypes, CutInv,
           EndShare \/ Sweep \/ \E t \in Tags : Hear(t) \/ Close(t) \/ Vanish(t)
    PROVE  CutInv'
<1>1. UNCHANGED <<issued, revoked, asking, pointer, latePointer, cut, request, tok, lateTok>>
  BY DEF EndShare, Sweep, Hear, Close, Vanish, kv
<1>2. CASE EndShare
  <2>1. leave(present) /\ closed' = TRUE
    BY <1>2 DEF EndShare, drop
  <2>2. Fewer /\ present' = present \ present
    BY <2>1, OpenTags, LeaveTypes DEF ATypes
  <2> QED
    BY <1>1, <2>2, CutStays
<1>3. CASE Sweep
  <2>1. closed' = closed /\ \E gone \in SUBSET Tags : leave(gone)
    BY <1>3, OpenTags DEF Sweep
  <2> QED
    BY <1>1, <2>1, CutStays, LeaveTypes DEF ATypes
<1>4. ASSUME NEW t \in Tags, Hear(t) \/ Close(t) \/ Vanish(t) PROVE Fewer /\ closed' = closed
  <2>1. Hear(t) \/ leave({t}) \/ Vanish(t)
    BY <1>4 DEF Close
  <2>2. closed' = closed
    BY <1>4 DEF Hear, Close, Vanish
  <2> QED
    BY <2>1, <2>2, HearTypes, VanishTypes, LeaveTypes DEF ATypes
<1> QED
  BY <1>1, <1>2, <1>3, <1>4, CutStays

(* Step by step.                                                             *)
LEMMA CutStep == ASSUME AccessAssumption, ATypes, CutInv, ANext PROVE CutInv'
BY InviteCuts, RevokeCuts, DropOldCuts, DeleteOldCuts, PutTokCuts, PutPointerCuts, DeletePointerCuts,
   RequestDiesCuts, KvSettlesCuts, ForgetCuts, AskCuts, AcceptCuts, SocketsCut DEF ANext

(* What the invariant comes to: a socket there goes by the pointer's token,  *)
(* or by one that a request has not taken away yet.                          *)
LEMMA CutHolds == ASSUME AccessAssumption, ATypes, CutInv PROVE RevokedIsCut
<1>1. ASSUME NEW s \in present, socket[s].grant \in cut PROVE FALSE
  <2>1. PICK t \in issued : t = socket[s].grant /\ t \in cut
    BY <1>1 DEF ATypes, HubOK
  <2>2. t # pointer /\ ~NotBy(t)
    BY <1>1, <2>1 DEF CutInv, Admitted, NotBy
  <2> QED
    BY <2>1, <2>2 DEF CutInv, OthersGone, Quiet, Gone
<1> QED
  BY <1>1 DEF RevokedIsCut, CutInv, Admitted

-----------------------------------------------------------------------------
(* What is on its way makes up the difference between whom a device sees and *)
(* who is there: of two frames about one socket the later one counts.        *)

About(q, g) == {i \in DOMAIN q : q[i][2] = g}
WillSee(sees, q, g) ==
    /\ About(q, g) = {} => g \in sees
    /\ \A i \in About(q, g) : q[i][1] = "leave" => \E j \in About(q, g) : j > i /\ q[j][1] # "leave"

ViewInv ==
    \A t \in present : socket[t].up =>
        \A g \in Tags : WillSee(socket[t].sees, socket[t].inbox, g) <=> g \in present \ {t}

(* The start: nobody is there.                                               *)
LEMMA ViewInit == ASSUME AccessAssumption, AInit PROVE ViewInv
BY DEF AInit, ViewInv, present, open

(* One more frame counts, whatever was said before it.                       *)
LEMMA OneMoreFrame ==
    ASSUME NEW q \in Seq(Frame), NEW f \in Frame, NEW sees, NEW g
    PROVE  WillSee(sees, Append(q, f), g) <=> IF f[2] = g THEN f[1] # "leave" ELSE WillSee(sees, q, g)
<1> DEFINE r == Append(q, f)
<1>1. /\ Len(q) \in Nat /\ DOMAIN q = 1..Len(q) /\ DOMAIN r = 1..(Len(q) + 1)
      /\ r[Len(q) + 1] = f /\ \A i \in 1..Len(q) : r[i] = q[i]
  BY AppendProperties, LenProperties
<1> HIDE DEF r
<1>2. CASE f[2] = g
  <2>1. Len(q) + 1 \in About(r, g) /\ \A i \in About(r, g) : i \in 1..(Len(q) + 1)
    BY <1>1, <1>2 DEF About
  <2>2. CASE f[1] = "leave"
    BY <1>1, <1>2, <2>1, <2>2 DEF WillSee, r
  <2>3. CASE f[1] # "leave"
    <3>1. ASSUME NEW i \in About(r, g), r[i][1] = "leave" PROVE Len(q) + 1 > i
      BY <1>1, <2>1, <2>3, <3>1
    <3> QED
      BY <1>1, <1>2, <2>1, <2>3, <3>1 DEF WillSee, r
  <2> QED
    BY <2>2, <2>3
<1>3. CASE f[2] # g
  <2>1. About(r, g) = About(q, g) /\ \A i \in About(q, g) : r[i] = q[i]
    BY <1>1, <1>3 DEF About
  <2> QED
    BY <1>3, <2>1 DEF WillSee, r
<1> QED
  BY <1>2, <1>3

(* Who is said to leave will not be seen; the others are as before.          *)
LEMMA LeavesFollow ==
    ASSUME NEW q \in Seq(Frame), NEW l \in Seq(Frame), NEW sees, NEW g,
           \A i \in DOMAIN l : l[i][1] = "leave"
    PROVE  WillSee(sees, q \o l, g) <=> About(l, g) = {} /\ WillSee(sees, q, g)
<1> DEFINE r == q \o l
<1>1. /\ Len(q) \in Nat /\ Len(l) \in Nat
      /\ DOMAIN q = 1..Len(q) /\ DOMAIN l = 1..Len(l) /\ DOMAIN r = 1..(Len(q) + Len(l))
      /\ \A i \in 1..Len(q) : r[i] = q[i]
      /\ \A i \in 1..Len(l) : r[Len(q) + i] = l[i]
  BY ConcatProperties, LenProperties
<1>2. ASSUME NEW i \in DOMAIN r
      PROVE  \/ i \in DOMAIN q /\ r[i] = q[i]
             \/ i > Len(q) /\ i - Len(q) \in DOMAIN l /\ r[i] = l[i - Len(q)] /\ r[i][1] = "leave"
  <2>1. CASE i <= Len(q)
    BY <1>1, <2>1
  <2>2. CASE i > Len(q)
    <3>1. i - Len(q) \in 1..Len(l) /\ i = Len(q) + (i - Len(q))
      BY <1>1, <2>2
    <3> QED
      BY <1>1, <2>2, <3>1
  <2> QED
    BY <1>1, <2>1, <2>2
<1>3. \A i \in DOMAIN q : i \in DOMAIN r /\ r[i] = q[i] /\ i \in Nat /\ i <= Len(q)
  BY <1>1
<1> HIDE DEF r
<1>4. CASE About(l, g) # {}
  <2>1. PICK i \in DOMAIN l : l[i][2] = g
    BY <1>4 DEF About
  <2>2. Len(q) + i \in DOMAIN r /\ r[Len(q) + i] = l[i]
    BY <1>1
  <2>3. Len(q) + i \in About(r, g) /\ r[Len(q) + i][1] = "leave"
    BY <2>1, <2>2 DEF About
  <2>4. \A j \in About(r, g) : j > Len(q) + i => r[j][1] = "leave"
    <3>1. i \in Nat
      BY <1>1
    <3>2. \A j \in About(r, g) : j > Len(q) + i => j \in DOMAIN r /\ j \notin DOMAIN q
      BY <1>1, <1>3, <3>1 DEF About
    <3> QED
      BY <1>2, <3>2
  <2>5. ~WillSee(sees, r, g)
    BY <2>3, <2>4 DEF WillSee
  <2> QED
    BY <1>4, <2>5 DEF r
<1>5. CASE About(l, g) = {}
  <2>1. \A i \in DOMAIN l : l[i][2] # g
    BY <1>5 DEF About
  <2>2. About(r, g) = About(q, g)
    BY <1>2, <1>3, <2>1 DEF About
  <2>3. \A i \in About(q, g) : r[i] = q[i]
    BY <1>3 DEF About
  <2> QED
    BY <1>5, <2>2, <2>3 DEF WillSee, r
<1> QED
  BY <1>4, <1>5

(* A frame heard moves from what is on its way into what is seen.            *)
LEMMA FrameHeard ==
    ASSUME NEW q \in Seq(Frame), q # <<>>, NEW sees, NEW seen, NEW g,
           g \in seen <=> IF Head(q)[2] = g THEN Head(q)[1] # "leave" ELSE g \in sees
    PROVE  WillSee(seen, Tail(q), g) <=> WillSee(sees, q, g)
<1> DEFINE r == Tail(q)
<1>1. /\ Len(q) \in Nat \ {0} /\ DOMAIN q = 1..Len(q) /\ DOMAIN r = 1..(Len(q) - 1)
      /\ Head(q) = q[1] /\ \A i \in 1..(Len(q) - 1) : r[i] = q[i + 1]
  <2>1. Len(q) \in Nat /\ DOMAIN q = 1..Len(q) /\ Len(q) # 0
    BY LenProperties, EmptySeq
  <2>2. r \in Seq(Frame) /\ Len(r) = Len(q) - 1 /\ Head(q) = q[1] /\ \A i \in 1..Len(r) : r[i] = q[i + 1]
    BY HeadTailProperties
  <2>3. DOMAIN r = 1..Len(r)
    BY <2>2, LenProperties
  <2> QED
    BY <2>1, <2>2, <2>3
<1> HIDE DEF r
<1>2. ASSUME NEW i \in About(r, g)
      PROVE  i + 1 \in About(q, g) /\ q[i + 1] = r[i] /\ i \in Nat \ {0} /\ i + 1 > 1
  BY <1>1 DEF About
<1>3. ASSUME NEW i \in About(q, g), i # 1 PROVE i - 1 \in About(r, g) /\ r[i - 1] = q[i] /\ i \in Nat /\ i > 1
  <2>1. i - 1 \in 1..(Len(q) - 1) /\ (i - 1) + 1 = i
    BY <1>1, <1>3 DEF About
  <2> QED
    BY <1>1, <1>3, <2>1 DEF About
<1>4. 1 \in About(q, g) <=> Head(q)[2] = g
  BY <1>1 DEF About
<1>5. CASE About(r, g) = {}
  <2>1. About(q, g) \subseteq {1}
    BY <1>3, <1>5
  <2>2. WillSee(seen, r, g) <=> g \in seen
    BY <1>5 DEF WillSee
  <2>3. WillSee(sees, q, g) <=> IF Head(q)[2] = g THEN Head(q)[1] # "leave" ELSE g \in sees
    BY <1>1, <1>4, <2>1 DEF WillSee
  <2> QED
    BY <2>2, <2>3 DEF r
<1>6. CASE About(r, g) # {}
  <2>1. About(q, g) # {}
    BY <1>2, <1>6
  <2>2. ASSUME WillSee(sees, q, g) PROVE WillSee(seen, r, g)
    <3>1. ASSUME NEW i \in About(r, g), r[i][1] = "leave" PROVE \E j \in About(r, g) : j > i /\ r[j][1] # "leave"
      <4>1. PICK j \in About(q, g) : j > i + 1 /\ q[j][1] # "leave"
        BY <1>2, <2>2, <3>1 DEF WillSee
      <4>2. j # 1 /\ i \in Nat
        BY <1>2, <4>1
      <4>3. j - 1 \in About(r, g) /\ j \in Nat /\ r[j - 1] = q[j]
        BY <1>3, <4>2
      <4>4. j - 1 > i
        BY <4>1, <4>2, <4>3
      <4> QED
        BY <4>1, <4>3, <4>4
    <3> QED
      BY <1>6, <3>1 DEF WillSee
  <2>3. ASSUME WillSee(seen, r, g) PROVE WillSee(sees, q, g)
    <3>1. PICK k \in About(r, g) : r[k][1] # "leave"
      BY <1>6, <2>3 DEF WillSee
    <3>2. ASSUME NEW i \in About(q, g), q[i][1] = "leave" PROVE \E j \in About(q, g) : j > i /\ q[j][1] # "leave"
      <4>1. CASE i = 1
        BY <1>2, <3>1, <4>1
      <4>2. CASE i # 1
        <5>1. i - 1 \in About(r, g) /\ r[i - 1][1] = "leave" /\ i \in Nat
          BY <1>3, <3>2, <4>2
        <5>2. PICK j \in About(r, g) : j > i - 1 /\ r[j][1] # "leave"
          BY <2>3, <5>1 DEF WillSee
        <5>3. j + 1 \in About(q, g) /\ q[j + 1] = r[j] /\ j \in Nat
          BY <1>2
        <5>4. j + 1 > i
          BY <5>1, <5>2, <5>3
        <5> QED
          BY <5>2, <5>3, <5>4
      <4> QED
        BY <4>1, <4>2
    <3> QED
      BY <2>1, <3>2 DEF WillSee
  <2> QED
    BY <2>2, <2>3 DEF r
<1> QED
  BY <1>5, <1>6

(* Who comes in is told who is there.                                        *)
LEMMA HeresFirst ==
    ASSUME AccessAssumption, NEW P \in SUBSET Tags, NEW g
    PROVE  WillSee({}, SetToSeq({<<"here", u>> : u \in P}), g) <=> g \in P
<1> DEFINE q == SetToSeq({<<"here", u>> : u \in P})
<1>1. /\ \A i \in DOMAIN q : q[i][1] = "here" /\ q[i][2] \in P
      /\ \A u \in P : \E i \in DOMAIN q : q[i][2] = u
  BY FramesOf DEF Kind
<1> HIDE DEF q
<1>2. About(q, g) # {} <=> g \in P
  BY <1>1 DEF About
<1>3. \A i \in About(q, g) : q[i][1] # "leave"
  BY <1>1 DEF About
<1>4. WillSee({}, q, g) <=> About(q, g) # {}
  BY <1>3 DEF WillSee
<1> QED
  BY <1>2, <1>4 DEF q

(* The sockets stay as they are.                                             *)
LEMMA ViewStays == ASSUME ViewInv, UNCHANGED socket PROVE ViewInv'
BY DEF ViewInv, present, open

(* Who leaves is said to leave to all that stay.                             *)
LEMMA LeaveView ==
    ASSUME AccessAssumption, SocketsOK, ViewInv, NEW gone \in SUBSET Tags, leave(gone) PROVE ViewInv'
<1> DEFINE G == gone \cap present
           left == SetToSeq({<<"leave", g>> : g \in G})
<1>1. present' = present \ gone
  BY LeaveTypes
<1>2. present \in SUBSET Tags /\ G \in SUBSET Tags
  BY OpenTags
<1>3. /\ left \in Seq(Frame)
      /\ \A i \in DOMAIN left : left[i][1] = "leave" /\ left[i][2] \in G
      /\ \A g \in G : \E i \in DOMAIN left : left[i][2] = g
  BY <1>2, FramesOf DEF Kind
<1>4. \A t \in present' : socket'[t] = [socket[t] EXCEPT !.inbox = @ \o left]
  BY <1>1, <1>2 DEF leave, announced
<1> HIDE DEF left
<1>5. ASSUME NEW t \in present', socket'[t].up, NEW g \in Tags
      PROVE  WillSee(socket'[t].sees, socket'[t].inbox, g) <=> g \in present' \ {t}
  <2>1. t \in present /\ socket[t] \in Socket
    BY <1>1, PresentIs
  <2>2. /\ socket'[t].up = socket[t].up /\ socket'[t].sees = socket[t].sees
        /\ socket'[t].inbox = socket[t].inbox \o left
    BY <1>4, <2>1 DEF Socket
  <2>3. socket[t].inbox \in Seq(Frame)
    BY <2>1 DEF Socket
  <2>4. WillSee(socket[t].sees, socket[t].inbox, g) <=> g \in present \ {t}
    BY <1>5, <2>1, <2>2 DEF ViewInv
  <2>5. About(left, g) = {} <=> g \notin G
    BY <1>3 DEF About
  <2>6. WillSee(socket[t].sees, socket[t].inbox \o left, g)
           <=> About(left, g) = {} /\ WillSee(socket[t].sees, socket[t].inbox, g)
    BY <1>3, <2>3, LeavesFollow
  <2> QED
    BY <1>1, <2>2, <2>4, <2>5, <2>6
<1> QED
  BY <1>5 DEF ViewInv

(* A frame is heard.                                                         *)
LEMMA HearView == ASSUME AccessAssumption, SocketsOK, ViewInv, NEW t \in Tags, Hear(t) PROVE ViewInv'
<1> DEFINE frame == Head(socket[t].inbox)
           sees == CASE frame[1] \in {"here", "join"} -> socket[t].sees \cup {frame[2]}
                     [] OTHER -> socket[t].sees \ {frame[2]}
           r == [socket[t] EXCEPT !.inbox = Tail(@), !.sees = sees]
<1>1. socket[t] \in Socket /\ socket[t].inbox \in Seq(Frame) /\ socket[t].inbox # <<>>
  BY DEF Hear, SocketsOK, Socket
<1>2. frame \in Frame
  BY <1>1, HeadTailProperties
<1>3. \A g : g \in sees <=> IF frame[2] = g THEN frame[1] # "leave" ELSE g \in socket[t].sees
  <2>1. frame[1] \in Kind
    BY <1>2 DEF Frame
  <2>2. CASE frame[1] = "leave"
    BY <2>2
  <2>3. CASE frame[1] # "leave"
    BY <2>1, <2>3 DEF Kind
  <2> QED
    BY <2>2, <2>3
<1>4. socket' = [socket EXCEPT ![t] = r]
  BY DEF Hear
<1> HIDE DEF sees
<1>5. r.up = socket[t].up /\ r.sees = sees /\ r.inbox = Tail(socket[t].inbox)
  BY <1>1 DEF Socket
<1>6. present' = present /\ present \subseteq Tags
  BY HearTypes, OpenTags
<1>7. socket'[t] = r /\ \A u \in Tags : u # t => socket'[u] = socket[u]
  BY <1>4 DEF SocketsOK
<1>8. ASSUME NEW u \in present', socket'[u].up, NEW g \in Tags
      PROVE  WillSee(socket'[u].sees, socket'[u].inbox, g) <=> g \in present' \ {u}
  <2>1. CASE u = t
    <3>1. WillSee(socket[t].sees, socket[t].inbox, g) <=> g \in present \ {t}
      BY <1>5, <1>6, <1>7, <1>8, <2>1 DEF ViewInv
    <3>2. WillSee(sees, Tail(socket[t].inbox), g) <=> WillSee(socket[t].sees, socket[t].inbox, g)
      BY <1>1, <1>3, FrameHeard
    <3> QED
      BY <1>5, <1>6, <1>7, <2>1, <3>1, <3>2
  <2>2. CASE u # t
    BY <1>6, <1>7, <1>8, <2>2 DEF ViewInv
  <2> QED
    BY <2>1, <2>2
<1> QED
  BY <1>8 DEF ViewInv

(* A device that vanished hears nothing more.                                *)
LEMMA VanishView == ASSUME AccessAssumption, SocketsOK, ViewInv, NEW t \in Tags, Vanish(t) PROVE ViewInv'
<1> DEFINE r == [socket[t] EXCEPT !.up = FALSE, !.inbox = <<>>]
<1>1. socket[t] \in Socket
  BY DEF Vanish, SocketsOK, Socket, open
<1>2. socket' = [socket EXCEPT ![t] = r] /\ r.up = FALSE
  BY <1>1 DEF Vanish, Socket
<1> HIDE DEF r
<1>3. present' = present /\ present \subseteq Tags
  BY VanishTypes, OpenTags
<1>4. socket'[t] = r /\ \A u \in Tags : u # t => socket'[u] = socket[u]
  BY <1>2 DEF SocketsOK
<1> QED
  BY <1>2, <1>3, <1>4 DEF ViewInv

(* Who comes in sees who is there, and is seen by them.                      *)
LEMMA AcceptView ==
    ASSUME AccessAssumption, KvOK, HubOK, SocketsOK, ViewInv, NEW d \in Device, Accept(d) PROVE ViewInv'
<1>1. CASE refused(asking[d])
  <2>1. UNCHANGED socket
    BY <1>1 DEF Accept
  <2> QED
    BY <2>1, ViewStays
<1>2. CASE ~refused(asking[d])
  <2> DEFINE q == SetToSeq({<<"here", u>> : u \in present})
             r == [at |-> "open", device |-> d, grant |-> asking[d], up |-> TRUE, sees |-> {}, inbox |-> q]
  <2>1. present' = present \cup {next} /\ next \notin present /\ next \in Tags /\ present \in SUBSET Tags
    BY <1>2, AcceptTypes, AcceptIs, OpenTags
  <2>2. socket'[next] = r /\ \A t \in present : socket'[t] = told(t, <<"join", next>>)
    BY <1>2, <2>1, AcceptIs
  <2>3. r.sees = {} /\ r.inbox = q
    OBVIOUS
  <2> HIDE DEF r
  <2>4. ASSUME NEW g \in Tags
        PROVE  WillSee(socket'[next].sees, socket'[next].inbox, g) <=> g \in present' \ {next}
    BY <2>1, <2>2, <2>3, HeresFirst
  <2>5. ASSUME NEW t \in present, socket'[t].up, NEW g \in Tags
        PROVE  WillSee(socket'[t].sees, socket'[t].inbox, g) <=> g \in present' \ {t}
    <3>1. socket[t] \in Socket /\ socket[t].inbox \in Seq(Frame)
      BY PresentIs DEF Socket
    <3>2. /\ socket'[t].up = socket[t].up /\ socket'[t].sees = socket[t].sees
          /\ socket'[t].inbox = Append(socket[t].inbox, <<"join", next>>)
      BY <2>2, <3>1 DEF told, Socket
    <3>3. WillSee(socket[t].sees, socket[t].inbox, g) <=> g \in present \ {t}
      BY <2>5, <3>2 DEF ViewInv
    <3>4. <<"join", next>> \in Frame /\ <<"join", next>>[1] # "leave" /\ <<"join", next>>[2] = next
      BY <2>1 DEF Frame, Kind
    <3>5. WillSee(socket'[t].sees, socket'[t].inbox, g)
             <=> IF next = g THEN TRUE ELSE WillSee(socket[t].sees, socket[t].inbox, g)
      <4> DEFINE f == <<"join", next>>
      <4>1. f \in Frame /\ f[1] # "leave" /\ f[2] = next
        BY <3>4
      <4> HIDE DEF f
      <4>2. WillSee(socket[t].sees, Append(socket[t].inbox, f), g)
               <=> IF f[2] = g THEN f[1] # "leave" ELSE WillSee(socket[t].sees, socket[t].inbox, g)
        BY <3>1, <4>1, OneMoreFrame
      <4> QED
        BY <3>2, <4>1, <4>2 DEF f
    <3> QED
      BY <2>1, <3>3, <3>5
  <2> QED
    BY <2>1, <2>4, <2>5 DEF ViewInv
<1> QED
  BY <1>1, <1>2

(* Step by step.                                                             *)
LEMMA ViewStep == ASSUME AccessAssumption, ATypes, ViewInv, ANext PROVE ViewInv'
<1>1. CASE Invite \/ DeleteOld \/ PutTok \/ PutPointer \/ Revoke \/ DeletePointer \/ Leave
           \/ RequestDies \/ KvSettles \/ Forget \/ \E d \in Device : Ask(d)
  <2>1. UNCHANGED socket
    BY <1>1 DEF Invite, DeleteOld, PutTok, PutPointer, Revoke, DeletePointer, Leave, RequestDies, KvSettles, Forget, Ask
  <2> QED
    BY <2>1, ViewStays
<1>2. CASE DropOld \/ EndShare \/ Sweep \/ \E t \in Tags : Close(t)
  <2>1. \E gone \in SUBSET Tags : leave(gone)
    <3>1. CASE DropOld
      <4>1. \E t : leave({s \in present : socket[s].grant = t})
        BY <3>1 DEF DropOld, dropGrant, drop
      <4> QED
        BY <4>1, OpenTags
    <3>2. CASE EndShare
      BY <3>2, OpenTags DEF EndShare, drop
    <3>3. CASE Sweep
      BY <3>3, OpenTags DEF Sweep
    <3>4. CASE \E t \in Tags : Close(t)
      BY <3>4 DEF Close
    <3> QED
      BY <1>2, <3>1, <3>2, <3>3, <3>4
  <2> QED
    BY <2>1, LeaveView DEF ATypes
<1> QED
  BY <1>1, <1>2, AcceptView, HearView, VanishView DEF ATypes, ANext

(* When nothing is on its way, what will be seen is what is seen.            *)
LEMMA ViewHolds == ASSUME AccessAssumption, ATypes, ViewInv PROVE SeesWhoIsThere
<1>1. ASSUME NEW t \in present, socket[t].up, socket[t].inbox = <<>> PROVE socket[t].sees = present \ {t}
  <2>1. socket[t] \in Socket
    BY PresentIs DEF ATypes
  <2>2. socket[t].sees \subseteq Tags /\ present \subseteq Tags
    BY <2>1, OpenTags DEF Socket
  <2>3. \A g : About(<<>>, g) = {}
    BY DEF About
  <2>4. \A g \in Tags : g \in socket[t].sees <=> g \in present \ {t}
    BY <1>1, <2>3 DEF ViewInv, WillSee
  <2> QED
    BY <2>2, <2>4
<1> QED
  BY <1>1 DEF SeesWhoIsThere

-----------------------------------------------------------------------------
(* The component on its own.                                                 *)

ASpec == AInit /\ [][ANext]_avars

(* No step, no change.                                                       *)
LEMMA AccessStutters == ASSUME ATypes, CutInv, ViewInv, UNCHANGED avars PROVE ATypes' /\ CutInv' /\ ViewInv'
<1>1. ATypes'
  BY DEF avars, ATypes, KvOK, HubOK, SocketsOK, RequestOK
<1>2. CutInv'
  BY DEF avars, CutInv, OthersGone, PointerDropped, Admitted, Fresh, Quiet, Gone, Unread, Dropped, NotBy, live,
         present, open
<1>3. ViewInv'
  BY ViewStays DEF avars
<1> QED
  BY <1>1, <1>2, <1>3

(* Once a request that takes tokens away has ended well, no socket is on the *)
(* channel by one of them nor gets there later, whichever requests died,     *)
(* whatever a late read still found; and a device that has heard everything  *)
(* sees exactly who is on the channel (hub/core.ts, hub/revoked.ts).         *)
THEOREM CutAndSeen == ASSUME AccessAssumption PROVE ASpec => [](RevokedIsCut /\ SeesWhoIsThere)
<1> DEFINE Inv == ATypes /\ CutInv /\ ViewInv
<1>1. AInit => Inv
  BY ATypesInit, CutInit, ViewInit
<1>2. Inv /\ [ANext]_avars => Inv'
  BY ATypesStep, CutStep, ViewStep, AccessStutters
<1>3. Inv => RevokedIsCut /\ SeesWhoIsThere
  BY CutHolds, ViewHolds
<1> QED
  BY <1>1, <1>2, <1>3, PTL DEF ASpec
=============================================================================
