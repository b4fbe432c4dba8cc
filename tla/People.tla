-------------------------------- MODULE People --------------------------------
(* Who is where in one space (presence/people.ts, channel.ts): each device    *)
(* seals its open file and sends it over its hub socket; the hub keeps none   *)
(* of it, tells a newcomer who is there and everyone else of the newcomer,    *)
(* and each device opens what it holds the key for, one await at a time.      *)
EXTENDS Naturals, Sequences, FiniteSets

CONSTANTS
    Device, None,
    Place,          \* what a device announces: its open file, idle or not
    MaxSockets, MaxMoves, MaxLocks

VARIABLES
    socket,         \* per device, the tag of its open hub socket, or 0
    tags,           \* the tags given so far
    owner,          \* per tag, the device behind it
    inbox,          \* per device, the frames on their way to it
    here,           \* per device, what it has to say
    reach,          \* per device, whether its key is within reach
    channel,        \* per device: its access, the read of it under way, what was said
    sending,        \* per device, the announcements being sealed, in order
    presence,       \* per device: vouched, sealed, open; keys: may it open
    opening,        \* per device, the payloads being opened
    used
pvars == <<socket, tags, owner, inbox, here, reach, channel, sending, presence, opening, used>>

Tag == 1..MaxSockets
nothing == [t \in Tag |-> None]

PInit ==
    /\ socket = [d \in Device |-> 0]
    /\ tags = 0
    /\ owner = nothing
    /\ inbox = [d \in Device |-> <<>>]
    /\ here \in [Device -> {CHOOSE p \in Place : TRUE}]
    /\ reach = [d \in Device |-> TRUE]
    /\ channel = [d \in Device |-> [access |-> FALSE, unlocking |-> FALSE, again |-> FALSE, answer |-> None, sent |-> None]]
    /\ sending = [d \in Device |-> <<>>]
    /\ presence = [d \in Device |-> [vouched |-> {}, sealed |-> nothing, open |-> nothing, keys |-> FALSE]]
    /\ opening = [d \in Device |-> {}]
    /\ used = [moves |-> 0, locks |-> 0]

spend(what, max) == used[what] < max /\ used' = [used EXCEPT ![what] = @ + 1]

present == {d \in Device : socket[d] # 0}
toOthers(d, frame) ==
    inbox' = [e \in Device |-> IF e \in present \ {d} THEN Append(inbox[e], frame) ELSE inbox[e]]

(* unlock: one run at a time, one more asked for meanwhile.                   *)
unlocked(c) == IF c.unlocking THEN [c EXCEPT !.again = TRUE]
               ELSE [c EXCEPT !.unlocking = TRUE, !.again = FALSE]

(* announce: not what was said last, and only with the key, on a socket.      *)
says(d, c, place, connected) == c.access /\ connected /\ c.sent # place
announced(d, c, place, connected) ==
    IF says(d, c, place, connected) THEN [c EXCEPT !.sent = place] ELSE c
announcing(d, c, place, connected) ==
    IF says(d, c, place, connected) THEN Append(sending[d], place) ELSE sending[d]

-----------------------------------------------------------------------------
(* The hub socket.                                                            *)

Connect(d) ==
    LET tag == tags + 1
        heres == [i \in 1..Cardinality(present) |->
                    [type |-> "here",
                     from |-> CHOOSE t \in Tag :
                        /\ t \in {socket[e] : e \in present}
                        /\ Cardinality({e \in present : socket[e] < t}) = i - 1]]
    IN  /\ socket[d] = 0 /\ tags < MaxSockets
        /\ tags' = tag
        /\ owner' = [owner EXCEPT ![tag] = d]
        /\ socket' = [socket EXCEPT ![d] = tag]
        /\ inbox' = [e \in Device |->
               CASE e = d -> heres
                 [] e \in present -> Append(inbox[e], [type |-> "join", from |-> tag])
                 [] OTHER -> inbox[e]]
        /\ channel' = [channel EXCEPT ![d] = unlocked([@ EXCEPT !.sent = None])]
        /\ UNCHANGED <<here, reach, sending, presence, opening, used>>

Disconnect(d) ==
    /\ socket[d] # 0
    /\ socket' = [socket EXCEPT ![d] = 0]
    /\ inbox' = [e \in Device |->
           CASE e = d -> <<>>
             [] e \in present -> Append(inbox[e], [type |-> "leave", from |-> socket[d]])
             [] OTHER -> inbox[e]]
    /\ channel' = [channel EXCEPT ![d].sent = None]
    /\ presence' = [presence EXCEPT ![d] =
           [@ EXCEPT !.vouched = {}, !.sealed = nothing, !.open = nothing]]
    /\ UNCHANGED <<tags, owner, here, reach, sending, opening, used>>

-----------------------------------------------------------------------------
(* This device's own place and key.                                           *)

SetHere(d, place) ==
    /\ spend("moves", MaxMoves) /\ place # here[d]
    /\ here' = [here EXCEPT ![d] = place]
    /\ sending' = [sending EXCEPT ![d] = announcing(d, channel[d], place, socket[d] # 0)]
    /\ channel' = [channel EXCEPT ![d] =
           IF @.access THEN announced(d, @, place, socket[d] # 0) ELSE unlocked(@)]
    /\ UNCHANGED <<socket, tags, owner, inbox, reach, presence, opening>>

(* The passphrase forgotten or typed again: the settings refresh the channel. *)
ReachChanges(d) ==
    /\ spend("locks", MaxLocks)
    /\ reach' = [reach EXCEPT ![d] = ~@]
    /\ channel' = [channel EXCEPT ![d] = unlocked(@)]
    /\ UNCHANGED <<socket, tags, owner, inbox, here, sending, presence, opening>>

sealedTags(d) == {t \in Tag : presence[d].sealed[t] # None}

ReadAccess(d) ==
    /\ channel[d].unlocking /\ channel[d].answer = None
    /\ channel' = [channel EXCEPT ![d].answer = reach[d]]
    /\ UNCHANGED <<socket, tags, owner, inbox, here, reach, sending, presence, opening, used>>

(* Mutant: a read that may be stale is not done again.                        *)
endedOnce(c) == [c EXCEPT !.unlocking = FALSE, !.again = FALSE, !.answer = None]

(* The read asked for meanwhile starts as this one ends.                      *)
ended(c) == [c EXCEPT !.unlocking = @ /\ c.again, !.again = FALSE, !.answer = None]

(* access answered: locked, or unlocked with what was sealed meanwhile opened.*)
Unlock(d) ==
    LET got == channel[d].answer
        c == [channel[d] EXCEPT !.access = got,
                                !.sent = IF got = channel[d].access THEN @ ELSE None]
    IN  /\ got # None
        /\ IF got
           THEN /\ channel' = [channel EXCEPT ![d] =
                       ended(announced(d, c, here[d], socket[d] # 0))]
                /\ sending' = [sending EXCEPT ![d] = announcing(d, c, here[d], socket[d] # 0)]
                /\ presence' = [presence EXCEPT ![d].keys = TRUE]
                /\ opening' = [opening EXCEPT ![d] =
                       IF presence[d].keys THEN @
                       ELSE @ \cup {<<t, presence[d].sealed[t]>> : t \in sealedTags(d)}]
           ELSE /\ channel' = [channel EXCEPT ![d] = ended(c)]
                /\ presence' = [presence EXCEPT ![d] = [@ EXCEPT !.keys = FALSE, !.open = nothing]]
                /\ UNCHANGED <<sending, opening>>
        /\ UNCHANGED <<socket, tags, owner, inbox, here, reach, used>>

(* The announcement is sealed and leaves over whatever socket there is.       *)
SendSealed(d) ==
    /\ sending[d] # <<>>
    /\ sending' = [sending EXCEPT ![d] = Tail(@)]
    /\ IF socket[d] = 0 THEN UNCHANGED inbox
       ELSE toOthers(d, [type |-> "peer", from |-> socket[d], place |-> Head(sending[d])])
    /\ UNCHANGED <<socket, tags, owner, here, reach, channel, presence, opening, used>>

-----------------------------------------------------------------------------
(* Frames.                                                                    *)

(* Mutant: a newcomer is told nothing new.                                    *)
toldAgainNot(c) == c

(* Presence is never stored: each newcomer must be told again.                *)
toldAgain(c) == [c EXCEPT !.sent = None]

Receive(d) ==
    LET f == Head(inbox[d])
        c == IF f.type = "join" THEN toldAgain(channel[d]) ELSE channel[d]
        p == presence[d]
    IN  /\ inbox[d] # <<>>
        /\ inbox' = [inbox EXCEPT ![d] = Tail(@)]
        /\ sending' = [sending EXCEPT ![d] =
               IF f.type = "join" THEN announcing(d, c, here[d], TRUE) ELSE @]
        /\ channel' = [channel EXCEPT ![d] =
               IF f.type = "join" THEN announced(d, c, here[d], TRUE) ELSE @]
        /\ presence' = [presence EXCEPT ![d] =
               CASE f.type \in {"join", "here"} -> [p EXCEPT !.vouched = @ \cup {f.from}]
                 [] f.type = "leave" -> [p EXCEPT !.vouched = @ \ {f.from},
                                                  !.sealed[f.from] = None, !.open[f.from] = None]
                 [] f.type = "peer" -> [p EXCEPT !.sealed[f.from] = f.place]]
        /\ opening' = [opening EXCEPT ![d] =
               IF f.type = "peer" /\ p.keys THEN @ \cup {<<f.from, f.place>>} ELSE @]
        /\ UNCHANGED <<socket, tags, owner, here, reach, used>>

(* Mutant: whichever opens last is shown.                                     *)
currentAlways(p, tag, place) == p.keys

(* A later announcement, a leave or a lost key overtook it.                   *)
current(p, tag, place) == p.keys /\ p.sealed[tag] = place

Opened(d) ==
    \E each \in opening[d] :
        /\ opening' = [opening EXCEPT ![d] = @ \ {each}]
        /\ presence' = [presence EXCEPT ![d].open[each[1]] =
               IF current(presence[d], each[1], each[2]) THEN each[2] ELSE @]
        /\ UNCHANGED <<socket, tags, owner, inbox, here, reach, channel, sending, used>>

PNext ==
    \E d \in Device :
        \/ Connect(d) \/ Disconnect(d) \/ ReachChanges(d) \/ ReadAccess(d) \/ Unlock(d)
        \/ SendSealed(d) \/ Receive(d) \/ Opened(d)
        \/ \E p \in Place : SetHere(d, p)

-----------------------------------------------------------------------------
(* Properties.                                                                *)

Quiet ==
    \A d \in Device : inbox[d] = <<>> /\ sending[d] = <<>> /\ opening[d] = {} /\ ~channel[d].unlocking

shown(d) == {<<t, presence[d].open[t]>> : t \in {t \in presence[d].vouched : presence[d].open[t] # None}}

(* With nothing on its way, a device with the key shows each other device of  *)
(* the space that has it, where it is now, and nobody who left; whatever the  *)
(* order of sockets, keys and announcements was.                              *)
ShowsWhoIsHere ==
    Quiet => \A d \in Device : (socket[d] # 0 /\ reach[d]) =>
        /\ \A e \in present \ {d} : reach[e] => <<socket[e], here[e]>> \in shown(d)
        /\ \A s \in shown(d) : s[1] \in {socket[e] : e \in present \ {d}}
=============================================================================
