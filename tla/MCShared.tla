------------------------------ MODULE MCShared ------------------------------
(* What devices do to what they share: the history, the hub, the records of  *)
(* the shares, the rooms of notes, who is in them, and the keys. Eight parts *)
(* for TLC, of which one runs; each module says what its part is of the      *)
(* code.                                                                     *)
EXTENDS Naturals, Sequences, TLC

CONSTANTS None, Later, NoVersion, Owner, guest, d1, d2, n1, n2, n3, v1, v2, w1, w2,
    u1, u2, a1, a2, b1, p1, p2

(* None is no number, no socket of the hub's, no device's link and nothing   *)
(* of the keys.                                                              *)
ASSUME SharedAssumption ==
    /\ None \notin Nat
    /\ None \notin [at : {"open", "ended"}, device : {Owner, guest, None}, grant : (1..2) \cup {0, None},
                    up : BOOLEAN, sees : SUBSET (1..3), inbox : Seq({"here", "join", "leave"} \X (1..3))]
    /\ None \notin [carries : SUBSET {v1, v2}, ws : (1..5) \cup {None},
                    status : {"connecting", "connected", "offline", "unauthorized", "broken"},
                    opening : BOOLEAN, timer : BOOLEAN, ping : BOOLEAN, refusals : Nat,
                    revoked : SUBSET {v1, v2}]
    /\ None \notin {a1, a2, b1, p1, p2}
    /\ None \notin [key : {a1, a2, b1}, pass : {p1, p2, None}, salt : {a1, a2, b1, None}, epoch : Nat,
                    by : {a1, a2, b1}]
    /\ None \notin [by : {a1, a2, b1}, forced : BOOLEAN]
    /\ None \notin [by : {a1, a2, b1}, of : {p1, p2, None}]

VARIABLES
    part,
    published, blobs, young, log, pins, op, pinnings, cleans, crashes,
    tok, pointer, lateTok, latePointer, accessIssued, revoked, closed, request,
    asking, accessSocket, cut, accessUsed,
    linkWanted, key, link, linkSocket, admits, told, retries, timers, linkUsed,
    remote, spaces, localRoots, spacesVault, storage, place, recordsJob,
    recordsUsed,
    hub, roomsFile, shown, rooms, bound, cold, agreed, roomsWanted, pass,
    mover, roomsUsed,
    room, head, notesFile, live, stored, unwritten, baseline, notesJob,
    notesTyped, notesUsed,
    peopleSocket, tags, owner, inbox, here, reach, channel, sending, presence,
    opening, peopleUsed,
    salt, keyfile, manager, disk, task, linked, opened, keysIssued, keysTyped,
    commands, restarts

holderOf == [t \in {a1, a2, b1} |-> IF t = b1 THEN u2 ELSE u1]

(* What each push may hold: a note; another beside it or none; the second    *)
(* alone or both. A snapshot's tree is more than its change record names,    *)
(* and a note may come back as it was.                                       *)
tree(a, b) == [n \in {n1, n2} |-> IF n = n1 THEN a ELSE b]
pushed ==
    <<{tree(w1, NoVersion)}, {tree(w1, w2), tree(NoVersion, NoVersion)},
      {tree(NoVersion, w2), tree(w1, w2)}>>

History == INSTANCE VaultHistory WITH
    Collector <- {d1, d2}, Note <- {n1, n2}, Version <- {w1, w2},
    Written <- pushed, Retained <- 1, Excess <- 0, MaxPushes <- 3,
    MaxPins <- 2, MaxCleans <- 1, MaxCrashes <- 1, Races <- {}

Access == INSTANCE HubAccess WITH
    issued <- accessIssued, socket <- accessSocket, used <- accessUsed,
    Guest <- {guest}, Token <- 1..2, MaxTags <- 3, MaxRequests <- 2,
    MaxGone <- 1, MaxDeaths <- 1

Link == INSTANCE HubLink WITH
    wanted <- linkWanted, socket <- linkSocket, used <- linkUsed,
    Space <- {v1, v2}, MaxSockets <- 5, MaxSettings <- 2, MaxFlips <- 2,
    MaxLosses <- 2, Retries <- 1, UnauthorizedRetries <- 1

Records == INSTANCE SpaceRecords WITH
    job <- recordsJob, used <- recordsUsed,
    Device <- 1..2, Id <- {1}, Root <- {n1, n2}, Vault <- {v1, v2},
    CloseStep <- 5, MaxEdits <- 3, MaxSwitches <- 1, MaxDeaths <- 0

Rooms == INSTANCE NoteRooms WITH
    file <- roomsFile, wanted <- roomsWanted, used <- roomsUsed,
    Device <- {d1, d2}, Path <- {n1, n2, n3}, Start <- n1, MaxGen <- 2,
    MaxRenames <- 2, MaxCloses <- 1, MaxTimeouts <- 0

Notes == INSTANCE LiveNotes WITH
    file <- notesFile, job <- notesJob, typed <- notesTyped, used <- notesUsed,
    Device <- {d1, d2}, Fresh <- {}, MaxEdits <- 2, MaxOpens <- 2,
    MaxSyncs <- 2, MaxCrashes <- 1

Who == INSTANCE People WITH
    socket <- peopleSocket, used <- peopleUsed,
    Device <- {d1, d2}, Place <- {n1, n2}, MaxSockets <- 2, MaxMoves <- 1,
    MaxLocks <- 2

Keys == INSTANCE Keyring WITH
    issued <- keysIssued, typed <- keysTyped,
    Holder <- {u1, u2}, Task <- {a1, a2, b1}, holder <- holderOf,
    Passphrase <- {p1, p2}, Weak <- {}, Conditional <- TRUE, MaxTyped <- 2,
    MaxCommands <- 1, MaxRestarts <- 1

historyvars == <<
    published, blobs, young, log, pins, op, pinnings, cleans, crashes>>
accessvars == <<
    tok, pointer, lateTok, latePointer, accessIssued, revoked, closed, request,
    asking, accessSocket, cut, accessUsed>>
linkvars == <<
    linkWanted, key, link, linkSocket, admits, told, retries, timers, linkUsed>>
recordsvars == <<
    remote, spaces, localRoots, spacesVault, storage, place, recordsJob,
    recordsUsed>>
roomsvars == <<
    hub, roomsFile, shown, rooms, bound, cold, agreed, roomsWanted, pass,
    mover, roomsUsed>>
notesvars == <<
    room, head, notesFile, live, stored, unwritten, baseline, notesJob,
    notesTyped, notesUsed>>
peoplevars == <<
    peopleSocket, tags, owner, inbox, here, reach, channel, sending, presence,
    opening, peopleUsed>>
keysvars == <<
    salt, keyfile, manager, disk, task, linked, opened, keysIssued, keysTyped,
    commands, restarts>>

allvars == <<part, historyvars, accessvars, linkvars, recordsvars, roomsvars, notesvars,
        peoplevars, keysvars>>

(* A part that does not run holds nothing.                                   *)
NoHistory ==
    /\ published = None /\ blobs = None /\ young = None /\ log = None
    /\ pins = None /\ op = None /\ pinnings = None /\ cleans = None
    /\ crashes = None
NoAccess ==
    /\ tok = None /\ pointer = None /\ lateTok = None /\ latePointer = None
    /\ accessIssued = None /\ revoked = None /\ closed = None /\ request = None
    /\ asking = None /\ accessSocket = None /\ cut = None /\ accessUsed = None
NoLink ==
    /\ linkWanted = None /\ key = None /\ link = None /\ linkSocket = None
    /\ admits = None /\ told = None /\ retries = None /\ timers = None
    /\ linkUsed = None
NoRecords ==
    /\ remote = None /\ spaces = None /\ localRoots = None
    /\ spacesVault = None /\ storage = None /\ place = None
    /\ recordsJob = None /\ recordsUsed = None
NoRooms ==
    /\ hub = None /\ roomsFile = None /\ shown = None /\ rooms = None
    /\ bound = None /\ cold = None /\ agreed = None /\ roomsWanted = None
    /\ pass = None /\ mover = None /\ roomsUsed = None
NoNotes ==
    /\ room = None /\ head = None /\ notesFile = None /\ live = None
    /\ stored = None /\ unwritten = None /\ baseline = None /\ notesJob = None
    /\ notesTyped = None /\ notesUsed = None
NoWho ==
    /\ peopleSocket = None /\ tags = None /\ owner = None /\ inbox = None
    /\ here = None /\ reach = None /\ channel = None /\ sending = None
    /\ presence = None /\ opening = None /\ peopleUsed = None
NoKeys ==
    /\ salt = None /\ keyfile = None /\ manager = None /\ disk = None
    /\ task = None /\ linked = None /\ opened = None /\ keysIssued = None
    /\ keysTyped = None /\ commands = None /\ restarts = None

Init ==
    \/ part = "history" /\ History!HInit /\ NoAccess /\ NoLink /\ NoRecords /\ NoRooms /\ NoNotes /\ NoWho /\ NoKeys
    \/ part = "access" /\ Access!AInit /\ NoHistory /\ NoLink /\ NoRecords /\ NoRooms /\ NoNotes /\ NoWho /\ NoKeys
    \/ part = "link" /\ Link!LInit /\ NoHistory /\ NoAccess /\ NoRecords /\ NoRooms /\ NoNotes /\ NoWho /\ NoKeys
    \/ part = "records" /\ Records!SInit /\ NoHistory /\ NoAccess /\ NoLink /\ NoRooms /\ NoNotes /\ NoWho /\ NoKeys
    \/ part = "rooms" /\ Rooms!NInit /\ NoHistory /\ NoAccess /\ NoLink /\ NoRecords /\ NoNotes /\ NoWho /\ NoKeys
    \/ part = "notes" /\ Notes!IInit /\ NoHistory /\ NoAccess /\ NoLink /\ NoRecords /\ NoRooms /\ NoWho /\ NoKeys
    \/ part = "people" /\ Who!PInit /\ NoHistory /\ NoAccess /\ NoLink /\ NoRecords /\ NoRooms /\ NoNotes /\ NoKeys
    \/ part = "keys" /\ Keys!KInit /\ NoHistory /\ NoAccess /\ NoLink /\ NoRecords /\ NoRooms /\ NoNotes /\ NoWho

(* The part that runs is chosen once, and the others stand still.            *)
HistoryStep ==
    /\ part = "history" /\ UNCHANGED part
    /\ History!HNext
    /\ UNCHANGED <<accessvars, linkvars, recordsvars, roomsvars, notesvars, peoplevars,
        keysvars>>

AccessStep ==
    /\ part = "access" /\ UNCHANGED part
    /\ Access!ANext
    /\ UNCHANGED <<historyvars, linkvars, recordsvars, roomsvars, notesvars, peoplevars,
        keysvars>>

LinkStep ==
    /\ part = "link" /\ UNCHANGED part
    /\ Link!LNext
    /\ UNCHANGED <<historyvars, accessvars, recordsvars, roomsvars, notesvars, peoplevars,
        keysvars>>

RecordsStep ==
    /\ part = "records" /\ UNCHANGED part
    /\ Records!SNext
    /\ UNCHANGED <<historyvars, accessvars, linkvars, roomsvars, notesvars, peoplevars,
        keysvars>>

RoomsStep ==
    /\ part = "rooms" /\ UNCHANGED part
    /\ Rooms!NNext
    /\ UNCHANGED <<historyvars, accessvars, linkvars, recordsvars, notesvars, peoplevars,
        keysvars>>

NotesStep ==
    /\ part = "notes" /\ UNCHANGED part
    /\ Notes!INext
    /\ UNCHANGED <<historyvars, accessvars, linkvars, recordsvars, roomsvars, peoplevars,
        keysvars>>

WhoStep ==
    /\ part = "people" /\ UNCHANGED part
    /\ Who!PNext
    /\ UNCHANGED <<historyvars, accessvars, linkvars, recordsvars, roomsvars, notesvars,
        keysvars>>

KeysStep ==
    /\ part = "keys" /\ UNCHANGED part
    /\ Keys!KNext
    /\ UNCHANGED <<historyvars, accessvars, linkvars, recordsvars, roomsvars, notesvars,
        peoplevars>>

Next ==
    \/ HistoryStep
    \/ AccessStep
    \/ LinkStep
    \/ RecordsStep
    \/ RoomsStep
    \/ NotesStep
    \/ WhoStep
    \/ KeysStep

Spec == Init /\ [][Next]_allvars

(* Devices, vaults, tasks of one device and passphrases: the parts they      *)
(* belong to tell them apart by nothing.                                     *)
Interchangeable ==
    Permutations({d1, d2}) \cup Permutations({v1, v2})
        \cup Permutations({a1, a2}) \cup Permutations({p1, p2})

(* VaultHistory: the head and what a walk over the log offers can be         *)
(* downloaded, and each version is what its snapshot held.                   *)
HistorySafe == part = "history" =>
    /\ History!HeadIntact
    /\ History!HistoryIsTrue
    /\ History!ChainIntact

(* VaultHistory: so can what the pins offer, as long as nobody deep cleans.  *)
VersionsSafe == part = "history" /\ cleans = 0 => History!VersionsIntact

(* HubAccess: who was revoked is cut off, and who is there is told of.      *)
AccessSafe == part = "access" =>
    /\ Access!RevokedIsCut
    /\ Access!SeesWhoIsThere

(* HubLink: listeners were told the status, and no space is left waiting.   *)
LinkSafe == part = "link" =>
    /\ Link!ToldIsStatus
    /\ Link!NeverStranded

(* SpaceRecords: a share is where its record says, within its own vault, and *)
(* no record of a share gives way to an older one.                           *)
RecordsSafe == 
    /\ [](part = "records" => Records!MountedWhereItIs /\ Records!StaysInItsVault)
    /\ [][part = "records" => Records!GivesWayToNewer]_recordsvars

(* NoteRooms: two devices edit one path in one room.                        *)
OneRoomAPath == part = "rooms" => Rooms!OneRoomAPath

(* LiveNotes: the file sync takes back nothing a room agreed on.            *)
NothingTakenBack == [][part = "notes" => Notes!TakesNothingBack]_notesvars

(* People: a device shows who is there, as last said.                       *)
ShowsWhoIsHere == part = "people" => Who!ShowsWhoIsHere

(* Keyring: one data key, remembered and cached only as it was proven.      *)
KeyringSafe == part = "keys" =>
    /\ Keys!OneDataKey
    /\ Keys!KeyOfItsPassphrase
    /\ Keys!OnlyProvenOnDisk
=============================================================================
