---------------------------- MODULE MCConverges ----------------------------
(* What must happen at last, on small instances for TLC: one of three parts  *)
(* runs, each under the fairness its own module states.                      *)
EXTENDS Naturals, TLC

CONSTANTS a, b, p, h1, h2, NoFile, None, e0, e1, ra, rb, v1, v2

VARIABLES
    part,
    heads, objects, disk, baseline, published, uploads, op, late, edits, keeps, faults,
    chosen, held, deleted, won,
    room, names, up, down, cur, linked, follows, session, view, liveDisk,
    unwritten, stored, typed, rotations, saves, liveFaults, past,
    remote, spaces, localRoots, spacesVault, storage, place, job, used

Sync == INSTANCE VaultSync WITH
    Path <- {p}, Hash <- {h1, h2}, Scene <- [h \in {h1, h2} |-> h],
    Device <- {a, b}, MaxEdits <- 2, MaxKeeps <- 1, MaxPuts <- 6, MaxFaults <- 1,
    MaxLag <- 0, Exclusive <- {"put", "verify"}, StartSynced <- TRUE

Room == INSTANCE LiveRoom WITH
    disk <- liveDisk, faults <- liveFaults,
    Device <- {a, b}, Edit <- {e0, e1}, Start <- {e0}, CompactAfter <- 9, MaxGen <- 1,
    MaxRotations <- 1, MaxSaves <- 0, MaxSent <- 2, MaxFaults <- 1,
    Fault <- {"drop", "over", "early"}

Records == INSTANCE SpaceRecords WITH
    Device <- {1, 2}, Id <- {1}, Root <- {ra, rb}, Vault <- {v1, v2},
    CloseStep <- 5, MaxEdits <- 2, MaxSwitches <- 0, MaxDeaths <- 1

vaultvars == <<heads, objects, disk, baseline, published, uploads, op, late, edits,
               keeps, faults, chosen, held, deleted, won>>
roomvars == <<room, names, up, down, cur, linked, follows, session, view, liveDisk,
              unwritten, stored, typed, rotations, saves, liveFaults, past>>
recordvars == <<remote, spaces, localRoots, spacesVault, storage, place, job, used>>

(* A part that does not run holds nothing.                                   *)
NoSync ==
    /\ heads = None /\ objects = None /\ disk = None /\ baseline = None
    /\ published = None /\ uploads = None /\ op = None /\ late = None
    /\ edits = None /\ keeps = None /\ faults = None
    /\ chosen = None /\ held = None /\ deleted = None /\ won = None
NoRoom ==
    /\ room = None /\ names = None /\ up = None /\ down = None /\ cur = None
    /\ linked = None /\ follows = None /\ session = None /\ view = None
    /\ liveDisk = None /\ unwritten = None /\ stored = None /\ typed = None
    /\ rotations = None /\ saves = None /\ liveFaults = None /\ past = None
NoRecords ==
    /\ remote = None /\ spaces = None /\ localRoots = None /\ spacesVault = None
    /\ storage = None /\ place = None /\ job = None /\ used = None

Init ==
    \/ part = "vault" /\ Sync!Init /\ NoRoom /\ NoRecords
    \/ part = "room" /\ Room!Init /\ NoSync /\ NoRecords
    \/ part = "records" /\ Records!SInit /\ NoSync /\ NoRoom

(* The part that runs is chosen once, and the others stand still.            *)
vaultRuns == part = "vault" /\ UNCHANGED <<part, roomvars, recordvars>>
roomRuns == part = "room" /\ UNCHANGED <<part, vaultvars, recordvars>>
recordsRun == part = "records" /\ UNCHANGED <<part, vaultvars, roomvars>>

VaultStep == part = "vault" /\ Sync!Next /\ vaultRuns
RoomStep == part = "room" /\ Room!Next /\ roomRuns
RecordsStep == part = "records" /\ Records!SNext /\ recordsRun

Next == VaultStep \/ RoomStep \/ RecordsStep

allvars == <<part, vaultvars, roomvars, recordvars>>

(* The fairness of each module (VaultSync.Fairness, LiveRoom.Fairness,       *)
(* SpaceRecords.SFairness), of the part that runs.                           *)
VaultFairness ==
    \A d \in {a, b} :
        /\ WF_allvars(part = "vault" /\ Sync!Start(d) /\ vaultRuns)
        /\ WF_allvars(part = "vault" /\ Sync!Continue(d) /\ vaultRuns)
        /\ WF_allvars(part = "vault" /\ (\E w \in late[d] : Sync!WriteLate(d, w)) /\ vaultRuns)

RoomFairness ==
    /\ WF_allvars(part = "room" /\ (\E s \in {a, b} \X {0, 1} : Room!HubStep(s)) /\ roomRuns)
    /\ \A d \in {a, b} : WF_allvars(part = "room" /\ Room!Act(d) /\ roomRuns)

RecordsFairness ==
    \A d \in {1, 2} :
        /\ WF_allvars(part = "records" /\ Records!ReadRecords(d) /\ recordsRun)
        /\ WF_allvars(part = "records" /\ Records!PutRecord(d, 1) /\ recordsRun)
        /\ WF_allvars(part = "records" /\ Records!FinishSync(d) /\ recordsRun)

FairSpec ==
    Init /\ [][Next]_allvars /\ VaultFairness /\ RoomFairness /\ RecordsFairness

(* Devices end with one vault; VaultSync says of which code.                 *)
VaultConverges == <>[](part = "vault" => Sync!Agree)

(* Devices in one room end with one text; LiveRoom says of which code.       *)
RoomConverges == <>[](part = "room" => Room!Agree)

(* Devices end with the same shares; SpaceRecords says of which code.        *)
RecordsConverge == <>[](part = "records" => Records!Agree)
=============================================================================
