------------------------------ MODULE LiveNotes ------------------------------
(* One note between the live room and the file sync (sync/live-notes.ts,      *)
(* live/cold/cold-sync.ts, agreed-texts.ts): what a push marks as the room's  *)
(* snapshot, which incoming version an open room takes in itself, which is    *)
(* written to a closed note, and what the note's next open merges against.    *)
(* A text is the set of the edits in it; nobody deletes, so an edit that goes *)
(* was undone.  A room's round trip is one step here (LiveRoom has it whole). *)
EXTENDS Naturals

CONSTANTS
    Device, None, Later,
    Fresh,          \* the devices where the note was never live before
    MaxEdits, MaxOpens, MaxSyncs, MaxCrashes

VARIABLES
    room,           \* [text, seq] at the hub; seq 0: nothing in it yet
    head,           \* [text, mark] the vault's version; mark: the room's seq, or None
    file,           \* per device, the text on disk
    live,           \* per device, its session: the document, what the hub lacks of it
    stored,         \* per device, the agreed text on disk, or None
    unwritten,      \* per device, the agreed text in memory only, or None
    baseline,       \* per device, the version last synced
    job,            \* per device, its running pull or push
    typed, used
ivars == <<room, head, file, live, stored, unwritten, baseline, job, typed, used>>

Resting == [at |-> "rest"]
Closed == [at |-> "closed"]
first == [text |-> {}, mark |-> None]

(* Synced everywhere; live before on every device but the fresh ones, or on   *)
(* none at all.                                                               *)
IInit ==
    /\ room = [text |-> {}, seq |-> IF Fresh = Device THEN 0 ELSE 1]
    /\ head = first
    /\ file = [d \in Device |-> {}]
    /\ live = [d \in Device |-> Closed]
    /\ stored = [d \in Device |-> IF d \in Fresh THEN None ELSE [text |-> {}, seq |-> 1, onDisk |-> TRUE]]
    /\ unwritten = [d \in Device |-> None]
    /\ baseline = [d \in Device |-> first]
    /\ job = [d \in Device |-> Resting]
    /\ typed = 0
    /\ used = [opens |-> 0, syncs |-> 0, crashes |-> 0]

spend(what, max) == used[what] < max /\ used' = [used EXCEPT ![what] = @ + 1]

(* A text with the changes from `base` to `now` replayed onto it.             *)
merge(text, base, now) == (text \ (base \ now)) \cup (now \ base)

-----------------------------------------------------------------------------
(* AgreedTexts: the latest agreement, and the one fit as a merge base.        *)

agreedGet(d) == IF unwritten[d] # None THEN unwritten[d] ELSE stored[d]

(* Mutant: an agreement is taken to be in the file.                           *)
onDiskAlways(d, u) == TRUE

onDisk(d, u) == u.onDisk \/ file[d] = u.text

agreedBase(d) ==
    LET u == unwritten[d]
    IN  IF u # None /\ onDisk(d, u) THEN u.text
        ELSE IF stored[d] # None THEN stored[d].text
        ELSE baseline[d].text

(* writeUnwritten: kept once the file holds it, dropped after a few tries.    *)
WriteAgreed(d) ==
    LET u == unwritten[d]
    IN  /\ u # None
        /\ stored' = [stored EXCEPT ![d] = IF onDisk(d, u) THEN u ELSE @]
        /\ unwritten' = [unwritten EXCEPT ![d] = None]
        /\ UNCHANGED <<room, head, file, live, baseline, job, typed, used>>

-----------------------------------------------------------------------------
(* The note's view and its room.                                              *)

(* The person types, in the view or in a closed note's file.                  *)
Type(d) ==
    /\ typed < MaxEdits /\ typed' = typed + 1
    /\ \/ /\ live[d].at = "open"
          /\ live' = [live EXCEPT ![d].doc = @ \cup {typed'}]
          /\ UNCHANGED file
       \/ /\ live[d].at = "closed"
          /\ file' = [file EXCEPT ![d] = @ \cup {typed'}]
          /\ UNCHANGED live
    /\ UNCHANGED <<room, head, stored, unwritten, baseline, job, used>>

OpenNote(d) ==
    /\ live[d].at = "closed" /\ spend("opens", MaxOpens)
    /\ live' = [live EXCEPT ![d] = [at |-> "asking"]]
    /\ UNCHANGED <<room, head, file, stored, unwritten, baseline, job, typed>>

(* reconcile: the base first, then the disk.                                  *)
ReadBase(d) ==
    /\ live[d].at = "asking" /\ room.seq > 0
    /\ live' = [live EXCEPT ![d] = [at |-> "base", base |-> agreedBase(d)]]
    /\ UNCHANGED <<room, head, file, stored, unwritten, baseline, job, typed, used>>

JoinRoom(d) ==
    /\ live[d].at = "base"
    /\ live' = [live EXCEPT ![d] =
          [at |-> "open", doc |-> merge(room.text, live[d].base, file[d]),
           agreed |-> room.text, seq |-> room.seq]]
    /\ UNCHANGED <<room, head, file, stored, unwritten, baseline, job, typed, used>>

SeedRoom(d) ==
    /\ live[d].at = "asking" /\ room.seq = 0
    /\ room' = [text |-> file[d], seq |-> 1]
    /\ live' = [live EXCEPT ![d] =
          [at |-> "open", doc |-> file[d], agreed |-> file[d], seq |-> 1]]
    /\ unwritten' = [unwritten EXCEPT ![d] = [text |-> file[d], seq |-> 1, onDisk |-> FALSE]]
    /\ UNCHANGED <<head, file, stored, baseline, job, typed, used>>

settledHere(d) == live[d].doc = live[d].agreed

(* Its own changes reach the hub and everyone else's reach it: agreed.        *)
Exchange(d) ==
    LET l == live[d]
        text == merge(room.text, l.agreed, l.doc)
        seq == room.seq + (IF settledHere(d) THEN 0 ELSE 1)
    IN  /\ l.at = "open" /\ ~(settledHere(d) /\ l.seq = room.seq)
        /\ room' = [text |-> text, seq |-> seq]
        /\ live' = [live EXCEPT ![d] = [@ EXCEPT !.doc = text, !.agreed = text, !.seq = seq]]
        /\ unwritten' = [unwritten EXCEPT ![d] = [text |-> text, seq |-> seq, onDisk |-> FALSE]]
        /\ UNCHANGED <<head, file, stored, baseline, job, typed, used>>

(* The view saves its file, a moment later or as it closes.                   *)
SaveView(d) ==
    /\ live[d].at = "open" /\ file[d] # live[d].doc
    /\ file' = [file EXCEPT ![d] = live[d].doc]
    /\ UNCHANGED <<room, head, live, stored, unwritten, baseline, job, typed, used>>

CloseNote(d) ==
    /\ live[d].at # "closed"
    /\ file' = [file EXCEPT ![d] = IF live[d].at = "open" THEN live[d].doc ELSE @]
    /\ live' = [live EXCEPT ![d] = Closed]
    /\ UNCHANGED <<room, head, stored, unwritten, baseline, job, typed, used>>

Crash(d) ==
    /\ spend("crashes", MaxCrashes)
    /\ live' = [live EXCEPT ![d] = Closed]
    /\ unwritten' = [unwritten EXCEPT ![d] = None]
    /\ job' = [job EXCEPT ![d] = Resting]
    /\ UNCHANGED <<room, head, file, stored, baseline, typed>>

-----------------------------------------------------------------------------
(* The file sync.                                                             *)

(* mark: the snapshot a local version is, None for a plain edit, or later.    *)
mark(d, text) ==
    LET l == live[d]
        known == agreedGet(d)
    IN  CASE l.at \in {"asking", "base"} -> Later
          [] l.at = "open" /\ ~settledHere(d) -> Later
          [] known # None /\ known.text = text -> known.seq
          [] l.at = "open" -> Later
          [] OTHER -> None

Compare(d) ==
    /\ job[d] = Resting /\ spend("syncs", MaxSyncs)
    /\ job' = [job EXCEPT ![d] = [at |-> "compared", local |-> file[d], remote |-> head]]
    /\ UNCHANGED <<room, head, file, live, stored, unwritten, baseline, typed>>

localChanged(d) == job[d].local # baseline[d].text
remoteChanged(d) == job[d].remote.text # baseline[d].text

(* Nothing to pull or push: the same version on both sides becomes the base.  *)
Reconcile(d) ==
    /\ job[d].at = "compared" /\ job[d].local = job[d].remote.text
    /\ baseline' = [baseline EXCEPT ![d] = job[d].remote]
    /\ job' = [job EXCEPT ![d] = Resting]
    /\ UNCHANGED <<room, head, file, live, stored, unwritten, typed, used>>

(* liveMarks: unsettled, or no newer than the remote's snapshot, it waits.    *)
publishes(marked, remote) ==
    /\ marked # Later
    /\ (marked # None /\ remote.mark # None) => marked > remote.mark

(* The upload reads the file again; a head that moved on refuses the push.    *)
Push(d) ==
    LET j == job[d]
        marked == mark(d, j.local)
        ours == [text |-> j.local, mark |-> marked]
    IN  /\ j.at = "compared" /\ localChanged(d) /\ ~remoteChanged(d) /\ j.local # j.remote.text
        /\ IF publishes(marked, j.remote) /\ head = j.remote /\ file[d] = j.local
           THEN head' = ours /\ baseline' = [baseline EXCEPT ![d] = ours]
           ELSE UNCHANGED <<head, baseline>>
        /\ job' = [job EXCEPT ![d] = Resting]
        /\ UNCHANGED <<room, file, live, stored, unwritten, typed, used>>

settleAs(d, at) == job' = [job EXCEPT ![d].at = at]

(* settleLive for an incoming version, of a pull or of a conflict.  A session *)
(* whose room stays silent leaves the file to the sync.                       *)
Offer(d) ==
    LET j == job[d]
        l == live[d]
        r == j.remote
    IN  /\ j.at = "compared" /\ remoteChanged(d) /\ j.local # r.text
        /\ CASE l.at = "open" /\ r.mark # None ->        \* a snapshot the room has already
                  /\ IF r.mark <= l.seq
                     THEN settleAs(d, "settled") /\ file' = [file EXCEPT ![d] = l.doc]
                     ELSE settleAs(d, "given up") /\ UNCHANGED file
                  /\ UNCHANGED live
             [] l.at = "open" /\ r.mark = None ->        \* merged in, and saved
                  LET doc == merge(l.doc, baseline[d].text, r.text)
                  IN  /\ live' = [live EXCEPT ![d].doc = doc]
                      /\ file' = [file EXCEPT ![d] = doc]
                      /\ settleAs(d, "settled")
             [] l.at # "open" ->
                  /\ \/ l.at # "closed" /\ settleAs(d, "given up")
                     \/ LET known == agreedGet(d)
                            ours == IF known # None /\ known.text = j.local THEN known.seq ELSE None
                        IN  settleAs(d, CASE r.mark = None \/ ours = None ->
                                               IF localChanged(d) THEN "merge" ELSE "write"
                                          [] r.mark > ours -> "write"
                                          [] OTHER -> "settled")
                  /\ UNCHANGED <<file, live>>
        /\ UNCHANGED <<room, head, stored, unwritten, baseline, typed, used>>

(* The write of a version: a view on the note takes it in.                    *)
written(d, text) ==
    /\ file' = [file EXCEPT ![d] = text]
    /\ live' = IF live[d].at = "open"
               THEN [live EXCEPT ![d].doc = merge(@, file[d], text)] ELSE live

(* writeIncoming: the file, if the note is still as compared.                 *)
WriteIncoming(d) ==
    LET j == job[d]
    IN  /\ j.at = "write"
        /\ IF file[d] = j.local THEN written(d, j.remote.text) /\ settleAs(d, "wrote")
           ELSE settleAs(d, "given up") /\ UNCHANGED <<file, live>>
        /\ UNCHANGED <<room, head, stored, unwritten, baseline, typed, used>>

(* A conflict merged three-way in the file.                                   *)
WriteMerged(d) ==
    LET j == job[d]
    IN  /\ j.at = "merge"
        /\ written(d, merge(j.remote.text, baseline[d].text, file[d]))
        /\ settleAs(d, "wrote")
        /\ UNCHANGED <<room, head, stored, unwritten, baseline, typed, used>>

(* wrote, grewFrom: the snapshot becomes the note's merge base.               *)
Wrote(d) ==
    LET r == job[d].remote
    IN  /\ job[d].at = "wrote"
        /\ unwritten' = IF r.mark = None THEN unwritten
                        ELSE [unwritten EXCEPT ![d] = [text |-> r.text, seq |-> r.mark, onDisk |-> TRUE]]
        /\ settleAs(d, "settled")
        /\ UNCHANGED <<room, head, file, live, stored, baseline, typed, used>>

(* Mutant: a version the room did not take counts as seen.                    *)
seenAnyway(j) == TRUE

seen(j) == j.at = "settled"

FinishPull(d) ==
    /\ job[d].at \in {"settled", "given up"}
    /\ baseline' = [baseline EXCEPT ![d] = IF seen(job[d]) THEN job[d].remote ELSE @]
    /\ job' = [job EXCEPT ![d] = Resting]
    /\ UNCHANGED <<room, head, file, live, stored, unwritten, typed, used>>

INext ==
    \E d \in Device :
        \/ Type(d) \/ OpenNote(d) \/ ReadBase(d) \/ JoinRoom(d) \/ SeedRoom(d) \/ Exchange(d)
        \/ SaveView(d) \/ CloseNote(d) \/ Crash(d) \/ WriteAgreed(d)
        \/ Compare(d) \/ Reconcile(d) \/ Push(d) \/ Offer(d)
        \/ WriteIncoming(d) \/ WriteMerged(d) \/ Wrote(d) \/ FinishPull(d)

ISpec == IInit /\ [][INext]_ivars

-----------------------------------------------------------------------------
(* Properties.                                                                *)

(* Nothing that reached the room or the vault goes from it again, whichever   *)
(* way it came and whatever died in between: no base runs ahead of the disk,  *)
(* no older snapshot is published over a newer one, and what an open room was *)
(* offered is in its file before the version counts as seen.                  *)
TakesNothingBack ==
    room.text \subseteq room'.text /\ head.text \subseteq head'.text
NothingTakenBack == [][TakesNothingBack]_ivars

(* A device that joins a room keeps there what its file has, also where       *)
(* another one seeded the room first (session.test.ts: "keeps offline work of *)
(* the device that lost the seed race").  Broken where the note was never     *)
(* agreed on here: the base is the version last synced, not what the room has.*)
JoinKeepsTheFile ==
    [][\A d \in Device :
          (live[d].at = "base" /\ live'[d].at = "open") => file[d] \subseteq live'[d].doc]_ivars
=============================================================================
