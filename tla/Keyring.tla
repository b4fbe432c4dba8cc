------------------------------ MODULE Keyring ------------------------------
(* The vault's data key: drawn once, wrapped under the passphrase in the     *)
(* keyfile of the store (sync/keyfile.ts, sync/session.ts), and opened on    *)
(* each device by the passphrase manager (core/passphrase-manager.ts), whose *)
(* operations interleave at their awaits: sessions opening side by side, the *)
(* commands that replace, forget or rotate the passphrase, and the settings  *)
(* links made and imported with it (settings/transfer-controller.ts).        *)
EXTENDS Naturals, FiniteSets

CONSTANTS
    Holder,        \* the devices
    Task, holder,  \* operations that run side by side, and the device of each
    Passphrase, None,
    Weak,          \* the passphrases weakPassphrase refuses
    Conditional,   \* whether the store honours putIfAbsent
    MaxTyped, MaxCommands, MaxRestarts

VARIABLES
    salt, keyfile,   \* the two objects of the store, or None
    manager,         \* per device, what it remembers
    disk,            \* per device, the passphrase cached between launches
    task,            \* per task, where it is
    linked,          \* the passphrases that opened a settings link
    opened,          \* the passphrases that ever opened or wrapped the keyfile
    issued,          \* the data keys sessions were opened with
    typed, commands, restarts
kstore == <<salt, keyfile>>
kvars == <<kstore, manager, disk, task, linked, opened, issued, typed, commands, restarts>>

(* `asking` is pendingPrompt and `deriving` resolving, each with the task    *)
(* that runs it; `key` keeps the passphrase it was derived from.             *)
Blank == [pass |-> None, unverified |-> FALSE, key |-> None, asking |-> None, deriving |-> None]
AtRest == [at |-> "idle", for |-> "none", pass |-> None, salt |-> None, next |-> None,
           wrote |-> None, retry |-> FALSE, forced |-> FALSE, of |-> None]

mgr(t) == manager[holder[t]]
step(t, r) == task' = [task EXCEPT ![t] = r]
to(t, at) == step(t, [task[t] EXCEPT !.at = at])
keep(t, m) == manager' = [manager EXCEPT ![holder[t]] = m]
peers(t) == {u \in Task : holder[u] = holder[t]}

KInit ==
    /\ salt = None /\ keyfile = None
    /\ manager = [d \in Holder |-> Blank]
    /\ disk = [d \in Holder |-> None]
    /\ task = [t \in Task |-> AtRest]
    /\ linked = {} /\ opened = {} /\ issued = {}
    /\ typed = 0 /\ commands = 0 /\ restarts = 0

-----------------------------------------------------------------------------
(* What is asked of a device. A session may open at any time; the user's     *)
(* commands are bounded by MaxCommands.                                      *)
OpenSession(t) ==
    /\ task[t].at = "idle"
    /\ step(t, [AtRest EXCEPT !.at = "prompt", !.for = "open"])
    /\ UNCHANGED <<kstore, manager, disk, opened, issued, linked, typed, commands, restarts>>

(* Mutant: a passphrase only typed so far is cached too.                     *)
persistsTyped(m) == m.pass # None

(* persistIfEnabled, with caching on.                                        *)
persists(m) == m.pass # None /\ ~m.unverified

Command(t) ==
    /\ task[t].at = "idle" /\ commands < MaxCommands /\ commands' = commands + 1
    /\ \/ \E p \in Passphrase \ Weak :
             /\ step(t, [AtRest EXCEPT !.at = "prompt", !.for = "rotate", !.next = p])
             /\ UNCHANGED manager
       \/ /\ \E way \in {"export", "import"} :
                step(t, [AtRest EXCEPT !.at = "prompt", !.for = way])
          /\ UNCHANGED manager
       \/ /\ step(t, [AtRest EXCEPT !.at = "prompt", !.for = "replace", !.forced = TRUE])
          /\ UNCHANGED manager
       \/ /\ persists(mgr(t))
          /\ step(t, [AtRest EXCEPT !.at = "save", !.pass = mgr(t).pass])
          /\ UNCHANGED manager
       \/ /\ mgr(t).pass # None
          /\ step(t, [AtRest EXCEPT !.at = "forget", !.for = "forget"])
          /\ keep(t, [mgr(t) EXCEPT !.pass = None, !.unverified = FALSE, !.key = None])
    /\ UNCHANGED <<kstore, disk, opened, issued, linked, typed, restarts>>

(* Clearing the cache is the one await of forget; after a refused passphrase *)
(* a forced prompt follows.                                                  *)
Forget(t) ==
    /\ task[t].at = "forget"
    /\ disk' = [disk EXCEPT ![holder[t]] = None]
    /\ step(t, IF task[t].for = "forget" THEN AtRest
               ELSE [task[t] EXCEPT !.at = "prompt", !.forced = TRUE])
    /\ UNCHANGED <<kstore, manager, opened, issued, linked, typed, commands, restarts>>

-----------------------------------------------------------------------------
(* The prompt, shared by concurrent askers.                                  *)

(* Where a task goes once its prompt was answered.                           *)
granted(what) ==
    CASE what = "rotate" -> "rotate"
      [] what \in {"export", "import"} -> "transfer"
      [] OTHER -> "resolve"

answered(r, yes) ==
    IF ~yes \/ r.for = "replace" THEN AtRest
    ELSE [r EXCEPT !.at = granted(r.for), !.of = None]

Prompt(t) ==
    LET r == task[t]
        m == mgr(t)
    IN  /\ r.at = "prompt"
        /\ CASE m.pass # None /\ ~r.forced -> step(t, answered(r, TRUE)) /\ UNCHANGED manager
             [] m.pass = None \/ r.forced ->
                  IF m.asking = None
                  THEN /\ step(t, [r EXCEPT !.at = IF r.forced THEN "ask" ELSE "load"])
                       /\ keep(t, [m EXCEPT !.asking = [by |-> t, forced |-> r.forced]])
                  ELSE /\ step(t, [r EXCEPT !.of = m.asking.by,
                                   !.at = IF ~r.forced \/ m.asking.forced THEN "join" ELSE "outwait"])
                       /\ UNCHANGED manager
        /\ UNCHANGED <<kstore, disk, opened, issued, linked, typed, commands, restarts>>

(* Everyone who joined the prompt gets its answer; who waited it out prompts.*)
settle(t, yes, m) ==
    /\ keep(t, [m EXCEPT !.asking = None])
    /\ task' = [u \in Task |->
          IF u = t \/ (u \in peers(t) /\ task[u].at = "join" /\ task[u].of = t)
          THEN answered(task[u], yes)
          ELSE IF u \in peers(t) /\ task[u].at = "outwait" /\ task[u].of = t
          THEN [task[u] EXCEPT !.at = "prompt", !.of = None] ELSE task[u]]

LoadCached(t) ==
    /\ task[t].at = "load"
    /\ IF disk[holder[t]] # None
       THEN settle(t, TRUE, [mgr(t) EXCEPT !.pass = disk[holder[t]], !.key = None])
       ELSE to(t, "ask") /\ UNCHANGED manager
    /\ UNCHANGED <<kstore, disk, opened, issued, linked, typed, commands, restarts>>

Answer(t) ==
    /\ task[t].at = "ask"
    /\ \/ /\ typed < MaxTyped /\ typed' = typed + 1
          /\ \E p \in Passphrase :
                settle(t, TRUE, [mgr(t) EXCEPT !.pass = p, !.unverified = TRUE, !.key = None])
       \/ settle(t, FALSE, mgr(t)) /\ UNCHANGED typed
    /\ UNCHANGED <<kstore, disk, opened, issued, linked, commands, restarts>>

-----------------------------------------------------------------------------
(* Opening the keyfile (resolveKey, derive, resolveContentKey).              *)

Resolve(t) ==
    LET r == task[t]
        m == mgr(t)
    IN  /\ r.at = "resolve"
        /\ CASE m.pass = None -> step(t, AtRest) /\ UNCHANGED <<manager, issued>>
             [] m.key # None -> step(t, AtRest) /\ issued' = issued \cup {m.key.data} /\ UNCHANGED manager
             [] m.pass # None /\ m.key = None ->
                  IF m.deriving # None /\ m.deriving.of = m.pass
                  THEN /\ step(t, [r EXCEPT !.at = "share", !.of = m.deriving.by])
                       /\ UNCHANGED <<manager, issued>>
                  ELSE /\ step(t, [r EXCEPT !.at = "salt", !.pass = m.pass])
                       /\ keep(t, [m EXCEPT !.deriving = [by |-> t, of |-> m.pass]])
                       /\ UNCHANGED issued
        /\ UNCHANGED <<kstore, disk, opened, linked, typed, commands, restarts>>

(* Mutant: the object is written whatever is there.                          *)
putOver(old, new) == new

putIfAbsent(old, new) == IF Conditional /\ old # None THEN old ELSE new

(* loadOrCreateSalt: what is there, or a fresh one settled by reading back.  *)
ReadSalt(t) ==
    /\ task[t].at \in {"salt", "rotate"}
    /\ LET r == IF task[t].at = "salt" THEN task[t] ELSE [task[t] EXCEPT !.pass = mgr(t).pass]
       IN  IF task[t].at = "rotate" /\ mgr(t).pass = None THEN step(t, AtRest)
           ELSE IF salt # None THEN step(t, [r EXCEPT !.at = "read", !.salt = salt])
           ELSE step(t, [r EXCEPT !.at = "putSalt"])
    /\ UNCHANGED <<kstore, manager, disk, opened, issued, linked, typed, commands, restarts>>

PutSalt(t) ==
    /\ task[t].at = "putSalt"
    /\ salt' = putIfAbsent(salt, t)
    /\ to(t, "rereadSalt")
    /\ UNCHANGED <<keyfile, manager, disk, opened, issued, linked, typed, commands, restarts>>

RereadSalt(t) ==
    /\ task[t].at = "rereadSalt"
    /\ step(t, [task[t] EXCEPT !.at = "read", !.salt = salt])
    /\ UNCHANGED <<kstore, manager, disk, opened, issued, linked, typed, commands, restarts>>

unwraps(r) == keyfile.pass = r.pass /\ keyfile.salt = r.salt

(* Mutant: the key is kept though the passphrase was forgotten or replaced.  *)
stillAnyway(t) == TRUE

(* The derivation ends, for its task and for those that share it: with the   *)
(* key, kept if the passphrase is still the one it was derived from and saved*)
(* if it had only been typed; or refused, which every sharer takes up itself.*)
stillCurrent(t) == mgr(t).pass = task[t].pass

resolved(t) ==
    LET m == mgr(t)
    IN  IF m.deriving # None /\ m.deriving.by = t THEN [m EXCEPT !.deriving = None] ELSE m

derived(t) ==
    LET m == resolved(t)
        saves == stillCurrent(t) /\ m.unverified
    IN  /\ opened' = opened \cup {task[t].pass}
        /\ issued' = issued \cup {keyfile.key}
        /\ keep(t, IF stillCurrent(t)
                   THEN [m EXCEPT !.key = [data |-> keyfile.key, of |-> task[t].pass], !.unverified = FALSE]
                   ELSE m)
        /\ task' = [u \in Task |->
              IF u = t THEN IF saves THEN [AtRest EXCEPT !.at = "save", !.pass = m.pass] ELSE AtRest
              ELSE IF u \in peers(t) /\ task[u].at = "share" /\ task[u].of = t THEN AtRest
              ELSE task[u]]

refused(t) ==
    /\ keep(t, resolved(t))
    /\ task' = [u \in Task |->
          IF u = t \/ (u \in peers(t) /\ task[u].at = "share" /\ task[u].of = t)
          THEN [task[u] EXCEPT !.at = "refused"] ELSE task[u]]
    /\ UNCHANGED <<opened, issued>>

failed(t) ==
    /\ keep(t, resolved(t))
    /\ task' = [u \in Task |->
          IF u = t \/ (u \in peers(t) /\ task[u].at = "share" /\ task[u].of = t)
          THEN AtRest ELSE task[u]]
    /\ UNCHANGED <<opened, issued>>

ReadKeyfile(t) ==
    LET r == task[t]
    IN  /\ r.at = "read" /\ r.for # "rotate"
        /\ IF keyfile = None
           THEN IF r.pass \in Weak THEN failed(t)
                ELSE to(t, "create") /\ UNCHANGED <<manager, opened, issued>>
           ELSE IF unwraps(r) THEN derived(t) ELSE refused(t)
        /\ UNCHANGED <<kstore, disk, linked, typed, commands, restarts>>

(* The data key is drawn here, once per creator.                             *)
CreateKeyfile(t) ==
    /\ task[t].at = "create"
    /\ keyfile' = putIfAbsent(keyfile, [key |-> t, pass |-> task[t].pass, salt |-> task[t].salt,
                                        epoch |-> 1, by |-> t])
    /\ to(t, "reread")
    /\ UNCHANGED <<salt, manager, disk, opened, issued, linked, typed, commands, restarts>>

RereadKeyfile(t) ==
    /\ task[t].at = "reread" /\ task[t].for # "rotate"
    /\ IF unwraps(task[t]) THEN derived(t) ELSE refused(t)
    /\ UNCHANGED <<kstore, disk, linked, typed, commands, restarts>>

(* A refused passphrase is forgotten and asked for once more.                *)
Refused(t) ==
    /\ task[t].at = "refused"
    /\ IF task[t].retry THEN step(t, AtRest) /\ UNCHANGED manager
       ELSE /\ step(t, [AtRest EXCEPT !.at = "forget", !.for = "open", !.retry = TRUE])
            /\ keep(t, [mgr(t) EXCEPT !.pass = None, !.unverified = FALSE, !.key = None])
    /\ UNCHANGED <<kstore, disk, opened, issued, linked, typed, commands, restarts>>

(* saveCachedPassphrase writes what it was given when it began.              *)
Save(t) ==
    /\ task[t].at = "save"
    /\ disk' = [disk EXCEPT ![holder[t]] = task[t].pass]
    /\ step(t, AtRest)
    /\ UNCHANGED <<kstore, manager, opened, issued, linked, typed, commands, restarts>>

-----------------------------------------------------------------------------
(* Rotation (rotatePassphrase, PassphraseManager.rotate): the data key read, *)
(* wrapped under the new passphrase, put, and read back.                     *)
ReadToRotate(t) ==
    LET r == task[t]
    IN  /\ r.at = "read" /\ r.for = "rotate"
        /\ IF keyfile = None \/ ~unwraps(r) THEN step(t, AtRest) /\ UNCHANGED opened
           ELSE /\ step(t, [r EXCEPT !.at = "rewrap", !.wrote =
                      [key |-> keyfile.key, pass |-> r.next, salt |-> r.salt,
                       epoch |-> keyfile.epoch + 1, by |-> t]])
                /\ opened' = opened \cup {r.pass}
        /\ UNCHANGED <<kstore, manager, disk, issued, linked, typed, commands, restarts>>

Rewrap(t) ==
    /\ task[t].at = "rewrap"
    /\ keyfile' = task[t].wrote
    /\ opened' = opened \cup {task[t].next}
    /\ to(t, "reread")
    /\ UNCHANGED <<salt, manager, disk, issued, linked, typed, commands, restarts>>

(* replacePassphrase: held as verified, and then cached.                     *)
adopt(t, pass) ==
    /\ keep(t, [mgr(t) EXCEPT !.pass = pass, !.unverified = FALSE, !.key = None])
    /\ step(t, [AtRest EXCEPT !.at = "save", !.pass = pass])

(* Only when this wrapping is the one that landed.                           *)
Rotated(t) ==
    LET r == task[t]
    IN  /\ r.at = "reread" /\ r.for = "rotate"
        /\ IF keyfile = r.wrote
           THEN adopt(t, r.next)
           ELSE step(t, AtRest) /\ UNCHANGED manager
        /\ UNCHANGED <<kstore, disk, opened, issued, linked, typed, commands, restarts>>

-----------------------------------------------------------------------------
(* Settings links (SettingsTransferController): made with whatever the       *)
(* manager holds once prompted; one comes from anywhere, and opens if that is*)
(* what it was made with. Nothing here asks the keyfile.                     *)
Transfer(t) ==
    LET pass == mgr(t).pass
    IN  /\ task[t].at = "transfer"
        /\ \/ step(t, AtRest) /\ UNCHANGED linked
           \/ /\ task[t].for = "import" /\ pass # None
              /\ linked' = linked \cup {pass}
              /\ step(t, [task[t] EXCEPT !.at = "confirm", !.pass = pass])
        /\ UNCHANGED <<kstore, manager, disk, opened, issued, typed, commands, restarts>>

(* The user is shown what the import changes, and takes it or leaves it.     *)
Import(t) ==
    /\ task[t].at = "confirm"
    /\ \/ adopt(t, task[t].pass)
       \/ step(t, AtRest) /\ UNCHANGED manager
    /\ UNCHANGED <<kstore, disk, opened, issued, linked, typed, commands, restarts>>

(* The app ends, in the middle of anything.                                  *)
Restart(d) ==
    /\ restarts < MaxRestarts /\ restarts' = restarts + 1
    /\ manager' = [manager EXCEPT ![d] = Blank]
    /\ task' = [t \in Task |-> IF holder[t] = d THEN AtRest ELSE task[t]]
    /\ UNCHANGED <<kstore, disk, opened, issued, linked, typed, commands>>

KNext ==
    \/ \E t \in Task :
          \/ OpenSession(t) \/ Command(t) \/ Forget(t) \/ Prompt(t) \/ LoadCached(t) \/ Answer(t)
          \/ Resolve(t) \/ ReadSalt(t) \/ PutSalt(t) \/ RereadSalt(t) \/ ReadKeyfile(t)
          \/ CreateKeyfile(t) \/ RereadKeyfile(t) \/ Refused(t) \/ Save(t)
          \/ ReadToRotate(t) \/ Rewrap(t) \/ Rotated(t) \/ Transfer(t) \/ Import(t)
    \/ \E d \in Holder : Restart(d)

-----------------------------------------------------------------------------
(* Properties.                                                               *)

(* Whoever set the store up and whoever rotated its passphrase, every        *)
(* session on every device encrypts with the one data key the keyfile holds  *)
(* (keyfile.ts: a second key would orphan data).                             *)
OneDataKey == issued # {} => issued = {keyfile.key}

(* A derivation that was overtaken by a forget, a replacement or a rotation  *)
(* leaves nothing behind: a remembered key was opened by the passphrase the  *)
(* manager holds now.                                                        *)
KeyOfItsPassphrase == \A d \in Holder : manager[d].key # None => manager[d].key.of = manager[d].pass

(* A passphrase tried on nothing never reaches the disk: what is cached      *)
(* between launches opened the keyfile, here or on another device, or opened *)
(* a settings link, the only other ground replacePassphrase is called on     *)
(* (transfer-controller.ts 80).  After an import it need not have opened the *)
(* keyfile, though the comment at passphrase-manager.ts 38 has it so.        *)
OnlyProvenOnDisk == \A d \in Holder : disk[d] # None => disk[d] \in opened \cup linked
=============================================================================
