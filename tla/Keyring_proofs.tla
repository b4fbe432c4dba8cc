--------------------------- MODULE Keyring_proofs ---------------------------
(* What the keyring remembers and caches, and the one data key, for any      *)
(* devices, operations and passphrases.                                      *)
EXTENDS Keyring, TLAPS

(* Operations belong to devices, and None is nothing else.                   *)
KeyringAssumption ==
    /\ holder \in [Task -> Holder]
    /\ None \notin Passphrase /\ None \notin Task
    /\ None \notin [key : Task, pass : Passphrase \cup {None}, salt : Task \cup {None},
                    epoch : Nat, by : Task]
    /\ None \notin [by : Task, forced : BOOLEAN]
    /\ None \notin [by : Task, of : Passphrase \cup {None}]

-----------------------------------------------------------------------------
(* Types.                                                                    *)

Pass == Passphrase \cup {None}
Salt == Task \cup {None}
Wrapping == [key : Task, pass : Pass, salt : Salt, epoch : Nat, by : Task]
Manager ==
    [pass : Pass, unverified : BOOLEAN, key : [data : Task, of : Pass] \cup {None},
     asking : [by : Task, forced : BOOLEAN] \cup {None}, deriving : [by : Task, of : Pass] \cup {None}]
Stage ==
    {"idle", "prompt", "load", "ask", "join", "outwait", "resolve", "share", "salt", "putSalt",
     "rereadSalt", "read", "create", "reread", "refused", "forget", "save", "rotate", "rewrap",
     "transfer", "confirm"}
Purpose == {"none", "open", "rotate", "replace", "forget", "export", "import"}
Running ==
    [at : Stage, for : Purpose, pass : Pass, salt : Salt, next : Pass,
     wrote : Wrapping \cup {None}, retry : BOOLEAN, forced : BOOLEAN, of : Task \cup {None}]

(* A task that reads the keyfile back has seen one there, and one that wraps *)
(* holds a wrapping.                                                         *)
Healthy(r, there) ==
    /\ r \in Running
    /\ r.at = "create" => r.for # "rotate"
    /\ r.at = "reread" => there
    /\ r.at = "rewrap" => r.wrote \in Wrapping
    /\ (r.at = "reread" /\ r.for = "rotate") => r.wrote \in Wrapping

StoreOK == salt \in Salt /\ keyfile \in Wrapping \cup {None}
ManagersOK == manager \in [Holder -> Manager]
TasksOK == DOMAIN task = Task /\ task = [t \in Task |-> task[t]] /\ \A t \in Task : Healthy(task[t], keyfile # None)
SeenOK == disk \in [Holder -> Pass] /\ opened \subseteq Pass /\ issued \subseteq Task

KTypes == StoreOK /\ ManagersOK /\ TasksOK /\ SeenOK

(* A task at rest, and a manager that remembers nothing, are as they should. *)
LEMMA RestOK ==
    ASSUME KeyringAssumption PROVE Blank \in Manager /\ \A there \in BOOLEAN : Healthy(AtRest, there)
BY DEF KeyringAssumption, Healthy, Pass, Salt, Wrapping, Manager, Running, Stage, Purpose, Blank, AtRest

(* The types hold at the start.                                              *)
LEMMA KTypesInit == ASSUME KeyringAssumption, KInit PROVE KTypes
BY RestOK DEF KeyringAssumption, KInit, KTypes, StoreOK, ManagersOK, TasksOK, SeenOK, Pass, Salt

(* One task moves on, the keyfile staying if it is there.                    *)
LEMMA StepTypes ==
    ASSUME TasksOK, NEW t \in Task, NEW r, step(t, r), Healthy(r, keyfile' # None),
           keyfile # None => keyfile' # None
    PROVE  TasksOK'
BY DEF TasksOK, Healthy, step

(* One manager remembers something else.                                     *)
LEMMA KeepTypes ==
    ASSUME KeyringAssumption, ManagersOK, NEW t \in Task, NEW m \in Manager, keep(t, m)
    PROVE  ManagersOK'
BY DEF KeyringAssumption, ManagersOK, keep

(* Every task's device is one, and its manager is typed.                     *)
LEMMA MgrType ==
    ASSUME KeyringAssumption, ManagersOK, NEW t \in Task
    PROVE  holder[t] \in Holder /\ mgr(t) \in Manager
BY DEF KeyringAssumption, ManagersOK, mgr

(* A task at no step of the keyfile has only its type to keep.               *)
LEMMA Away ==
    ASSUME NEW r \in Running, NEW there, r.at \notin {"create", "reread", "rewrap"}
    PROVE  Healthy(r, there)
BY DEF Healthy

(* The last task of a prompt, or its joiners, move on typed.                 *)
LEMMA AnsweredType ==
    ASSUME KeyringAssumption, NEW r, NEW there \in BOOLEAN, Healthy(r, there), NEW yes \in BOOLEAN
    PROVE  Healthy(answered(r, yes), there)
<1> DEFINE q == [r EXCEPT !.at = granted(r.for), !.of = None]
<1>1. granted(r.for) \in {"rotate", "transfer", "resolve"}
  BY DEF granted
<1>2. q \in Running /\ q.at = granted(r.for)
  BY <1>1 DEF Healthy, Running, Stage
<1>3. Healthy(q, there)
  BY <1>1, <1>2, Away
<1> QED
  BY <1>3, RestOK DEF answered

(* Settling a prompt keeps the types.                                        *)
LEMMA SettleTypes ==
    ASSUME KeyringAssumption, ManagersOK, TasksOK, NEW t \in Task, NEW yes \in BOOLEAN,
           NEW m \in Manager, settle(t, yes, m), keyfile' = keyfile
    PROVE  ManagersOK' /\ TasksOK'
<1>1. [m EXCEPT !.asking = None] \in Manager
  BY DEF Manager
<1>2. ASSUME NEW u \in Task PROVE Healthy(answered(task[u], yes), keyfile # None)
  BY AnsweredType DEF TasksOK
<1>3. ASSUME NEW u \in Task PROVE Healthy([task[u] EXCEPT !.at = "prompt", !.of = None], keyfile # None)
  <2> DEFINE q == [task[u] EXCEPT !.at = "prompt", !.of = None]
  <2>1. task[u] \in Running
    BY DEF TasksOK, Healthy
  <2>2. q \in Running /\ q.at = "prompt"
    BY <2>1 DEF Running, Stage
  <2> QED
    BY <2>2, Away
<1>4. ManagersOK'
  BY <1>1, KeepTypes DEF settle
<1>5. TasksOK'
  BY <1>2, <1>3 DEF settle, TasksOK
<1> QED
  BY <1>4, <1>5

(* A derivation that ends, well or not, keeps the types.                     *)
LEMMA ResolvedType ==
    ASSUME KeyringAssumption, ManagersOK, NEW t \in Task PROVE resolved(t) \in Manager
BY MgrType DEF resolved, Manager

(* A derived key, to its manager and to who shared the derivation.           *)
LEMMA DerivedTypes ==
    ASSUME KeyringAssumption, StoreOK, ManagersOK, TasksOK, SeenOK, NEW t \in Task, keyfile # None,
           derived(t), keyfile' = keyfile, UNCHANGED disk
    PROVE  ManagersOK' /\ TasksOK' /\ SeenOK'
<1> DEFINE m == resolved(t)
<1>1. m \in Manager /\ task[t].pass \in Pass /\ keyfile.key \in Task
  BY ResolvedType DEF StoreOK, TasksOK, Healthy, Running, Wrapping
<1>2. [m EXCEPT !.key = [data |-> keyfile.key, of |-> task[t].pass], !.unverified = FALSE] \in Manager
  BY <1>1 DEF Manager
<1>3. Healthy([AtRest EXCEPT !.at = "save", !.pass = m.pass], keyfile # None)
  <2>1. AtRest \in Running /\ m.pass \in Pass
    BY <1>1, RestOK DEF Healthy, Manager
  <2> QED
    BY <2>1 DEF Healthy, Running, Stage
<1>4. ManagersOK'
  BY <1>1, <1>2, KeepTypes DEF derived
<1>5. TasksOK'
  BY <1>3, RestOK DEF derived, TasksOK
<1>6. SeenOK'
  BY <1>1 DEF derived, SeenOK
<1> QED
  BY <1>4, <1>5, <1>6

(* A refusal or a failure, to whoever shared the derivation.                 *)
LEMMA RefusedTypes ==
    ASSUME KeyringAssumption, ManagersOK, TasksOK, SeenOK, NEW t \in Task,
           refused(t) \/ failed(t), keyfile' = keyfile, UNCHANGED disk
    PROVE  ManagersOK' /\ TasksOK' /\ SeenOK'
<1>1. ManagersOK'
  BY ResolvedType, KeepTypes DEF refused, failed
<1>2. ASSUME NEW u \in Task PROVE Healthy([task[u] EXCEPT !.at = "refused"], keyfile # None)
  BY DEF TasksOK, Healthy, Running, Stage
<1>3. TasksOK'
  BY <1>2, RestOK, ZenonT(60) DEF refused, failed, TasksOK
<1> QED
  BY <1>1, <1>3 DEF refused, failed, SeenOK

(* Every operation of a task keeps the types.                                *)
LEMMA TaskTypes ==
    ASSUME KeyringAssumption, KTypes, NEW t \in Task,
           \/ OpenSession(t) \/ Command(t) \/ Forget(t) \/ Prompt(t) \/ LoadCached(t) \/ Answer(t)
           \/ Resolve(t) \/ ReadSalt(t) \/ PutSalt(t) \/ RereadSalt(t) \/ ReadKeyfile(t)
           \/ CreateKeyfile(t) \/ RereadKeyfile(t) \/ Refused(t) \/ Save(t)
           \/ ReadToRotate(t) \/ Rewrap(t) \/ Rotated(t) \/ Transfer(t) \/ Import(t)
    PROVE  KTypes'
<1> USE DEF KTypes
<1> DEFINE there == keyfile # None
           r == task[t]
           m == mgr(t)
<1>0. /\ holder[t] \in Holder /\ m \in Manager /\ AtRest \in Running /\ Healthy(r, there) /\ r \in Running
      /\ Healthy(AtRest, TRUE) /\ Healthy(AtRest, FALSE) /\ there \in BOOLEAN
  BY MgrType, RestOK DEF TasksOK, Healthy
<1> HIDE DEF there, r, m
<1>1. CASE OpenSession(t)
  <2>1. Healthy([AtRest EXCEPT !.at = "prompt", !.for = "open"], there)
    BY <1>0 DEF Healthy, Running, Stage, Purpose
  <2> QED
    BY <1>1, <2>1, StepTypes DEF OpenSession, kstore, there, StoreOK, ManagersOK, SeenOK
<1>2. CASE Command(t)
  <2>1. \A p \in Passphrase :
           Healthy([AtRest EXCEPT !.at = "prompt", !.for = "rotate", !.next = p], there)
    BY <1>0 DEF Healthy, Running, Stage, Purpose, Pass
  <2>2. Healthy([AtRest EXCEPT !.at = "prompt", !.for = "replace", !.forced = TRUE], there)
    BY <1>0 DEF Healthy, Running, Stage, Purpose
  <2>3. m.pass \in Pass /\ Healthy([AtRest EXCEPT !.at = "save", !.pass = m.pass], there)
    BY <1>0, ZenonT(60) DEF Healthy, Running, Stage, Manager
  <2>4. Healthy([AtRest EXCEPT !.at = "forget", !.for = "forget"], there)
    BY <1>0, ZenonT(60) DEF Healthy, Running, Stage, Purpose
  <2>9. \A way \in {"export", "import"} : Healthy([AtRest EXCEPT !.at = "prompt", !.for = way], there)
    BY <1>0 DEF Healthy, Running, Stage, Purpose
  <2>5. [m EXCEPT !.pass = None, !.unverified = FALSE, !.key = None] \in Manager
    BY <1>0 DEF Manager, Pass
  <2>6. UNCHANGED <<salt, keyfile, disk, opened, issued>>
    BY <1>2 DEF Command, kstore
  <2>7. TasksOK'
    BY <1>2, <2>1, <2>2, <2>3, <2>4, <2>6, <2>9, StepTypes DEF Command, there, m
  <2>8. ManagersOK'
    BY <1>2, <2>5, KeepTypes DEF Command, m, ManagersOK
  <2> QED
    BY <2>6, <2>7, <2>8 DEF StoreOK, SeenOK
<1>3. CASE Forget(t)
  <2> DEFINE q == [r EXCEPT !.at = "prompt", !.forced = TRUE]
  <2>0. q \in Running /\ q.at = "prompt"
    BY <1>0 DEF Running, Stage
  <2>1. Healthy(q, there)
    BY <2>0, Away
  <2>2. TasksOK'
    BY <1>0, <1>3, <2>1, StepTypes DEF Forget, kstore, there, r
  <2> QED
    BY <1>0, <1>3, <2>2 DEF Forget, kstore, StoreOK, ManagersOK, SeenOK, Pass
<1>4. CASE Prompt(t)
  <2>1. Healthy(answered(r, TRUE), there)
    BY <1>0, AnsweredType
  <2>2. Healthy([r EXCEPT !.at = IF r.forced THEN "ask" ELSE "load"], there)
    BY <1>0 DEF Healthy, Running, Stage
  <2>3. [m EXCEPT !.asking = [by |-> t, forced |-> r.forced]] \in Manager
    BY <1>0 DEF Manager, Running
  <2>4. m.asking # None =>
           Healthy([r EXCEPT !.of = m.asking.by,
                             !.at = IF ~r.forced \/ m.asking.forced THEN "join" ELSE "outwait"], there)
    BY <1>0, ZenonT(60) DEF Healthy, Running, Stage, Manager
  <2>5. UNCHANGED <<salt, keyfile, disk, opened, issued>>
    BY <1>4 DEF Prompt, kstore
  <2>6. TasksOK'
    BY <1>4, <2>1, <2>2, <2>4, <2>5, StepTypes DEF Prompt, there, m, r
  <2>7. ManagersOK'
    BY <1>4, <2>3, KeepTypes DEF Prompt, m, r, ManagersOK
  <2> QED
    BY <2>5, <2>6, <2>7 DEF StoreOK, SeenOK
<1>5. CASE LoadCached(t)
  <2>1. [m EXCEPT !.pass = disk[holder[t]], !.key = None] \in Manager
    BY <1>0 DEF Manager, SeenOK
  <2>2. Healthy([r EXCEPT !.at = "ask"], there)
    BY <1>0 DEF Healthy, Running, Stage
  <2>3. UNCHANGED <<salt, keyfile, disk, opened, issued>>
    BY <1>5 DEF LoadCached, kstore
  <2>4. ManagersOK' /\ TasksOK'
    BY <1>5, <2>1, <2>2, <2>3, SettleTypes, StepTypes DEF LoadCached, to, there, m, r, ManagersOK
  <2> QED
    BY <2>3, <2>4 DEF StoreOK, SeenOK
<1>6. CASE Answer(t)
  <2>1. \A p \in Passphrase : [m EXCEPT !.pass = p, !.unverified = TRUE, !.key = None] \in Manager
    BY <1>0 DEF Manager, Pass
  <2>2. UNCHANGED <<salt, keyfile, disk, opened, issued>>
    BY <1>6 DEF Answer, kstore
  <2>3. ManagersOK' /\ TasksOK'
    BY <1>0, <1>6, <2>1, <2>2, SettleTypes DEF Answer, m
  <2> QED
    BY <2>2, <2>3 DEF StoreOK, SeenOK
<1>7. CASE Resolve(t)
  <2>1. m.deriving # None => Healthy([r EXCEPT !.at = "share", !.of = m.deriving.by], there)
    <3> DEFINE q == [r EXCEPT !.at = "share", !.of = m.deriving.by]
    <3>1. m.deriving # None => m.deriving.by \in Task
      BY <1>0 DEF Manager
    <3>2. m.deriving # None => q \in Running /\ q.at = "share"
      BY <1>0, <3>1 DEF Running, Stage
    <3> QED
      BY <3>2, Away
  <2>2. Healthy([r EXCEPT !.at = "salt", !.pass = m.pass], there)
    <3> DEFINE q == [r EXCEPT !.at = "salt", !.pass = m.pass]
    <3>1. m.pass \in Pass
      BY <1>0 DEF Manager
    <3>2. q \in Running /\ q.at = "salt"
      BY <1>0, <3>1 DEF Running, Stage
    <3> QED
      BY <3>2, Away
  <2>3. [m EXCEPT !.deriving = [by |-> t, of |-> m.pass]] \in Manager
    BY <1>0 DEF Manager
  <2>4. m.key # None => m.key.data \in Task
    BY <1>0 DEF Manager
  <2>5. UNCHANGED <<salt, keyfile, disk, opened>>
    BY <1>7 DEF Resolve, kstore
  <2>6. TasksOK'
    BY <1>0, <1>7, <2>1, <2>2, <2>5, StepTypes DEF Resolve, there, m, r
  <2>7. ManagersOK'
    BY <1>7, <2>3, KeepTypes DEF Resolve, m, ManagersOK
  <2>8. issued' \subseteq Task
    BY <1>7, <2>4 DEF Resolve, m, SeenOK
  <2> QED
    BY <2>5, <2>6, <2>7, <2>8 DEF StoreOK, SeenOK
<1>8. CASE ReadSalt(t)
  <2> DEFINE q == IF r.at = "salt" THEN r ELSE [r EXCEPT !.pass = m.pass]
  <2>1. q \in Running /\ m.pass \in Pass
    BY <1>0 DEF Manager, Running
  <2>2. Healthy([q EXCEPT !.at = "read", !.salt = salt], there) /\ Healthy([q EXCEPT !.at = "putSalt"], there)
    <3> HIDE DEF q
    <3>1. [q EXCEPT !.at = "read", !.salt = salt] \in Running
      BY <2>1 DEF Running, Stage, StoreOK
    <3>2. [q EXCEPT !.at = "putSalt"] \in Running
      BY <2>1 DEF Running, Stage
    <3>3. [q EXCEPT !.at = "read", !.salt = salt].at = "read" /\ [q EXCEPT !.at = "putSalt"].at = "putSalt"
      BY <2>1 DEF Running
    <3> QED
      BY <3>1, <3>2, <3>3, Away
  <2> QED
    BY <1>0, <1>8, <2>2, StepTypes DEF ReadSalt, kstore, there, m, r, StoreOK, ManagersOK, SeenOK
<1>9. CASE PutSalt(t)
  <2>1. Healthy([r EXCEPT !.at = "rereadSalt"], there)
    BY <1>0 DEF Healthy, Running, Stage
  <2>2. TasksOK'
    BY <1>9, <2>1, StepTypes DEF PutSalt, to, there, r
  <2> QED
    BY <1>9, <2>2 DEF PutSalt, putIfAbsent, StoreOK, ManagersOK, SeenOK, Salt
<1>10. CASE RereadSalt(t)
  <2> DEFINE q == [r EXCEPT !.at = "read", !.salt = salt]
  <2>0. q \in Running /\ q.at = "read"
    BY <1>0 DEF Running, Stage, StoreOK
  <2>1. Healthy(q, there)
    BY <2>0, Away
  <2> QED
    BY <1>10, <2>1, StepTypes DEF RereadSalt, kstore, there, r, StoreOK, ManagersOK, SeenOK
<1>11. CASE ReadKeyfile(t)
  <2>1. r.for # "rotate" => Healthy([r EXCEPT !.at = "create"], there)
    BY <1>0 DEF Healthy, Running, Stage
  <2>2. UNCHANGED <<salt, keyfile, disk>>
    BY <1>11 DEF ReadKeyfile, kstore
  <2>3. CASE keyfile = None /\ task[t].pass \notin Weak
    BY <1>11, <2>1, <2>2, <2>3, StepTypes DEF ReadKeyfile, to, there, r, StoreOK, ManagersOK, SeenOK
  <2>4. CASE ~(keyfile = None /\ task[t].pass \notin Weak)
    <3>1. failed(t) \/ refused(t) \/ (keyfile # None /\ derived(t))
      BY <1>11, <2>4 DEF ReadKeyfile
    <3> QED
      BY <2>2, <3>1, DerivedTypes, RefusedTypes DEF StoreOK
  <2> QED
    BY <2>3, <2>4
<1>12. CASE CreateKeyfile(t)
  <2> DEFINE k == [key |-> t, pass |-> r.pass, salt |-> r.salt, epoch |-> 1, by |-> t]
  <2>1. k \in Wrapping /\ k # None
    BY <1>0 DEF Wrapping, Running, KeyringAssumption, Pass, Salt
  <2>2. keyfile' \in Wrapping /\ keyfile' # None /\ UNCHANGED <<salt, manager, disk, opened, issued>>
    BY <1>12, <2>1 DEF CreateKeyfile, putIfAbsent, r, StoreOK
  <2>3. Healthy([r EXCEPT !.at = "reread"], TRUE)
    BY <1>0, <1>12 DEF CreateKeyfile, r, Healthy, Running, Stage
  <2>4. (keyfile' # None) = TRUE
    BY <2>2
  <2>5. TasksOK'
    BY <1>12, <2>2, <2>3, <2>4, StepTypes DEF CreateKeyfile, to, r
  <2> QED
    BY <2>2, <2>5 DEF StoreOK, ManagersOK, SeenOK
<1>13. CASE RereadKeyfile(t)
  <2>1. keyfile # None /\ UNCHANGED <<salt, keyfile, disk>>
    BY <1>0, <1>13 DEF RereadKeyfile, kstore, Healthy, r, there
  <2>2. refused(t) \/ derived(t)
    BY <1>13 DEF RereadKeyfile
  <2> QED
    BY <2>1, <2>2, DerivedTypes, RefusedTypes DEF StoreOK
<1>14. CASE Refused(t)
  <2>1. Healthy([AtRest EXCEPT !.at = "forget", !.for = "open", !.retry = TRUE], there)
    BY <1>0 DEF Healthy, Running, Stage, Purpose
  <2>2. [m EXCEPT !.pass = None, !.unverified = FALSE, !.key = None] \in Manager
    BY <1>0 DEF Manager, Pass
  <2>3. UNCHANGED <<salt, keyfile, disk, opened, issued>>
    BY <1>14 DEF Refused, kstore
  <2>4. TasksOK'
    BY <1>0, <1>14, <2>1, <2>3, StepTypes DEF Refused, there
  <2>5. ManagersOK'
    BY <1>14, <2>2, KeepTypes DEF Refused, m, ManagersOK
  <2> QED
    BY <2>3, <2>4, <2>5 DEF StoreOK, SeenOK
<1>15. CASE Save(t)
  <2>1. TasksOK'
    BY <1>0, <1>15, StepTypes DEF Save, kstore, there
  <2>2. r.pass \in Pass
    BY <1>0 DEF Running
  <2> QED
    BY <1>0, <1>15, <2>1, <2>2 DEF Save, kstore, r, StoreOK, ManagersOK, SeenOK
<1>16. CASE ReadToRotate(t)
  <2> DEFINE k == [key |-> keyfile.key, pass |-> r.next, salt |-> r.salt, epoch |-> keyfile.epoch + 1, by |-> t]
  <2>1. keyfile # None => k \in Wrapping
    BY <1>0 DEF Wrapping, Running, StoreOK
  <2>2. keyfile # None => Healthy([r EXCEPT !.at = "rewrap", !.wrote = k], there)
    <3> HIDE DEF k
    <3> QED
      BY <1>0, <2>1 DEF Healthy, Running, Stage
  <2>3. r.pass \in Pass
    BY <1>0 DEF Running
  <2>4. UNCHANGED <<salt, keyfile, manager, disk, issued>> /\ opened' \subseteq Pass
    BY <1>16, <2>3 DEF ReadToRotate, kstore, SeenOK, r
  <2>5. TasksOK'
    BY <1>0, <1>16, <2>2, <2>4, StepTypes DEF ReadToRotate, there, r
  <2> QED
    BY <2>4, <2>5 DEF StoreOK, ManagersOK, SeenOK
<1>17. CASE Rewrap(t)
  <2>1. r.wrote \in Wrapping /\ r.wrote # None /\ r.next \in Pass
    BY <1>0, <1>17 DEF Rewrap, r, Healthy, Wrapping, Pass, Salt, KeyringAssumption, Running
  <2>2. keyfile' \in Wrapping /\ (keyfile' # None) = TRUE /\ opened' \subseteq Pass
    BY <1>17, <2>1 DEF Rewrap, r, SeenOK
  <2>3. Healthy([r EXCEPT !.at = "reread"], TRUE)
    BY <1>0, <2>1 DEF Healthy, Running, Stage
  <2>4. TasksOK'
    BY <1>17, <2>2, <2>3, StepTypes DEF Rewrap, to, r
  <2> QED
    BY <1>17, <2>2, <2>4 DEF Rewrap, StoreOK, ManagersOK, SeenOK
<1>18. CASE Rotated(t)
  <2>1. r.next \in Pass
    BY <1>0 DEF Running
  <2>2. Healthy([AtRest EXCEPT !.at = "save", !.pass = r.next], there)
    BY <1>0, <2>1, ZenonT(60) DEF Healthy, Running, Stage
  <2>3. [m EXCEPT !.pass = r.next, !.unverified = FALSE, !.key = None] \in Manager
    BY <1>0, <2>1 DEF Manager
  <2>4. UNCHANGED <<salt, keyfile, disk, opened, issued>>
    BY <1>18 DEF Rotated, kstore
  <2>5. TasksOK'
    BY <1>0, <1>18, <2>2, <2>4, StepTypes DEF Rotated, adopt, there, r
  <2>6. ManagersOK'
    BY <1>18, <2>3, KeepTypes DEF Rotated, adopt, m, r, ManagersOK
  <2> QED
    BY <2>4, <2>5, <2>6 DEF StoreOK, SeenOK
<1>19. CASE Transfer(t)
  <2> DEFINE q == [r EXCEPT !.at = "confirm", !.pass = m.pass]
  <2>1. q \in Running /\ q.at = "confirm"
    BY <1>0 DEF Running, Stage, Manager
  <2>2. Healthy(q, there)
    BY <2>1, Away
  <2>3. UNCHANGED <<salt, keyfile, manager, disk, opened, issued>> /\ (step(t, AtRest) \/ step(t, q))
    BY <1>19 DEF Transfer, kstore, r, m
  <2>4. TasksOK'
    <3> HIDE DEF q
    <3> QED
      BY <1>0, <2>2, <2>3, StepTypes DEF there
  <2> QED
    BY <2>3, <2>4 DEF StoreOK, ManagersOK, SeenOK
<1>20. CASE Import(t)
  <2>1. r.pass \in Pass
    BY <1>0 DEF Running
  <2>2. Healthy([AtRest EXCEPT !.at = "save", !.pass = r.pass], there)
    BY <1>0, <2>1, ZenonT(60) DEF Healthy, Running, Stage
  <2>3. [m EXCEPT !.pass = r.pass, !.unverified = FALSE, !.key = None] \in Manager
    BY <1>0, <2>1 DEF Manager
  <2>4. UNCHANGED <<salt, keyfile, disk, opened, issued>>
    BY <1>20 DEF Import, kstore
  <2>5. TasksOK'
    BY <1>0, <1>20, <2>2, <2>4, StepTypes DEF Import, adopt, there, r
  <2>6. ManagersOK'
    BY <1>20, <2>3, KeepTypes DEF Import, adopt, m, r, ManagersOK
  <2> QED
    BY <2>4, <2>5, <2>6 DEF StoreOK, SeenOK
<1> QED
  BY <1>1, <1>2, <1>3, <1>4, <1>5, <1>6, <1>7, <1>8, <1>9, <1>10, <1>11, <1>12, <1>13,
     <1>14, <1>15, <1>16, <1>17, <1>18, <1>19, <1>20

(* A restart forgets the manager and ends its tasks; the types stay.         *)
LEMMA RestartTypes ==
    ASSUME KeyringAssumption, KTypes, NEW d \in Holder, Restart(d) PROVE KTypes'
<1>1. UNCHANGED <<salt, keyfile, disk, opened, issued>>
  BY DEF Restart, kstore
<1>2. ManagersOK'
  BY RestOK DEF KTypes, ManagersOK, Restart
<1>3. TasksOK'
  BY <1>1, RestOK DEF KTypes, TasksOK, Restart
<1> QED
  BY <1>1, <1>2, <1>3 DEF KTypes, StoreOK, SeenOK

(* Every step keeps the types.                                               *)
LEMMA KTypesStep == ASSUME KeyringAssumption, KTypes, [KNext]_kvars PROVE KTypes'
<1>1. CASE KNext
  BY <1>1, TaskTypes, RestartTypes DEF KNext
<1>2. CASE UNCHANGED kvars
  BY <1>2 DEF kvars, kstore, KTypes, StoreOK, ManagersOK, TasksOK, SeenOK
<1> QED
  BY <1>1, <1>2

-----------------------------------------------------------------------------
(* What is remembered and cached. A passphrase about to be saved has opened  *)
(* the keyfile or a settings link; so has the one a rotation put there, the  *)
(* one an import is asked about, and one a manager holds that was not merely *)
(* typed.                                                                    *)

proven == opened \cup linked

TaskSafe(r, seen) ==
    /\ r.at \in {"save", "confirm"} => r.pass \in seen
    /\ (r.at = "reread" /\ r.for = "rotate") => r.next \in seen
ManagerSafe(m, seen) ==
    /\ m.key # None => m.key.of = m.pass
    /\ (m.pass # None /\ ~m.unverified) => m.pass \in seen

TasksSafe == \A t \in Task : TaskSafe(task[t], proven)
ManagersSafe == \A d \in Holder : ManagerSafe(manager[d], proven)

CacheInv == KTypes /\ TasksSafe /\ ManagersSafe /\ OnlyProvenOnDisk

(* The start.                                                                *)
LEMMA CacheInit == ASSUME KeyringAssumption, KInit PROVE CacheInv
BY KTypesInit DEF KInit, CacheInv, TasksSafe, TaskSafe, ManagersSafe, ManagerSafe, OnlyProvenOnDisk, AtRest, Blank

(* A task takes a step that saves nothing, and no passphrase is forgotten to *)
(* have been proven.                                                         *)
LEMMA StepSafe ==
    ASSUME TasksOK, TasksSafe, NEW t \in Task, NEW r, step(t, r), TaskSafe(r, proven'), proven \subseteq proven'
    PROVE  TasksSafe'
BY DEF TasksOK, TasksSafe, TaskSafe, step

(* One manager remembers something else.                                     *)
LEMMA KeepSafe ==
    ASSUME KeyringAssumption, ManagersOK, ManagersSafe, NEW t \in Task, NEW m, keep(t, m),
           ManagerSafe(m, proven'), proven \subseteq proven'
    PROVE  ManagersSafe'
BY DEF KeyringAssumption, ManagersOK, ManagersSafe, ManagerSafe, keep

(* A task that neither saves nor reads back has nothing to keep.             *)
LEMMA AwaySafe ==
    ASSUME NEW r, NEW seen, r.at \notin {"save", "confirm", "reread"} PROVE TaskSafe(r, seen)
BY DEF TaskSafe

(* Settling a prompt saves nothing.                                          *)
LEMMA SettleSafe ==
    ASSUME KeyringAssumption, ManagersOK, TasksOK, TasksSafe, ManagersSafe, NEW t \in Task,
           NEW yes \in BOOLEAN, NEW m \in Manager, settle(t, yes, m), ManagerSafe(m, proven),
           UNCHANGED proven
    PROVE  TasksSafe' /\ ManagersSafe'
<1>1. ManagerSafe([m EXCEPT !.asking = None], proven)
  BY DEF Manager, ManagerSafe
<1>2. ASSUME NEW u \in Task PROVE TaskSafe(answered(task[u], yes), proven)
  <2> DEFINE r == task[u]
             q == [r EXCEPT !.at = granted(r.for), !.of = None]
  <2>1. r \in Running
    BY DEF TasksOK, Healthy
  <2>2. q.at \in {"rotate", "transfer", "resolve"} /\ AtRest.at = "idle"
    BY <2>1 DEF Running, AtRest, granted
  <2>3. answered(r, yes) \in {q, AtRest}
    BY DEF answered
  <2> QED
    BY <2>2, <2>3, AwaySafe
<1>3. ASSUME NEW u \in Task PROVE TaskSafe([task[u] EXCEPT !.at = "prompt", !.of = None], proven)
  <2> DEFINE r == task[u]
             q == [r EXCEPT !.at = "prompt", !.of = None]
  <2>1. r \in Running
    BY DEF TasksOK, Healthy
  <2>2. q.at = "prompt"
    BY <2>1 DEF Running
  <2> QED
    BY <2>2, AwaySafe
<1>4. ManagersSafe'
  <2>1. keep(t, [m EXCEPT !.asking = None])
    BY DEF settle
  <2> QED
    BY <1>1, <2>1, KeepSafe
<1>5. TasksSafe'
  <2>1. \A u \in Task : TaskSafe(task'[u], proven)
    BY <1>2, <1>3 DEF settle, TasksSafe
  <2> QED
    BY <2>1 DEF TasksSafe
<1> QED
  BY <1>4, <1>5

(* A derivation that ends remembers its key only under the passphrase it was *)
(* derived from, and saves what it has just opened the keyfile with.         *)
LEMMA ResolvedSafe ==
    ASSUME KeyringAssumption, ManagersOK, ManagersSafe, NEW t \in Task
    PROVE  /\ resolved(t) \in Manager /\ ManagerSafe(resolved(t), proven)
           /\ resolved(t).pass = mgr(t).pass
<1>1. mgr(t) \in Manager /\ ManagerSafe(mgr(t), proven)
  BY MgrType DEF ManagersSafe, mgr
<1>2. [mgr(t) EXCEPT !.deriving = None] \in Manager
      /\ ManagerSafe([mgr(t) EXCEPT !.deriving = None], proven)
      /\ [mgr(t) EXCEPT !.deriving = None].pass = mgr(t).pass
  BY <1>1 DEF Manager, ManagerSafe
<1> QED
  BY <1>1, <1>2 DEF resolved

(* A manager keeps a derived key only for the passphrase it holds now.       *)
LEMMA DerivedSafe ==
    ASSUME KeyringAssumption, KTypes, TasksSafe, ManagersSafe, NEW t \in Task, derived(t),
           UNCHANGED linked
    PROVE  TasksSafe' /\ ManagersSafe' /\ proven \subseteq proven'
<1> DEFINE m == resolved(t)
           pass == task[t].pass
           k == [data |-> keyfile.key, of |-> pass]
           q == [m EXCEPT !.key = k, !.unverified = FALSE]
           save == [AtRest EXCEPT !.at = "save", !.pass = m.pass]
<1>1. m \in Manager /\ ManagerSafe(m, proven) /\ m.pass = mgr(t).pass
  BY ResolvedSafe DEF KTypes
<1>2. proven' = proven \cup {pass}
  BY DEF derived, proven
<1>3. stillCurrent(t) => m.pass = pass
  BY <1>1 DEF stillCurrent
<1>4. q.pass = m.pass /\ q.key = k /\ k.of = pass
  BY <1>1 DEF Manager
<1>5. stillCurrent(t) => ManagerSafe(q, proven')
  BY <1>2, <1>3, <1>4 DEF ManagerSafe
<1>6. ManagerSafe(m, proven')
  BY <1>1, <1>2 DEF ManagerSafe
<1>7. ManagersSafe'
  <2>1. keep(t, IF stillCurrent(t) THEN q ELSE m)
    BY DEF derived
  <2> QED
    BY <1>2, <1>5, <1>6, <2>1, KeepSafe DEF KTypes
<1>8. stillCurrent(t) => TaskSafe(save, proven')
  <2>1. save.at = "save" /\ save.pass = m.pass
    BY DEF AtRest
  <2> QED
    BY <1>2, <1>3, <2>1 DEF TaskSafe
<1>9. TaskSafe(AtRest, proven')
  BY AwaySafe DEF AtRest
<1>10. \A u \in Task : TaskSafe(task[u], proven')
  BY <1>2 DEF TasksSafe, TaskSafe
<1>11. \A u \in Task : task'[u] \in {task[u], AtRest} \/ (stillCurrent(t) /\ task'[u] = save)
  BY DEF derived
<1>12. TasksSafe'
  BY <1>8, <1>9, <1>10, <1>11 DEF TasksSafe
<1> QED
  BY <1>2, <1>7, <1>12

(* A refusal or a failure opens nothing.                                     *)
LEMMA RefusedSafe ==
    ASSUME KeyringAssumption, KTypes, TasksSafe, ManagersSafe, NEW t \in Task, refused(t) \/ failed(t),
           UNCHANGED linked
    PROVE  TasksSafe' /\ ManagersSafe' /\ proven \subseteq proven'
<1>1. keep(t, resolved(t)) /\ proven' = proven
  BY DEF refused, failed, proven
<1>2. ManagersSafe'
  BY <1>1, ResolvedSafe, KeepSafe DEF KTypes
<1>3. ASSUME NEW u \in Task PROVE TaskSafe([task[u] EXCEPT !.at = "refused"], proven)
  <2>1. task[u] \in Running
    BY DEF KTypes, TasksOK, Healthy
  <2>2. [task[u] EXCEPT !.at = "refused"].at = "refused"
    BY <2>1 DEF Running
  <2> QED
    BY <2>2, AwaySafe
<1>4. TaskSafe(AtRest, proven)
  BY AwaySafe DEF AtRest
<1>5. \A u \in Task : TaskSafe(task'[u], proven)
  BY <1>3, <1>4 DEF refused, failed, TasksSafe
<1> QED
  BY <1>1, <1>2, <1>5 DEF TasksSafe

(* What is cached stays proven while only more passphrases are.              *)
LEMMA DiskSafe ==
    ASSUME OnlyProvenOnDisk, proven \subseteq proven', UNCHANGED disk PROVE OnlyProvenOnDisk'
BY DEF OnlyProvenOnDisk, proven

(* Every operation of a task keeps the cache safe.                           *)
LEMMA TaskCache ==
    ASSUME KeyringAssumption, CacheInv, NEW t \in Task,
           \/ OpenSession(t) \/ Command(t) \/ Forget(t) \/ Prompt(t) \/ LoadCached(t) \/ Answer(t)
           \/ Resolve(t) \/ ReadSalt(t) \/ PutSalt(t) \/ RereadSalt(t) \/ ReadKeyfile(t)
           \/ CreateKeyfile(t) \/ RereadKeyfile(t) \/ Refused(t) \/ Save(t)
           \/ ReadToRotate(t) \/ Rewrap(t) \/ Rotated(t) \/ Transfer(t) \/ Import(t)
    PROVE  TasksSafe' /\ ManagersSafe' /\ OnlyProvenOnDisk'
<1> USE DEF CacheInv, KTypes
<1> DEFINE r == task[t]
           m == mgr(t)
<1>0. /\ m \in Manager /\ r \in Running /\ AtRest \in Running /\ holder[t] \in Holder
      /\ ManagerSafe(m, proven) /\ TaskSafe(r, proven)
      /\ AtRest.at = "idle" /\ TaskSafe(AtRest, proven)
  <2>1. AtRest.at = "idle"
    BY DEF AtRest
  <2> QED
    BY <2>1, MgrType, RestOK, AwaySafe DEF TasksOK, Healthy, ManagersSafe, TasksSafe, mgr
<1> HIDE DEF r, m
<1>1. CASE OpenSession(t)
  <2> DEFINE q == [AtRest EXCEPT !.at = "prompt", !.for = "open"]
  <2>1. TaskSafe(q, proven)
    BY <1>0 DEF Running, TaskSafe
  <2>2. step(t, q) /\ UNCHANGED <<manager, disk, proven>>
    BY <1>1 DEF OpenSession, proven
  <2> QED
    BY <2>1, <2>2, StepSafe, DiskSafe DEF ManagersSafe
<1>2. CASE Command(t)
  <2>1. \A p \in Passphrase :
           TaskSafe([AtRest EXCEPT !.at = "prompt", !.for = "rotate", !.next = p], proven)
    BY <1>0 DEF Running, TaskSafe
  <2>2. TaskSafe([AtRest EXCEPT !.at = "prompt", !.for = "replace", !.forced = TRUE], proven)
    BY <1>0 DEF Running, TaskSafe
  <2>3. persists(m) => TaskSafe([AtRest EXCEPT !.at = "save", !.pass = m.pass], proven)
    BY <1>0 DEF persists, ManagerSafe, TaskSafe, Running
  <2>4. TaskSafe([AtRest EXCEPT !.at = "forget", !.for = "forget"], proven)
    BY <1>0 DEF Running, TaskSafe
  <2>9. \A way \in {"export", "import"} : TaskSafe([AtRest EXCEPT !.at = "prompt", !.for = way], proven)
    BY <1>0 DEF Running, TaskSafe
  <2>5. ManagerSafe([m EXCEPT !.pass = None, !.unverified = FALSE, !.key = None], proven)
    BY <1>0 DEF Manager, ManagerSafe
  <2>6. UNCHANGED <<disk, proven>>
    BY <1>2 DEF Command, proven
  <2>7. TasksSafe'
    BY <1>2, <2>1, <2>2, <2>3, <2>4, <2>6, <2>9, StepSafe DEF Command, m
  <2>8. ManagersSafe'
    BY <1>2, <2>5, <2>6, KeepSafe DEF Command, m, ManagersSafe
  <2> QED
    BY <2>6, <2>7, <2>8, DiskSafe
<1>3. CASE Forget(t)
  <2> DEFINE q == [r EXCEPT !.at = "prompt", !.forced = TRUE]
  <2>1. TaskSafe(q, proven)
    BY <1>0 DEF Running, TaskSafe
  <2>2. TasksSafe'
    BY <1>0, <1>3, <2>1, StepSafe DEF Forget, r, proven
  <2> QED
    BY <1>0, <1>3, <2>2 DEF Forget, ManagersSafe, OnlyProvenOnDisk, proven, SeenOK
<1>4. CASE Prompt(t)
  <2>1. TaskSafe(answered(r, TRUE), proven)
    <3>1. [r EXCEPT !.at = granted(r.for), !.of = None].at \in {"rotate", "transfer", "resolve"}
      BY <1>0 DEF Running, granted
    <3> QED
      BY <1>0, <3>1, AwaySafe DEF answered
  <2>2. TaskSafe([r EXCEPT !.at = IF r.forced THEN "ask" ELSE "load"], proven)
    BY <1>0 DEF Running, TaskSafe
  <2>3. ManagerSafe([m EXCEPT !.asking = [by |-> t, forced |-> r.forced]], proven)
    BY <1>0 DEF Manager, ManagerSafe
  <2>4. TaskSafe([r EXCEPT !.of = m.asking.by,
                           !.at = IF ~r.forced \/ m.asking.forced THEN "join" ELSE "outwait"], proven)
    BY <1>0 DEF Running, TaskSafe
  <2>5. UNCHANGED <<disk, proven>>
    BY <1>4 DEF Prompt, proven
  <2>6. TasksSafe'
    BY <1>4, <2>1, <2>2, <2>4, <2>5, StepSafe DEF Prompt, m, r
  <2>7. ManagersSafe'
    BY <1>4, <2>3, <2>5, KeepSafe DEF Prompt, m, r, ManagersSafe
  <2> QED
    BY <2>5, <2>6, <2>7, DiskSafe
<1>5. CASE LoadCached(t)
  <2> DEFINE n == [m EXCEPT !.pass = disk[holder[t]], !.key = None]
             q == [r EXCEPT !.at = "ask"]
  <2>1. n \in Manager /\ (disk[holder[t]] # None => ManagerSafe(n, proven))
    BY <1>0 DEF Manager, ManagerSafe, SeenOK, OnlyProvenOnDisk, proven, Pass
  <2>2. TaskSafe(q, proven)
    BY <1>0 DEF Running, TaskSafe
  <2>3. UNCHANGED <<disk, proven>>
    BY <1>5 DEF LoadCached, proven
  <2>4. CASE disk[holder[t]] # None
    <3>1. settle(t, TRUE, n)
      BY <1>5, <2>4 DEF LoadCached, m
    <3> QED
      BY <2>1, <2>3, <2>4, <3>1, SettleSafe, DiskSafe
  <2>5. CASE disk[holder[t]] = None
    <3>1. step(t, q) /\ UNCHANGED manager
      BY <1>5, <2>5 DEF LoadCached, to, r
    <3> QED
      BY <2>2, <2>3, <3>1, StepSafe, DiskSafe DEF ManagersSafe
  <2> QED
    BY <2>4, <2>5
<1>6. CASE Answer(t)
  <2>1. \A p \in Passphrase :
           /\ [m EXCEPT !.pass = p, !.unverified = TRUE, !.key = None] \in Manager
           /\ ManagerSafe([m EXCEPT !.pass = p, !.unverified = TRUE, !.key = None], proven)
    BY <1>0 DEF Manager, ManagerSafe, Pass
  <2>2. UNCHANGED <<disk, proven>>
    BY <1>6 DEF Answer, proven
  <2>3. ManagersSafe' /\ TasksSafe'
    BY <1>0, <1>6, <2>1, <2>2, SettleSafe DEF Answer, m
  <2> QED
    BY <2>2, <2>3, DiskSafe
<1>7. CASE Resolve(t)
  <2>1. TaskSafe([r EXCEPT !.at = "share", !.of = m.deriving.by], proven)
    BY <1>0 DEF Running, TaskSafe
  <2>2. TaskSafe([r EXCEPT !.at = "salt", !.pass = m.pass], proven)
    BY <1>0 DEF Running, TaskSafe
  <2>3. ManagerSafe([m EXCEPT !.deriving = [by |-> t, of |-> m.pass]], proven)
    BY <1>0 DEF Manager, ManagerSafe
  <2>4. UNCHANGED <<disk, proven>>
    BY <1>7 DEF Resolve, proven
  <2>5. TasksSafe'
    BY <1>0, <1>7, <2>1, <2>2, <2>4, StepSafe DEF Resolve, m, r
  <2>6. ManagersSafe'
    BY <1>7, <2>3, <2>4, KeepSafe DEF Resolve, m, ManagersSafe
  <2> QED
    BY <2>4, <2>5, <2>6, DiskSafe
<1>8. CASE ReadSalt(t)
  <2> DEFINE q == IF r.at = "salt" THEN r ELSE [r EXCEPT !.pass = m.pass]
             q1 == [q EXCEPT !.at = "read", !.salt = salt]
             q2 == [q EXCEPT !.at = "putSalt"]
  <2>1. q \in Running
    <3>1. m.pass \in Pass
      BY <1>0 DEF Manager
    <3> QED
      BY <1>0, <3>1 DEF Running
  <2>2. q1.at = "read" /\ q2.at = "putSalt"
    <3> HIDE DEF q
    <3> QED
      BY <2>1 DEF Running
  <2>3. \/ step(t, AtRest)
        \/ step(t, q1)
        \/ step(t, q2)
    BY <1>8 DEF ReadSalt, m, r
  <2>4. UNCHANGED <<manager, disk, proven>>
    BY <1>8 DEF ReadSalt, proven
  <2>5. TaskSafe(q1, proven) /\ TaskSafe(q2, proven)
    <3> HIDE DEF q1, q2
    <3> QED
      BY <2>2, AwaySafe
  <2>6. TasksSafe'
    BY <1>0, <2>3, <2>4, <2>5, StepSafe
  <2> QED
    BY <2>4, <2>6, DiskSafe DEF ManagersSafe
<1>9. CASE PutSalt(t)
  <2> DEFINE q == [r EXCEPT !.at = "rereadSalt"]
  <2>1. TaskSafe(q, proven)
    BY <1>0 DEF Running, TaskSafe
  <2>2. step(t, q) /\ UNCHANGED <<manager, disk, proven>>
    BY <1>9 DEF PutSalt, proven, to, r
  <2> QED
    BY <2>1, <2>2, StepSafe, DiskSafe DEF ManagersSafe
<1>10. CASE RereadSalt(t)
  <2> DEFINE q == [r EXCEPT !.at = "read", !.salt = salt]
  <2>1. TaskSafe(q, proven)
    BY <1>0 DEF Running, TaskSafe
  <2>2. step(t, q) /\ UNCHANGED <<manager, disk, proven>>
    BY <1>10 DEF RereadSalt, proven, r
  <2> QED
    BY <2>1, <2>2, StepSafe, DiskSafe DEF ManagersSafe
<1>11. CASE ReadKeyfile(t)
  <2> DEFINE q == [r EXCEPT !.at = "create"]
  <2>1. TaskSafe(q, proven)
    BY <1>0 DEF Running, TaskSafe
  <2>2. \/ failed(t) \/ refused(t) \/ derived(t)
        \/ step(t, q) /\ UNCHANGED <<manager, proven>>
    BY <1>11 DEF ReadKeyfile, proven, to, r
  <2>3. UNCHANGED <<disk, linked>>
    BY <1>11 DEF ReadKeyfile
  <2>4. CASE failed(t) \/ refused(t) \/ derived(t)
    BY <2>3, <2>4, RefusedSafe, DerivedSafe, DiskSafe
  <2>5. CASE step(t, q) /\ UNCHANGED <<manager, proven>>
    BY <2>1, <2>3, <2>5, StepSafe, DiskSafe DEF ManagersSafe
  <2> QED
    BY <2>2, <2>4, <2>5
<1>12. CASE CreateKeyfile(t)
  <2> DEFINE q == [r EXCEPT !.at = "reread"]
  <2>1. r.for # "rotate"
    BY <1>12 DEF CreateKeyfile, r, TasksOK, Healthy
  <2>2. q.at = "reread" /\ q.for = r.for
    BY <1>0 DEF Running
  <2>3. TaskSafe(q, proven)
    BY <2>1, <2>2 DEF TaskSafe
  <2>4. step(t, q) /\ UNCHANGED <<manager, disk, proven>>
    BY <1>12 DEF CreateKeyfile, proven, to, r
  <2> QED
    BY <2>3, <2>4, StepSafe, DiskSafe DEF ManagersSafe
<1>13. CASE RereadKeyfile(t)
  <2>1. (refused(t) \/ derived(t)) /\ UNCHANGED <<disk, linked>>
    BY <1>13 DEF RereadKeyfile
  <2> QED
    BY <2>1, RefusedSafe, DerivedSafe, DiskSafe
<1>14. CASE Refused(t)
  <2> DEFINE q == [AtRest EXCEPT !.at = "forget", !.for = "open", !.retry = TRUE]
             n == [m EXCEPT !.pass = None, !.unverified = FALSE, !.key = None]
  <2>1. TaskSafe(q, proven)
    BY <1>0 DEF Running, TaskSafe
  <2>2. ManagerSafe(n, proven)
    BY <1>0 DEF Manager, ManagerSafe
  <2>3. \/ step(t, AtRest) /\ UNCHANGED manager
        \/ step(t, q) /\ keep(t, n)
    BY <1>14 DEF Refused, m
  <2>4. UNCHANGED <<disk, proven>>
    BY <1>14 DEF Refused, proven
  <2>5. TasksSafe'
    BY <1>0, <2>1, <2>3, <2>4, StepSafe
  <2>6. ManagersSafe'
    BY <2>2, <2>3, <2>4, KeepSafe DEF ManagersSafe
  <2> QED
    BY <2>4, <2>5, <2>6, DiskSafe
<1>15. CASE Save(t)
  <2>1. step(t, AtRest) /\ UNCHANGED <<manager, proven>>
    BY <1>15 DEF Save, proven
  <2>2. r.pass \in proven
    BY <1>0, <1>15 DEF Save, r, TaskSafe
  <2>3. OnlyProvenOnDisk'
    BY <1>0, <1>15, <2>1, <2>2 DEF Save, r, OnlyProvenOnDisk, proven, SeenOK
  <2> QED
    BY <1>0, <2>1, <2>3, StepSafe DEF ManagersSafe
<1>16. CASE ReadToRotate(t)
  <2> DEFINE q == [r EXCEPT !.at = "rewrap", !.wrote =
                      [key |-> keyfile.key, pass |-> r.next, salt |-> r.salt,
                       epoch |-> keyfile.epoch + 1, by |-> t]]
  <2>1. TaskSafe(q, proven')
    BY <1>0 DEF Running, TaskSafe
  <2>2. (step(t, AtRest) \/ step(t, q)) /\ UNCHANGED <<manager, disk>> /\ proven \subseteq proven'
    BY <1>16 DEF ReadToRotate, r, proven
  <2>3. TaskSafe(AtRest, proven')
    BY <1>0, AwaySafe
  <2> QED
    BY <2>1, <2>2, <2>3, StepSafe, DiskSafe DEF ManagersSafe, ManagerSafe
<1>17. CASE Rewrap(t)
  <2> DEFINE q == [r EXCEPT !.at = "reread"]
  <2>1. step(t, q) /\ proven' = proven \cup {r.next} /\ UNCHANGED <<manager, disk>>
    BY <1>17 DEF Rewrap, to, r, proven
  <2>2. q.at = "reread" /\ q.next = r.next
    BY <1>0 DEF Running
  <2>3. TaskSafe(q, proven')
    BY <2>1, <2>2 DEF TaskSafe
  <2> QED
    BY <2>1, <2>3, StepSafe, DiskSafe DEF ManagersSafe, ManagerSafe
<1>18. CASE Rotated(t)
  <2> DEFINE q == [AtRest EXCEPT !.at = "save", !.pass = r.next]
             n == [m EXCEPT !.pass = r.next, !.unverified = FALSE, !.key = None]
  <2>1. r.next \in proven
    BY <1>0, <1>18 DEF Rotated, r, TaskSafe
  <2>2. q.at = "save" /\ q.pass = r.next
    BY <1>0 DEF Running
  <2>3. TaskSafe(q, proven)
    BY <2>1, <2>2 DEF TaskSafe
  <2>4. ManagerSafe(n, proven)
    BY <1>0, <2>1 DEF Manager, ManagerSafe
  <2>5. \/ step(t, AtRest) /\ UNCHANGED manager
        \/ step(t, q) /\ keep(t, n)
    BY <1>18 DEF Rotated, adopt, m, r
  <2>6. UNCHANGED <<disk, proven>>
    BY <1>18 DEF Rotated, proven
  <2>7. TasksSafe'
    BY <1>0, <2>3, <2>5, <2>6, StepSafe
  <2>8. ManagersSafe'
    BY <2>4, <2>5, <2>6, KeepSafe DEF ManagersSafe
  <2> QED
    BY <2>6, <2>7, <2>8, DiskSafe
<1>19. CASE Transfer(t)
  <2> DEFINE q == [r EXCEPT !.at = "confirm", !.pass = m.pass]
  <2>1. q.at = "confirm" /\ q.pass = m.pass
    BY <1>0 DEF Running
  <2>2. m.pass \in linked' => TaskSafe(q, proven')
    BY <2>1 DEF TaskSafe, proven
  <2>3. (step(t, AtRest) \/ (m.pass \in linked' /\ step(t, q))) /\ UNCHANGED <<manager, disk>>
    BY <1>19 DEF Transfer, r, m
  <2>4. proven \subseteq proven'
    BY <1>19 DEF Transfer, proven
  <2>5. TaskSafe(AtRest, proven') /\ (m.pass \in linked' => TaskSafe(q, proven'))
    BY <1>0, <2>2, <2>4, AwaySafe DEF TaskSafe
  <2>6. TasksSafe'
    <3> HIDE DEF q
    <3> QED
      BY <2>3, <2>4, <2>5, StepSafe
  <2>7. ManagersSafe'
    BY <2>3, <2>4 DEF ManagersSafe, ManagerSafe
  <2> QED
    BY <2>3, <2>4, <2>6, <2>7, DiskSafe
<1>20. CASE Import(t)
  <2> DEFINE q == [AtRest EXCEPT !.at = "save", !.pass = r.pass]
             n == [m EXCEPT !.pass = r.pass, !.unverified = FALSE, !.key = None]
  <2>1. r.pass \in proven
    BY <1>0, <1>20 DEF Import, r, TaskSafe
  <2>2. q.at = "save" /\ q.pass = r.pass
    BY <1>0 DEF Running
  <2>3. TaskSafe(q, proven)
    BY <2>1, <2>2 DEF TaskSafe
  <2>4. ManagerSafe(n, proven)
    BY <1>0, <2>1 DEF Manager, ManagerSafe
  <2>5. \/ step(t, AtRest) /\ UNCHANGED manager
        \/ step(t, q) /\ keep(t, n)
    BY <1>20 DEF Import, adopt, m, r
  <2>6. UNCHANGED <<disk, proven>>
    BY <1>20 DEF Import, proven
  <2>7. TasksSafe'
    BY <1>0, <2>3, <2>5, <2>6, StepSafe
  <2>8. ManagersSafe'
    BY <2>4, <2>5, <2>6, KeepSafe DEF ManagersSafe
  <2> QED
    BY <2>6, <2>7, <2>8, DiskSafe
<1> QED
  BY <1>1, <1>2, <1>3, <1>4, <1>5, <1>6, <1>7, <1>8, <1>9, <1>10, <1>11, <1>12, <1>13,
     <1>14, <1>15, <1>16, <1>17, <1>18, <1>19, <1>20

(* Every step keeps the cache safe.                                          *)
LEMMA CacheStep == ASSUME KeyringAssumption, CacheInv, [KNext]_kvars PROVE CacheInv'
<1>0. KTypes'
  BY KTypesStep DEF CacheInv
<1>1. ASSUME NEW d \in Holder, Restart(d) PROVE TasksSafe' /\ ManagersSafe' /\ OnlyProvenOnDisk'
  <2>1. TaskSafe(AtRest, proven) /\ ManagerSafe(Blank, proven)
    BY DEF TaskSafe, ManagerSafe, AtRest, Blank
  <2>2. UNCHANGED <<disk, proven>>
    BY <1>1 DEF Restart, proven
  <2>3. TasksSafe'
    BY <1>1, <2>1, <2>2 DEF Restart, TasksSafe, CacheInv
  <2>4. ManagersSafe'
    BY <1>1, <2>1, <2>2 DEF Restart, ManagersSafe, CacheInv, KTypes, ManagersOK
  <2> QED
    BY <2>2, <2>3, <2>4, DiskSafe DEF CacheInv
<1>2. CASE KNext
  BY <1>0, <1>1, <1>2, TaskCache DEF KNext, CacheInv
<1>3. CASE UNCHANGED kvars
  BY <1>0, <1>3 DEF kvars, CacheInv, TasksSafe, ManagersSafe, OnlyProvenOnDisk, proven
<1> QED
  BY <1>2, <1>3

-----------------------------------------------------------------------------
(* The data key. Whatever was issued, is remembered, or is about to be       *)
(* wrapped again is the key in the keyfile; which stays, however it is       *)
(* wrapped, in a store that honours putIfAbsent.                             *)

Holds(f, k) == f # None /\ f.key = k
TaskFits(r, f) == r.at = "rewrap" => Holds(f, r.wrote.key)
ManagerFits(m, f) == m.key # None => Holds(f, m.key.data)

TasksFit == \A t \in Task : TaskFits(task[t], keyfile)
ManagersFit == \A d \in Holder : ManagerFits(manager[d], keyfile)
IssuedFits == \A k \in issued : Holds(keyfile, k)

KeyInv == KTypes /\ TasksFit /\ ManagersFit /\ IssuedFits

(* A step of a task that does not take up a rewrap.                          *)
LEMMA StepFits ==
    ASSUME TasksOK, TasksFit, NEW t \in Task, NEW r, step(t, r), TaskFits(r, keyfile)
    PROVE  \A u \in Task : TaskFits(task'[u], keyfile)
BY DEF TasksOK, TasksFit, step

(* One manager remembers something else.                                     *)
LEMMA KeepFits ==
    ASSUME KeyringAssumption, ManagersOK, ManagersFit, NEW t \in Task, NEW m, keep(t, m), ManagerFits(m, keyfile)
    PROVE  \A d \in Holder : ManagerFits(manager'[d], keyfile)
BY DEF KeyringAssumption, ManagersOK, ManagersFit, keep

(* Settling a prompt changes no remembered key.                              *)
LEMMA SettleFits ==
    ASSUME KeyringAssumption, ManagersOK, TasksOK, TasksFit, ManagersFit, NEW t \in Task,
           NEW yes \in BOOLEAN, NEW m \in Manager, settle(t, yes, m), ManagerFits(m, keyfile)
    PROVE  /\ \A u \in Task : TaskFits(task'[u], keyfile)
           /\ \A d \in Holder : ManagerFits(manager'[d], keyfile)
<1>1. ManagerFits([m EXCEPT !.asking = None], keyfile)
  BY DEF Manager, ManagerFits
<1>2. ASSUME NEW u \in Task PROVE TaskFits(answered(task[u], yes), keyfile)
  <2> DEFINE r == task[u]
             q == [r EXCEPT !.at = granted(r.for), !.of = None]
  <2>1. r \in Running
    BY DEF TasksOK, Healthy
  <2>2. q.at \in {"rotate", "transfer", "resolve"} /\ AtRest.at = "idle"
    BY <2>1 DEF Running, AtRest, granted
  <2>3. answered(r, yes) \in {q, AtRest}
    BY DEF answered
  <2> QED
    BY <2>2, <2>3 DEF TaskFits
<1>3. ASSUME NEW u \in Task PROVE TaskFits([task[u] EXCEPT !.at = "prompt", !.of = None], keyfile)
  <2> DEFINE r == task[u]
             q == [r EXCEPT !.at = "prompt", !.of = None]
  <2>1. r \in Running
    BY DEF TasksOK, Healthy
  <2>2. q.at = "prompt"
    BY <2>1 DEF Running
  <2> QED
    BY <2>2 DEF TaskFits
<1>4. keep(t, [m EXCEPT !.asking = None])
  BY DEF settle
<1>5. \A u \in Task : TaskFits(task'[u], keyfile)
  BY <1>2, <1>3 DEF settle, TasksFit
<1> QED
  BY <1>1, <1>4, <1>5, KeepFits

(* A derivation that ends issues and remembers the key of the keyfile.       *)
LEMMA DerivedFits ==
    ASSUME KeyringAssumption, KeyInv, NEW t \in Task,
           failed(t) \/ refused(t) \/ (keyfile # None /\ derived(t))
    PROVE  /\ \A u \in Task : TaskFits(task'[u], keyfile)
           /\ \A d \in Holder : ManagerFits(manager'[d], keyfile)
           /\ \A k \in issued' : Holds(keyfile, k)
<1> USE DEF KeyInv, KTypes
<1> DEFINE m == resolved(t)
           k == [data |-> keyfile.key, of |-> task[t].pass]
           q == [m EXCEPT !.key = k, !.unverified = FALSE]
           save == [AtRest EXCEPT !.at = "save", !.pass = m.pass]
           again(u) == [task[u] EXCEPT !.at = "refused"]
<1>1. mgr(t) \in Manager /\ ManagerFits(mgr(t), keyfile)
  BY MgrType DEF ManagersFit, mgr
<1>2. m \in Manager /\ ManagerFits(m, keyfile)
  <2>1. [mgr(t) EXCEPT !.deriving = None] \in Manager
        /\ ManagerFits([mgr(t) EXCEPT !.deriving = None], keyfile)
    BY <1>1 DEF Manager, ManagerFits
  <2> QED
    BY <1>1, <2>1 DEF resolved
<1>3. keyfile # None => ManagerFits(q, keyfile)
  <2>1. q.key = k /\ k.data = keyfile.key
    BY <1>2 DEF Manager
  <2> QED
    BY <2>1 DEF ManagerFits, Holds
<1>4. (keep(t, q) /\ keyfile # None) \/ keep(t, m)
  BY DEF derived, refused, failed
<1>5. \A d \in Holder : ManagerFits(manager'[d], keyfile)
  <2> HIDE DEF q, m
  <2> QED
    BY <1>2, <1>3, <1>4, KeepFits
<1>6. TaskFits(save, keyfile) /\ TaskFits(AtRest, keyfile)
  BY DEF TaskFits, AtRest
<1>7. \A u \in Task : TaskFits(again(u), keyfile)
  <2>1. \A u \in Task : again(u).at = "refused"
    BY DEF TasksOK, Healthy, Running
  <2> QED
    BY <2>1 DEF TaskFits
<1>8. \A u \in Task : task'[u] \in {task[u], save, AtRest, again(u)}
  BY DEF derived, refused, failed
<1>9. \A u \in Task : TaskFits(task'[u], keyfile)
  <2> HIDE DEF save, again
  <2> QED
    BY <1>6, <1>7, <1>8 DEF TasksFit
<1>10. \A x \in issued' : Holds(keyfile, x)
  BY DEF derived, refused, failed, IssuedFits, Holds
<1> QED
  BY <1>5, <1>9, <1>10

(* Whatever a task does, what it issues, remembers or holds fits the keyfile *)
(* as it was.                                                                *)
LEMMA TaskKeys ==
    ASSUME KeyringAssumption, KeyInv, NEW t \in Task,
           \/ OpenSession(t) \/ Command(t) \/ Forget(t) \/ Prompt(t) \/ LoadCached(t) \/ Answer(t)
           \/ Resolve(t) \/ ReadSalt(t) \/ PutSalt(t) \/ RereadSalt(t) \/ ReadKeyfile(t)
           \/ CreateKeyfile(t) \/ RereadKeyfile(t) \/ Refused(t) \/ Save(t)
           \/ ReadToRotate(t) \/ Rewrap(t) \/ Rotated(t) \/ Transfer(t) \/ Import(t)
    PROVE  /\ \A u \in Task : TaskFits(task'[u], keyfile)
           /\ \A d \in Holder : ManagerFits(manager'[d], keyfile)
           /\ \A k \in issued' : Holds(keyfile, k)
<1> USE DEF KeyInv, KTypes
<1> DEFINE r == task[t]
           m == mgr(t)
<1>0. /\ m \in Manager /\ r \in Running /\ AtRest \in Running /\ holder[t] \in Holder
      /\ ManagerFits(m, keyfile) /\ TaskFits(AtRest, keyfile)
  BY MgrType, RestOK DEF TasksOK, Healthy, ManagersFit, mgr, TaskFits, AtRest
<1> HIDE DEF r, m
<1>1. CASE OpenSession(t)
  <2>1. TaskFits([AtRest EXCEPT !.at = "prompt", !.for = "open"], keyfile)
    BY <1>0 DEF Running, TaskFits
  <2> QED
    BY <1>1, <2>1, StepFits DEF OpenSession, ManagersFit, IssuedFits
<1>2. CASE Command(t)
  <2>1. \A p \in Passphrase :
           TaskFits([AtRest EXCEPT !.at = "prompt", !.for = "rotate", !.next = p], keyfile)
    BY <1>0 DEF Running, TaskFits
  <2>2. TaskFits([AtRest EXCEPT !.at = "prompt", !.for = "replace", !.forced = TRUE], keyfile)
    BY <1>0 DEF Running, TaskFits
  <2>3. TaskFits([AtRest EXCEPT !.at = "save", !.pass = m.pass], keyfile)
    BY <1>0 DEF Running, TaskFits
  <2>4. TaskFits([AtRest EXCEPT !.at = "forget", !.for = "forget"], keyfile)
    BY <1>0 DEF Running, TaskFits
  <2>9. \A way \in {"export", "import"} : TaskFits([AtRest EXCEPT !.at = "prompt", !.for = way], keyfile)
    BY <1>0 DEF Running, TaskFits
  <2>5. ManagerFits([m EXCEPT !.pass = None, !.unverified = FALSE, !.key = None], keyfile)
    BY <1>0 DEF Manager, ManagerFits
  <2>6. \A u \in Task : TaskFits(task'[u], keyfile)
    BY <1>2, <2>1, <2>2, <2>3, <2>4, <2>9, StepFits DEF Command, m
  <2>7. \A d \in Holder : ManagerFits(manager'[d], keyfile)
    BY <1>2, <2>5, KeepFits DEF Command, m, ManagersFit
  <2> QED
    BY <1>2, <2>6, <2>7 DEF Command, IssuedFits
<1>3. CASE Forget(t)
  <2>1. TaskFits([r EXCEPT !.at = "prompt", !.forced = TRUE], keyfile)
    BY <1>0 DEF Running, TaskFits
  <2> QED
    BY <1>0, <1>3, <2>1, StepFits DEF Forget, r, ManagersFit, IssuedFits
<1>4. CASE Prompt(t)
  <2>1. TaskFits(answered(r, TRUE), keyfile)
    <3>1. [r EXCEPT !.at = granted(r.for), !.of = None].at \in {"rotate", "transfer", "resolve"}
      BY <1>0 DEF Running, granted
    <3> QED
      BY <1>0, <3>1 DEF answered, TaskFits
  <2>2. TaskFits([r EXCEPT !.at = IF r.forced THEN "ask" ELSE "load"], keyfile)
    BY <1>0 DEF Running, TaskFits
  <2>3. ManagerFits([m EXCEPT !.asking = [by |-> t, forced |-> r.forced]], keyfile)
    BY <1>0 DEF Manager, ManagerFits
  <2>4. TaskFits([r EXCEPT !.of = m.asking.by,
                           !.at = IF ~r.forced \/ m.asking.forced THEN "join" ELSE "outwait"], keyfile)
    BY <1>0 DEF Running, TaskFits
  <2>5. \A u \in Task : TaskFits(task'[u], keyfile)
    BY <1>4, <2>1, <2>2, <2>4, StepFits DEF Prompt, m, r
  <2>6. \A d \in Holder : ManagerFits(manager'[d], keyfile)
    BY <1>4, <2>3, KeepFits DEF Prompt, m, r, ManagersFit
  <2> QED
    BY <1>4, <2>5, <2>6 DEF Prompt, IssuedFits
<1>5. CASE LoadCached(t)
  <2> DEFINE n == [m EXCEPT !.pass = disk[holder[t]], !.key = None]
             q == [r EXCEPT !.at = "ask"]
  <2>1. n \in Manager /\ ManagerFits(n, keyfile)
    BY <1>0 DEF Manager, ManagerFits, SeenOK, Pass
  <2>2. TaskFits(q, keyfile)
    BY <1>0 DEF Running, TaskFits
  <2>3. settle(t, TRUE, n) \/ (step(t, q) /\ UNCHANGED manager)
    BY <1>5 DEF LoadCached, to, m, r
  <2>4. issued' = issued
    BY <1>5 DEF LoadCached
  <2> QED
    BY <2>1, <2>2, <2>3, <2>4, SettleFits, StepFits DEF ManagersFit, IssuedFits
<1>6. CASE Answer(t)
  <2>1. \A p \in Passphrase :
           /\ [m EXCEPT !.pass = p, !.unverified = TRUE, !.key = None] \in Manager
           /\ ManagerFits([m EXCEPT !.pass = p, !.unverified = TRUE, !.key = None], keyfile)
    BY <1>0 DEF Manager, ManagerFits, Pass
  <2> QED
    BY <1>0, <1>6, <2>1, SettleFits DEF Answer, m, IssuedFits
<1>7. CASE Resolve(t)
  <2>1. TaskFits([r EXCEPT !.at = "share", !.of = m.deriving.by], keyfile)
    BY <1>0 DEF Running, TaskFits
  <2>2. TaskFits([r EXCEPT !.at = "salt", !.pass = m.pass], keyfile)
    BY <1>0 DEF Running, TaskFits
  <2>3. ManagerFits([m EXCEPT !.deriving = [by |-> t, of |-> m.pass]], keyfile)
    BY <1>0 DEF Manager, ManagerFits
  <2>4. \A u \in Task : TaskFits(task'[u], keyfile)
    BY <1>0, <1>7, <2>1, <2>2, StepFits DEF Resolve, m, r
  <2>5. \A d \in Holder : ManagerFits(manager'[d], keyfile)
    BY <1>7, <2>3, KeepFits DEF Resolve, m, ManagersFit
  <2>6. \A k \in issued' : Holds(keyfile, k)
    BY <1>0, <1>7 DEF Resolve, m, IssuedFits, ManagerFits
  <2> QED
    BY <2>4, <2>5, <2>6
<1>8. CASE ReadSalt(t)
  <2> DEFINE q == IF r.at = "salt" THEN r ELSE [r EXCEPT !.pass = m.pass]
             q1 == [q EXCEPT !.at = "read", !.salt = salt]
             q2 == [q EXCEPT !.at = "putSalt"]
  <2>1. q \in Running
    <3>1. m.pass \in Pass
      BY <1>0 DEF Manager
    <3> QED
      BY <1>0, <3>1 DEF Running
  <2>2. q1.at = "read" /\ q2.at = "putSalt"
    <3> HIDE DEF q
    <3> QED
      BY <2>1 DEF Running
  <2>3. TaskFits(q1, keyfile) /\ TaskFits(q2, keyfile)
    BY <2>2 DEF TaskFits
  <2>4. step(t, AtRest) \/ step(t, q1) \/ step(t, q2)
    BY <1>8 DEF ReadSalt, m, r
  <2>5. \A u \in Task : TaskFits(task'[u], keyfile)
    BY <1>0, <2>3, <2>4, StepFits
  <2> QED
    BY <1>8, <2>5 DEF ReadSalt, ManagersFit, IssuedFits
<1>9. CASE PutSalt(t)
  <2>1. TaskFits([r EXCEPT !.at = "rereadSalt"], keyfile)
    BY <1>0 DEF Running, TaskFits
  <2> QED
    BY <1>9, <2>1, StepFits DEF PutSalt, to, r, ManagersFit, IssuedFits
<1>10. CASE RereadSalt(t)
  <2>1. TaskFits([r EXCEPT !.at = "read", !.salt = salt], keyfile)
    BY <1>0 DEF Running, TaskFits
  <2> QED
    BY <1>10, <2>1, StepFits DEF RereadSalt, r, ManagersFit, IssuedFits
<1>11. CASE ReadKeyfile(t)
  <2>1. TaskFits([r EXCEPT !.at = "create"], keyfile)
    BY <1>0 DEF Running, TaskFits
  <2>2. \/ failed(t) \/ refused(t) \/ (keyfile # None /\ derived(t))
        \/ step(t, [r EXCEPT !.at = "create"]) /\ UNCHANGED <<manager, issued>>
    BY <1>11 DEF ReadKeyfile, to, r
  <2> QED
    BY <2>1, <2>2, DerivedFits, StepFits DEF ManagersFit, IssuedFits
<1>12. CASE CreateKeyfile(t)
  <2>1. TaskFits([r EXCEPT !.at = "reread"], keyfile)
    BY <1>0 DEF Running, TaskFits
  <2> QED
    BY <1>12, <2>1, StepFits DEF CreateKeyfile, to, r, ManagersFit, IssuedFits
<1>13. CASE RereadKeyfile(t)
  <2>1. keyfile # None /\ (refused(t) \/ derived(t))
    BY <1>13 DEF RereadKeyfile, TasksOK, Healthy
  <2> QED
    BY <2>1, DerivedFits
<1>14. CASE Refused(t)
  <2>1. TaskFits([AtRest EXCEPT !.at = "forget", !.for = "open", !.retry = TRUE], keyfile)
    BY <1>0 DEF Running, TaskFits
  <2>2. ManagerFits([m EXCEPT !.pass = None, !.unverified = FALSE, !.key = None], keyfile)
    BY <1>0 DEF Manager, ManagerFits
  <2>3. \A u \in Task : TaskFits(task'[u], keyfile)
    BY <1>0, <1>14, <2>1, StepFits DEF Refused
  <2>4. \A d \in Holder : ManagerFits(manager'[d], keyfile)
    BY <1>14, <2>2, KeepFits DEF Refused, m, ManagersFit
  <2> QED
    BY <1>14, <2>3, <2>4 DEF Refused, IssuedFits
<1>15. CASE Save(t)
  BY <1>0, <1>15, StepFits DEF Save, ManagersFit, IssuedFits
<1>16. CASE ReadToRotate(t)
  <2> DEFINE w == [key |-> keyfile.key, pass |-> r.next, salt |-> r.salt,
                   epoch |-> keyfile.epoch + 1, by |-> t]
             q == [r EXCEPT !.at = "rewrap", !.wrote = w]
  <2>1. q.wrote = w /\ w.key = keyfile.key
    BY <1>0 DEF Running
  <2>2. keyfile # None => TaskFits(q, keyfile)
    BY <2>1 DEF TaskFits, Holds
  <2>3. step(t, AtRest) \/ (keyfile # None /\ step(t, q))
    BY <1>16 DEF ReadToRotate, r
  <2>4. \A u \in Task : TaskFits(task'[u], keyfile)
    <3> HIDE DEF q
    <3> QED
      BY <1>0, <2>2, <2>3, StepFits
  <2> QED
    BY <1>16, <2>4 DEF ReadToRotate, ManagersFit, IssuedFits
<1>17. CASE Rewrap(t)
  <2>1. TaskFits([r EXCEPT !.at = "reread"], keyfile)
    BY <1>0 DEF Running, TaskFits
  <2> QED
    BY <1>17, <2>1, StepFits DEF Rewrap, to, r, ManagersFit, IssuedFits
<1>18. CASE Rotated(t)
  <2>1. TaskFits([AtRest EXCEPT !.at = "save", !.pass = r.next], keyfile)
    BY <1>0 DEF Running, TaskFits
  <2>2. ManagerFits([m EXCEPT !.pass = r.next, !.unverified = FALSE, !.key = None], keyfile)
    BY <1>0 DEF Manager, ManagerFits
  <2>3. \A u \in Task : TaskFits(task'[u], keyfile)
    BY <1>0, <1>18, <2>1, StepFits DEF Rotated, adopt, r
  <2>4. \A d \in Holder : ManagerFits(manager'[d], keyfile)
    BY <1>18, <2>2, KeepFits DEF Rotated, adopt, m, r, ManagersFit
  <2> QED
    BY <1>18, <2>3, <2>4 DEF Rotated, IssuedFits
<1>19. CASE Transfer(t)
  <2> DEFINE q == [r EXCEPT !.at = "confirm", !.pass = m.pass]
  <2>1. TaskFits(q, keyfile)
    BY <1>0 DEF Running, TaskFits
  <2>2. (step(t, AtRest) \/ step(t, q)) /\ UNCHANGED <<manager, issued>>
    BY <1>19 DEF Transfer, r, m
  <2> QED
    BY <1>0, <2>1, <2>2, StepFits DEF ManagersFit, IssuedFits
<1>20. CASE Import(t)
  <2>1. TaskFits([AtRest EXCEPT !.at = "save", !.pass = r.pass], keyfile)
    BY <1>0 DEF Running, TaskFits
  <2>2. ManagerFits([m EXCEPT !.pass = r.pass, !.unverified = FALSE, !.key = None], keyfile)
    BY <1>0 DEF Manager, ManagerFits
  <2>3. \A u \in Task : TaskFits(task'[u], keyfile)
    BY <1>0, <1>20, <2>1, StepFits DEF Import, adopt, r
  <2>4. \A d \in Holder : ManagerFits(manager'[d], keyfile)
    BY <1>20, <2>2, KeepFits DEF Import, adopt, m, r, ManagersFit
  <2> QED
    BY <1>20, <2>3, <2>4 DEF Import, IssuedFits
<1> QED
  BY <1>1, <1>2, <1>3, <1>4, <1>5, <1>6, <1>7, <1>8, <1>9, <1>10, <1>11, <1>12, <1>13,
     <1>14, <1>15, <1>16, <1>17, <1>18, <1>19, <1>20

(* The data key in the keyfile stays what it is: a put that finds one leaves *)
(* it, and a rotation wraps the key it read.                                 *)
LEMMA KeyStays ==
    ASSUME KeyringAssumption, Conditional, KeyInv, [KNext]_kvars, keyfile # None
    PROVE  Holds(keyfile', keyfile.key)
<1>1. ASSUME NEW t \in Task, CreateKeyfile(t) PROVE keyfile' = keyfile
  BY <1>1 DEF CreateKeyfile, putIfAbsent
<1>2. ASSUME NEW t \in Task, Rewrap(t) PROVE Holds(keyfile', keyfile.key)
  <2>1. keyfile' = task[t].wrote /\ task[t].wrote \in Wrapping /\ task[t].wrote.key = keyfile.key
    BY <1>2 DEF Rewrap, KeyInv, KTypes, TasksOK, Healthy, TasksFit, TaskFits, Holds
  <2>2. None \notin Wrapping
    BY DEF KeyringAssumption, Wrapping, Pass, Salt
  <2> QED
    BY <2>1, <2>2 DEF Holds
<1>3. ASSUME NEW t \in Task,
             \/ OpenSession(t) \/ Command(t) \/ Forget(t) \/ Prompt(t) \/ LoadCached(t) \/ Answer(t)
             \/ Resolve(t) \/ ReadSalt(t) \/ PutSalt(t) \/ RereadSalt(t) \/ ReadKeyfile(t)
             \/ RereadKeyfile(t) \/ Refused(t) \/ Save(t) \/ ReadToRotate(t) \/ Rotated(t)
             \/ Transfer(t) \/ Import(t)
      PROVE  keyfile' = keyfile
  BY <1>3 DEF kstore, OpenSession, Command, Forget, Prompt, LoadCached, Answer, Resolve, ReadSalt, PutSalt,
     RereadSalt, ReadKeyfile, RereadKeyfile, Refused, Save, ReadToRotate, Rotated, Transfer, Import
<1>4. ASSUME NEW d \in Holder, Restart(d) PROVE keyfile' = keyfile
  BY <1>4 DEF Restart, kstore
<1>5. CASE UNCHANGED kvars
  BY <1>5 DEF kvars, kstore, Holds
<1> QED
  BY <1>1, <1>2, <1>3, <1>4, <1>5 DEF KNext, Holds

(* The start.                                                                *)
LEMMA KeyInit == ASSUME KeyringAssumption, KInit PROVE KeyInv
BY KTypesInit DEF KInit, KeyInv, TasksFit, TaskFits, ManagersFit, ManagerFits, IssuedFits, AtRest, Blank

(* Every step keeps the one data key.                                        *)
LEMMA KeyStep == ASSUME KeyringAssumption, Conditional, KeyInv, [KNext]_kvars PROVE KeyInv'
<1>1. KTypes'
  BY KTypesStep DEF KeyInv
<1>2. /\ \A u \in Task : TaskFits(task'[u], keyfile)
      /\ \A d \in Holder : ManagerFits(manager'[d], keyfile)
      /\ \A k \in issued' : Holds(keyfile, k)
  <2>1. ASSUME NEW d \in Holder, Restart(d)
        PROVE  /\ \A u \in Task : TaskFits(task'[u], keyfile)
               /\ \A x \in Holder : ManagerFits(manager'[x], keyfile)
               /\ \A k \in issued' : Holds(keyfile, k)
    <3>1. TaskFits(AtRest, keyfile) /\ ManagerFits(Blank, keyfile)
      BY DEF TaskFits, ManagerFits, AtRest, Blank
    <3> QED
      BY <2>1, <3>1 DEF Restart, KeyInv, KTypes, ManagersOK, TasksFit, ManagersFit, IssuedFits
  <2>2. CASE UNCHANGED kvars
    BY <2>2 DEF kvars, KeyInv, TasksFit, ManagersFit, IssuedFits
  <2> QED
    BY <2>1, <2>2, TaskKeys DEF KNext
<1>3. \A k : Holds(keyfile, k) => Holds(keyfile', k)
  BY KeyStays DEF Holds
<1> QED
  BY <1>1, <1>2, <1>3 DEF KeyInv, TasksFit, TaskFits, ManagersFit, ManagerFits, IssuedFits

-----------------------------------------------------------------------------
(* The specification of the keyring alone.                                   *)
KSpec == KInit /\ [][KNext]_kvars

(* A remembered key was opened by the passphrase held now, and what is cached*)
(* opened the keyfile or a settings link: a passphrase only typed is not     *)
(* cached (passphrase-manager.ts, resolveKey, replacePassphrase and          *)
(* persistIfEnabled), in any store, for any devices, operations, links and   *)
(* passphrases.                                                              *)
THEOREM CacheIsProven ==
    ASSUME KeyringAssumption PROVE KSpec => [](KeyOfItsPassphrase /\ OnlyProvenOnDisk)
<1>1. KInit => CacheInv
  BY CacheInit
<1>2. CacheInv /\ [KNext]_kvars => CacheInv'
  BY CacheStep
<1>3. CacheInv => KeyOfItsPassphrase /\ OnlyProvenOnDisk
  BY DEF CacheInv, ManagersSafe, ManagerSafe, KeyOfItsPassphrase
<1> QED
  BY <1>1, <1>2, <1>3, PTL DEF KSpec

(* One data key for the vault (keyfile.ts: a second key would orphan data),  *)
(* in a store that honours putIfAbsent, however many devices set it up at    *)
(* once or rotate its passphrase across one another.                         *)
THEOREM KeyIsOne ==
    ASSUME KeyringAssumption, Conditional PROVE KSpec => []OneDataKey
<1>1. KInit => KeyInv
  BY KeyInit
<1>2. KeyInv /\ [KNext]_kvars => KeyInv'
  BY KeyStep
<1>3. KeyInv => OneDataKey
  BY DEF KeyInv, IssuedFits, Holds, OneDataKey
<1> QED
  BY <1>1, <1>2, <1>3, PTL DEF KSpec
=============================================================================
