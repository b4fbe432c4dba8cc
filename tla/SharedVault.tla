----------------------------- MODULE SharedVault -----------------------------
(***************************************************************************)
(* What the file sync promises its users: the vault is one tree of files   *)
(* that devices change one commit at a time, and a commit replaces or      *)
(* removes only versions its device has held and paths whose user decided  *)
(* to keep this device's side.  Automatic sync loses no edit unseen, and   *)
(* no device's commit undoes another's.  What a kept path replaces is      *)
(* whatever version is there when the keep runs, reviewed or not.          *)
(***************************************************************************)
EXTENDS SyncDiff

CONSTANTS Device, Nobody

VARIABLES files,  \* the shared tree
          by,     \* the device whose commit it is
          known,  \* per device and path, the versions held there
          kept    \* per device, the paths its user keeps this side of

vars == <<files, by, known, kept>>

Init ==
    /\ files \in Files
    /\ by \in Device \cup {Nobody}
    /\ known \in [Device -> [Path -> SUBSET Content]]
    /\ kept = [d \in Device |-> {}]

(* d may replace what p holds: nothing, a version it knows, or what it was  *)
(* told to replace.                                                         *)
replaceable(d, p) ==
    \/ files[p] = NoFile
    \/ \E c \in known[d][p] : sameContent(c, files[p])
    \/ p \in kept[d]

(* Between commits a device comes to hold versions and its user decides.    *)
Learn(d) ==
    /\ known' \in [Device -> [Path -> SUBSET Content]]
    /\ \A p \in Path : known[d][p] \subseteq known'[d][p]
    /\ \E paths \in SUBSET Path : kept' = [kept EXCEPT ![d] = paths]
    /\ \A e \in Device \ {d} : known'[e] = known[e]
    /\ UNCHANGED <<files, by>>

Commit(d) ==
    /\ files' \in Files
    /\ \A p \in Path : files'[p] # files[p] => replaceable(d, p)
    /\ by' = d
    /\ UNCHANGED <<known, kept>>

Next == \E d \in Device : Learn(d) \/ Commit(d)

Spec == Init /\ [][Next]_vars
=============================================================================
