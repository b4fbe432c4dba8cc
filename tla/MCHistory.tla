------------------------------ MODULE MCHistory ------------------------------
(* The history of two notes on two devices, for TLC. What the devices push   *)
(* is given: a note, another beside it, then the first gone, so that a       *)
(* snapshot holds contents its own change record does not name.              *)
EXTENDS VaultHistory, TLC

CONSTANTS n1, n2, v1, v2

Edits ==
    <<{(n1 :> v1) @@ (n2 :> NoVersion)}, {(n1 :> v1) @@ (n2 :> v2)},
      {(n1 :> NoVersion) @@ (n2 :> v2)}>>

Spec == HInit /\ [][HNext]_hvars
=============================================================================
