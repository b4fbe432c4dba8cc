----------------------------- MODULE MCLiveRoom -----------------------------
(* Small instances of LiveRoom for TLC. *)
EXTENDS LiveRoom, TLC

CONSTANTS a, b, e0, e1, e2

Interchangeable == Permutations(Device) \cup Permutations(Edit \ Start)

(* After a death, a note closed or a log lost, opening undoes no edit of the *)
(* room and inserts none twice.                                              *)
RestartKeeps == NothingUndone /\ NoDoubling
=============================================================================
