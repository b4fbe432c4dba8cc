----------------------------- MODULE MCVaultSync -----------------------------
(* Small instances of VaultSync for TLC. *)
EXTENDS VaultSync, TLC

CONSTANTS h1, h2, h3

(* Every hash is its own scene: no drawings. *)
NoDrawings == [h \in Hash |-> h]

(* h1 and h2 are two saves of one drawing. *)
OneDrawing == [h \in Hash |-> IF h = h2 THEN h1 ELSE h]

Interchangeable == Permutations(Device) \cup Permutations(Path) \cup Permutations(Hash)

DeviceSymmetry == Permutations(Device)
=============================================================================
