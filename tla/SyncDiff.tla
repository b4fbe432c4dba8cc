------------------------------ MODULE SyncDiff ------------------------------
(***************************************************************************)
(* The pure part of a sync: the three-way comparison of what is on disk,   *)
(* what the storage holds and what both last agreed on, and the operators  *)
(* that advance that agreement (sync/diff.ts, sync/baseline.ts).           *)
(*                                                                         *)
(* A file version is the hash of its bytes.  A drawing carries a second    *)
(* identity, its scene: two saves of one scene differ only in view state.  *)
(* Scene maps a hash to the representative of its scene, and a hash that   *)
(* is no drawing to itself.                                                *)
(***************************************************************************)
CONSTANTS Path,    \* paths inside the synced scope
          Hash,    \* contents a file may have
          NoFile,  \* the entry of a path that holds no file
          Scene    \* drawing scene of a hash

ASSUME NoFileAssumption == NoFile \notin Hash
ASSUME SceneAssumption == Scene \in [Hash -> Hash]

Content == Hash \cup {NoFile}
Files   == [Path -> Content]
NoFiles == [p \in Path |-> NoFile]

(* sync/diff.ts sameContent: entries agree on their hash or their scene.   *)
sameContent(a, b) ==
    \/ a = b
    \/ a \in Hash /\ b \in Hash /\ Scene[a] = Scene[b]

-----------------------------------------------------------------------------
(* diff: every path falls in at most one of the four classes.              *)

localChanged(local, base, p)   == ~sameContent(local[p], base[p])
remoteChanged(remote, base, p) == ~sameContent(remote[p], base[p])

(* Mutant: with nothing agreed on a path, this device's side of it counts.  *)
localChangesUnagreed(local, remote, base) ==
    {p \in Path : /\ ~sameContent(local[p], remote[p])
                  /\ base[p] = NoFile \/ ~remoteChanged(remote, base, p)}

localChanges(local, remote, base) ==
    {p \in Path : localChanged(local, base, p) /\ ~remoteChanged(remote, base, p)}

remoteChanges(local, remote, base) ==
    {p \in Path : ~localChanged(local, base, p) /\ remoteChanged(remote, base, p)}

bothChanged(local, remote, base) ==
    {p \in Path : localChanged(local, base, p) /\ remoteChanged(remote, base, p)}

converged(local, remote, base) ==
    {p \in bothChanged(local, remote, base) : sameContent(local[p], remote[p])}

conflicts(local, remote, base) ==
    {p \in bothChanged(local, remote, base) : ~sameContent(local[p], remote[p])}

-----------------------------------------------------------------------------
(* baseline.ts: only the given paths advance to the published entries.     *)
advanceFiles(files, published, paths) ==
    [p \in Path |-> IF p \in paths THEN published[p] ELSE files[p]]

(* baseline.ts publishedDelta: what a manifest changes, hash by hash.      *)
publishedDelta(before, after) == {p \in Path : before[p] # after[p]}

(* engine.ts knownRemoteHashes: the contents a manifest references.        *)
hashesOf(files) == {files[p] : p \in Path} \ {NoFile}
=============================================================================
