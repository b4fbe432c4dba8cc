----------------------------- MODULE IgnoreRules -----------------------------
(* Which files are ignored (plugin/ignore-state.ts, vault/ignore.ts): the    *)
(* patterns of this device and the note of rules of each space, kept in      *)
(* memory and read again as they change, and a folder that becomes a share   *)
(* (ui/shares/share-action.ts), where the rules of the vault stop.  A rule   *)
(* is the set of files it ignores.                                           *)
EXTENDS Naturals, Sequences

CONSTANTS
    File,               \* files and folders
    within,             \* the folder a file is in, or None
    Inside,             \* those of the folder that may become a share
    Written,            \* the rules people write, exact or not
    None,
    Races,      \* "overlap": a refresh ends after a later one
                \* "save": a refresh while a failing save of the patterns runs
                \* "remount": a share comes and goes between two questions
                \* "share": files and rules change while a folder is shared
    MaxEdits, MaxFiles, MaxMounts, MaxFails,
    MaxEvents           \* edits, files and mounts together

VARIABLES
    present,    \* the files there are
    mounted,    \* the folder is a share: its own space, with its own note
    note,       \* the rules in the note of each space
    patterns,   \* this device's, in its settings
    saving,     \* the patterns before a change that is being saved
    local, shared,          \* the rules in memory; None where none were asked for
    loads, refreshes,       \* reads of notes in flight
    ignored, computedFor,   \* the paths last computed, and for which spaces
    sharing,    \* the rules a folder takes along as it becomes a share
    used
jvars == <<present, mounted, note, patterns, saving, local, shared, loads, refreshes,
           ignored, computedFor, sharing, used>>

Root == {"vault", "share"}
inside(f) == {f} \cup {g \in File : within[g] = f}      \* an exact rule

JInit ==
    /\ present = Inside
    /\ mounted = FALSE
    /\ note = [r \in Root |-> {}] /\ patterns = {}
    /\ saving = None /\ local = {}
    /\ shared = [r \in Root |-> None]
    /\ loads = {} /\ refreshes = <<>>
    /\ ignored = {} /\ computedFor = None /\ sharing = None
    /\ used = [edits |-> 0, files |-> 0, mounts |-> 0, fails |-> 0]

spend(what, most) ==
    /\ used[what] < most
    /\ what # "fails" => used.edits + used.files + used.mounts < MaxEvents
    /\ used' = [used EXCEPT ![what] = @ + 1]

rootOf(f, apart) == IF apart /\ f \in Inside THEN "share" ELSE "vault"
matches(rules, f) == \E r \in rules : f \in r
known(mem, r) == IF mem[r] = None THEN {} ELSE mem[r]
ignoredIn(mem, mine, apart, f) == matches(mine, f) \/ matches(known(mem, rootOf(f, apart)), f)

(* sharedOf: asked for the rules of a space it never loaded, it loads them.  *)
unknown(mem, mine, apart, files) ==
    {r \in {rootOf(f, apart) : f \in {g \in files : ~matches(mine, g)}} : mem[r] = None}
remembered(mem, roots) == [r \in Root |-> IF r \in roots THEN {} ELSE mem[r]]
started(roots) == {[root |-> r, live |-> TRUE, read |-> None] : r \in roots}

(* recompute, over the rules in memory and the spaces of now.                *)
recompute(mem, mine, flying) ==
    \E new \in {unknown(mem, mine, mounted', present')} :
        /\ ignored' = {f \in present' : ignoredIn(mem, mine, mounted', f)}
        /\ computedFor' = mounted'
        /\ shared' = remembered(mem, new)
        /\ loads' = flying \cup started(new)

(* refresh: the patterns at once, then every note, read one by one.          *)
refresh ==
    /\ local' = patterns'
    /\ refreshes' = Append(refreshes,
          [r \in {q \in Root : q = "vault" \/ mounted'} |-> None])

-----------------------------------------------------------------------------
Start ==
    /\ computedFor = None /\ refreshes = <<>>
    /\ UNCHANGED <<present, mounted, note, patterns>> /\ refresh
    /\ UNCHANGED <<saving, shared, loads, ignored, computedFor, sharing, used>>

ReadNote(i, r) ==
    /\ r \in DOMAIN refreshes[i] /\ refreshes[i][r] = None
    /\ refreshes' = [refreshes EXCEPT ![i][r] = note[r]]
    /\ UNCHANGED <<present, mounted, note, patterns, saving, local, shared, loads, ignored,
                   computedFor, sharing, used>>

EndRefresh(i) ==
    /\ \A r \in DOMAIN refreshes[i] : refreshes[i][r] # None
    /\ i > 1 => "overlap" \in Races
    /\ UNCHANGED <<present, mounted, note, patterns, local>>
    /\ recompute([r \in Root |-> IF r \in DOMAIN refreshes[i] THEN refreshes[i][r] ELSE None],
                 local, {[l EXCEPT !.live = FALSE] : l \in loads})
    /\ refreshes' = SubSeq(refreshes, 1, i - 1) \o SubSeq(refreshes, i + 1, Len(refreshes))
    /\ UNCHANGED <<saving, sharing, used>>

ReadLoad(l) ==
    /\ l.read = None
    /\ loads' = (loads \ {l}) \cup {[l EXCEPT !.read = note[l.root]]}
    /\ UNCHANGED <<present, mounted, note, patterns, saving, local, shared, refreshes, ignored,
                   computedFor, sharing, used>>

(* Mutant: a load is kept whatever was loaded meanwhile.                     *)
landsAnyway(l) == TRUE

(* A load counts while the rules it was started for are those in memory.     *)
lands(l) == l.live

EndLoad(l) ==
    /\ l.read # None
    /\ UNCHANGED <<present, mounted>>
    /\ IF lands(l)
       THEN recompute([shared EXCEPT ![l.root] = l.read], local, loads \ {l})
       ELSE loads' = loads \ {l} /\ UNCHANGED <<shared, ignored, computedFor>>
    /\ UNCHANGED <<note, patterns, saving, local, refreshes, sharing, used>>

(* ignoredPaths: a change of the partition tells nobody here.                *)
Ask ==
    /\ computedFor # mounted
    /\ UNCHANGED <<present, mounted>> /\ recompute(shared, local, loads)
    /\ UNCHANGED <<note, patterns, saving, local, refreshes, sharing, used>>

-----------------------------------------------------------------------------
still == sharing = None \/ "share" \in Races

toggled(rules, r) == IF r \in rules THEN rules \ {r} ELSE rules \cup {r}

(* A note edited by hand, by the menu or by a pull: a space's own is read.   *)
EditNote(root) ==
    /\ still /\ spend("edits", MaxEdits)
    /\ (root = "share" /\ ~mounted) => (shared["share"] = None \/ "remount" \in Races)
    /\ \E r \in Written : note' = [note EXCEPT ![root] = toggled(@, r)]
    /\ UNCHANGED <<present, mounted, patterns>>
    /\ IF root = "vault" \/ mounted THEN refresh ELSE UNCHANGED <<local, refreshes>>
    /\ UNCHANGED <<saving, shared, loads, ignored, computedFor, sharing>>

(* toggleLocalIgnore: the settings change first, and back if not saved.      *)
ToggleLocal ==
    /\ saving = None /\ spend("edits", MaxEdits)
    /\ saving' = patterns
    /\ \E r \in Written : patterns' = toggled(patterns, r)
    /\ UNCHANGED <<present, mounted, note, local, shared, loads, refreshes, ignored,
                   computedFor, sharing>>

Saved ==
    /\ saving # None /\ saving' = None
    /\ UNCHANGED <<present, mounted, note, patterns>> /\ refresh
    /\ UNCHANGED <<shared, loads, ignored, computedFor, sharing, used>>

SaveFails ==
    /\ saving # None /\ spend("fails", MaxFails)
    /\ local # saving => "save" \in Races
    /\ patterns' = saving /\ saving' = None
    /\ UNCHANGED <<present, mounted, note, local, shared, loads, refreshes, ignored,
                   computedFor, sharing>>

-----------------------------------------------------------------------------
(* onVaultChange: one path looked at by the rules in memory.                 *)
track(f, gone) ==
    \E new \in {unknown(shared, local, mounted, {f})} :
        /\ ignored' = (ignored \ gone) \cup {g \in {f} : ignoredIn(shared, local, mounted, g)}
        /\ shared' = remembered(shared, new) /\ loads' = loads \cup started(new)
        /\ UNCHANGED <<mounted, note, patterns, saving, local, refreshes, computedFor, sharing>>

Leaf == {f \in File : \A g \in File : within[g] # f}

Create(f) ==
    /\ still /\ f \in Leaf \ present /\ spend("files", MaxFiles)
    /\ present' = present \cup {f} /\ track(f, {})

(* The event of a deleted file is looked at as any other.                    *)
Delete(f) ==
    /\ f \in Leaf \cap present /\ spend("files", MaxFiles)
    /\ present' = present \ {f} /\ track(f, {})

Rename(f, g) ==
    /\ still /\ f \in Leaf \cap present /\ g \in Leaf \ present /\ spend("files", MaxFiles)
    /\ present' = (present \ {f}) \cup {g} /\ track(g, {f})

(* The records of the shares change elsewhere.                               *)
Remount ==
    /\ sharing = None /\ spend("mounts", MaxMounts)
    /\ computedFor = mounted \/ "remount" \in Races
    /\ mounted' = ~mounted
    /\ UNCHANGED <<present, note, patterns, saving, local, shared, loads, refreshes, ignored,
                   computedFor, sharing>>

-----------------------------------------------------------------------------
quiet == loads = {} /\ refreshes = <<>> /\ saving = None /\ computedFor # None

(* Mutant: what is in a folder needs no rule, ignored as the folder or not.  *)
outermostAny(paths) == {f \in paths : within[f] = None}

(* carryVaultIgnores: no rule for what an ignored folder covers.             *)
outermost(paths) == {f \in paths : within[f] \notin paths}

(* shareFolder: what the vault's rules keep out, as rules of the share.      *)
Share ==
    /\ ~mounted /\ sharing = None /\ spend("mounts", MaxMounts)
    /\ quiet \/ "share" \in Races
    /\ UNCHANGED <<present, mounted>>
    /\ IF computedFor # mounted THEN recompute(shared, local, loads)
       ELSE UNCHANGED <<ignored, computedFor, shared, loads>>
    /\ sharing' = [rules |-> {inside(f) : f \in outermost(
                       {f \in ignored' \cap Inside : matches(known(shared, "vault"), f)})},
                   written |-> FALSE]
    /\ UNCHANGED <<note, patterns, saving, local, refreshes>>

WriteNote ==
    /\ sharing # None /\ ~sharing.written
    /\ \/ /\ note' = [note EXCEPT !["share"] = @ \cup sharing.rules]
          /\ sharing' = [sharing EXCEPT !.written = TRUE]
          /\ UNCHANGED used
       \/ /\ sharing.rules # {} /\ spend("fails", MaxFails)
          /\ sharing' = None /\ UNCHANGED note
    /\ UNCHANGED <<present, mounted, patterns, saving, local, shared, loads, refreshes,
                   ignored, computedFor>>

Mount ==
    /\ sharing # None /\ sharing.written
    /\ mounted' = TRUE /\ sharing' = None
    /\ UNCHANGED <<present, note, patterns>> /\ refresh
    /\ UNCHANGED <<saving, shared, loads, ignored, computedFor, used>>

JNext ==
    \/ Start \/ Ask \/ ToggleLocal \/ Saved \/ SaveFails
    \/ \E i \in DOMAIN refreshes : EndRefresh(i) \/ \E r \in Root : ReadNote(i, r)
    \/ \E l \in loads : ReadLoad(l) \/ EndLoad(l)
    \/ \E r \in Root : EditNote(r)
    \/ \E f \in File : Create(f) \/ Delete(f) \/ \E g \in File : Rename(f, g)
    \/ Remount \/ Share \/ WriteNote \/ Mount

-----------------------------------------------------------------------------
(* At rest, what menus, the explorer and a new share are told is ignored is  *)
(* what the notes and the patterns of now ignore, whatever was read when.    *)
ToldIsTrue ==
    quiet /\ computedFor = mounted =>
        ignored \cap present =
            {f \in present : matches(patterns, f) \/ matches(note[rootOf(f, mounted)], f)}

(* A folder that becomes a share takes along what kept its files out of the  *)
(* vault's sync: none of them is shared by it.                               *)
SharesNothingIgnored ==
    sharing # None /\ ~mounted /\ mounted' =>
        \A f \in present \cap Inside :
            matches(note["vault"], f) => matches(note'["share"], f)
=============================================================================
