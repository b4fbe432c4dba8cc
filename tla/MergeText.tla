------------------------------ MODULE MergeText ------------------------------
(***************************************************************************)
(* The three-way merge of one text.  Both sides are compared with their    *)
(* common base, the changed places are gathered into regions, and the      *)
(* merge editor shows one change per region: what only one side changed    *)
(* starts in the result, a conflict waits for the person, who accepts or   *)
(* rejects each side of each change, in any order, and steps back.         *)
(*                                                                         *)
(* The result is a text of characters with a span per change, because that *)
(* is where the code can go wrong: every click edits the text and moves    *)
(* every other span, and a file may end with or without a newline.  A line *)
(* is the sequence of its characters, so <<>> is an empty line and the     *)
(* last line of a text that ends with a newline.                           *)
(*                                                                         *)
(* The same regions, not grouped where they merely touch, merge what a     *)
(* device wrote while away into the text of a live room.                   *)
(***************************************************************************)
EXTENDS Integers, Sequences, FiniteSets, SequencesExt, FiniteSetsExt

CONSTANTS
    BaseLines,    \* the lines a base is made of
    SideLines,    \* the lines a side is made of
    MaxBase,      \* the lines of a base, at most
    MaxLocal,     \* the lines of the local side, at most
    MaxRemote,    \* the lines of the remote side, at most
    MaxSteps      \* clicks in the editor, undone ones included

VARIABLES
    sides,      \* the three texts as lines, and how each side was compared with the base
    open,       \* the editor is open
    doc,        \* the result, as characters
    changes,    \* one record per region
    past,       \* what Undo would take back, the last step first
    clicks,     \* ghost: per change, the sides now in, in the order they were taken
    steps

mvars == <<sides, open, doc, changes, past, clicks, steps>>

Side == {"local", "remote"}
NL == "newline"
NoSpan == [from |-> -1, to |-> -1]
Other(side) == IF side = "local" THEN "remote" ELSE "local"

(***************************************************************************)
(* Texts.                                                                  *)
(***************************************************************************)
Texts(lines, n) == UNION {[1..k -> lines] : k \in 1..n}

\* A value named once: TLC expands a definition wherever it is used.
With(value, Use(_)) == CHOOSE used \in {Use(v) : v \in {value}} : TRUE

Between(lines, range) == SubSeq(lines, range[1] + 1, range[2])

\* Lines joined by newlines; no line at all is the empty text, as one empty line is.
Joined(lines) == FlattenSeq([i \in 1..Len(lines) |-> (IF i = 1 THEN <<>> ELSE <<NL>>) \o lines[i]])

LineAt(text, pos) ==
    LET starts == {0} \union {i \in 1..pos : text[i] = NL}
        ends   == {Len(text)} \union {i - 1 : i \in {j \in (pos + 1)..Len(text) : text[j] = NL}}
    IN  [from |-> Max(starts), to |-> Min(ends)]

(***************************************************************************)
(* The differ keeps a longest common subsequence; which of several depends *)
(* on its search, so every one of them is tried.                           *)
(***************************************************************************)
Kept(a, b) ==
    LET pairs == {p \in (1..Len(a)) \X (1..Len(b)) : a[p[1]] = b[p[2]]}
        Advancing(s) == \A p, q \in s : p # q => (p[1] < q[1] /\ p[2] < q[2]) \/ (q[1] < p[1] /\ q[2] < p[2])
        chains == {s \in SUBSET pairs : Advancing(s)}
        longest == Max({Cardinality(s) : s \in chains})
    IN  {s \in chains : Cardinality(s) = longest}

diffArrays == [base \in Texts(BaseLines, MaxBase), lines \in Texts(SideLines, Max({MaxLocal, MaxRemote})) |->
                  Kept(base, lines)]

\* What lies between two kept lines, and before the first and after the last, is a hunk
\* unless it is empty on both sides.
hunksFromChanges(base, lines, kept) ==
    LET chain == <<<<0, 0>>>> \o SetToSortSeq(kept, LAMBDA p, q : p[1] < q[1])
                    \o <<<<Len(base) + 1, Len(lines) + 1>>>>
        gap(i) == [base  |-> <<chain[i][1], chain[i + 1][1] - 1>>,
                   lines |-> <<chain[i][2], chain[i + 1][2] - 1>>]
    IN  SelectSeq([i \in 1..(Cardinality(kept) + 1) |-> gap(i)],
                  LAMBDA h : h.base[1] < h.base[2] \/ h.lines[1] < h.lines[2])

sideHunks(side, base, lines, kept) ==
    LET hunks == hunksFromChanges(base, lines, kept)
    IN  [i \in 1..Len(hunks) |-> [side |-> side, base |-> hunks[i].base, lines |-> hunks[i].lines]]

(***************************************************************************)
(* Regions.  The hunks of both sides in the order they start in the base,  *)
(* local ones first among equals, are gathered while they overlap, or      *)
(* touch when that is asked for.                                           *)
(***************************************************************************)
joins(hunk, start, end, groupTouching) ==
    IF hunk.base[1] # end THEN hunk.base[1] < end
    ELSE groupTouching \/ (start = end /\ hunk.base[2] = end)

orderedHunks ==
    LET all == sides.hunks["local"] \o sides.hunks["remote"]
        before(i, j) == all[i].base[1] < all[j].base[1] \/ (all[i].base[1] = all[j].base[1] /\ i < j)
        order == SetToSortSeq(1..Len(all), before)
    IN  [i \in 1..Len(all) |-> all[order[i]]]

Gathered(done, hunk, groupTouching) ==
    IF done # <<>> /\ joins(hunk, Last(done).start, Last(done).end, groupTouching)
    THEN Append(Front(done), [start |-> Last(done).start, end |-> Max({Last(done).end, hunk.base[2]}),
                              hunks |-> Append(Last(done).hunks, hunk)])
    ELSE Append(done, [start |-> hunk.base[1], end |-> hunk.base[2], hunks |-> <<hunk>>])

groups(groupTouching) ==
    With(orderedHunks, LAMBDA hunks :
        LET gathered[n \in 0..Len(hunks)] ==
                IF n = 0 THEN <<>>
                ELSE With(gathered[n - 1], LAMBDA done : Gathered(done, hunks[n], groupTouching))
        IN  gathered[Len(hunks)])

\* Outside its own hunks a side equals the base: its lines follow the base's at the
\* distance its last hunk left them.
own(group, side) == SelectSeq(group.hunks, LAMBDA h : h.side = side)

shifted(gs, n, side) ==
    LET before == {i \in 1..n : own(gs[i], side) # <<>>}
        last   == Last(own(gs[Max(before)], side))
    IN  IF before = {} THEN 0 ELSE last.lines[2] - last.base[2]

\* A plausible slip: the distance is forgotten where a side changed nothing.
sideRangeUnshifted(gs, i, side) ==
    LET mine == own(gs[i], side)
    IN  IF mine = <<>> THEN <<gs[i].start, gs[i].end>>
        ELSE <<mine[1].lines[1] - (mine[1].base[1] - gs[i].start),
               Last(mine).lines[2] + (gs[i].end - Last(mine).base[2])>>

sideRange(gs, i, side) ==
    LET mine == own(gs[i], side)
    IN  IF mine = <<>>
        THEN <<gs[i].start + shifted(gs, i - 1, side), gs[i].end + shifted(gs, i - 1, side)>>
        ELSE <<mine[1].lines[1] - (mine[1].base[1] - gs[i].start),
               Last(mine).lines[2] + (gs[i].end - Last(mine).base[2])>>

threeWayRegions(groupTouching) ==
    With(groups(groupTouching), LAMBDA gs :
        [i \in 1..Len(gs) |->
            [base |-> <<gs[i].start, gs[i].end>>,
             local |-> sideRange(gs, i, "local"), remote |-> sideRange(gs, i, "remote"),
             changed |-> {h.side : h \in Range(gs[i].hunks)}]])

\* The base with each region replaced: what is between two regions is the base's.
Woven(regions, Put(_)) ==
    FlattenSeq([i \in 1..Len(regions) |->
        Between(sides.base, <<IF i = 1 THEN 0 ELSE regions[i - 1].base[2], regions[i].base[1]>>)
        \o Put(i)])

Merged(regions, Put(_)) ==
    Woven(regions, Put)
    \o Between(sides.base, <<IF regions = <<>> THEN 0 ELSE Last(regions).base[2], Len(sides.base)>>)

(***************************************************************************)
(* Merging into a live room: the device's text is the local side, the      *)
(* room's the remote one.  A conflict keeps both, the room's first.        *)
(***************************************************************************)
commonEnds(a, b) ==
    LET shorter == Min({Len(a), Len(b)})
        head == Max({n \in 0..shorter : \A i \in 1..n : a[i] = b[i]})
        tail == Max({n \in 0..(shorter - head) : \A i \in 0..(n - 1) : a[Len(a) - i] = b[Len(b) - i]})
    IN  [head |-> head, tail |-> tail]

\* A plausible slip: the two texts' common head is cut from both of them.
keepBothTwiceCut(theirs, mine) ==
    LET ends == commonEnds(theirs, mine)
    IN  SubSeq(theirs, ends.head + 1, Len(theirs) - ends.tail)
        \o SubSeq(mine, ends.head + 1, Len(mine) - ends.tail)
        \o SubSeq(theirs, Len(theirs) - ends.tail + 1, Len(theirs))

keepBoth(theirs, mine) ==
    LET ends == commonEnds(theirs, mine)
    IN  SubSeq(theirs, 1, Len(theirs) - ends.tail)
        \o SubSeq(mine, ends.head + 1, Len(mine) - ends.tail)
        \o SubSeq(theirs, Len(theirs) - ends.tail + 1, Len(theirs))

mergedRegion(region) ==
    LET mine   == Between(sides.local, region.local)
        theirs == Between(sides.remote, region.remote)
    IN  CASE "local" \notin region.changed -> theirs
          [] "local" \in region.changed /\ ("remote" \notin region.changed \/ mine = theirs) -> mine
          [] OTHER -> keepBoth(theirs, mine)

mergeThreeWay ==
    CASE sides.local = sides.base -> sides.remote
      [] sides.local # sides.base /\ sides.remote \in {sides.base, sides.local} -> sides.local
      [] OTHER -> With(threeWayRegions(FALSE), LAMBDA regions :
                        Merged(regions, LAMBDA i : mergedRegion(regions[i])))

(***************************************************************************)
(* The merge editor's session.                                             *)
(***************************************************************************)
isConflict(region) ==
    /\ region.changed = Side
    /\ Between(sides.local, region.local) # Between(sides.remote, region.remote)

sessionLines(region) ==
    CASE isConflict(region) -> Between(sides.base, region.base)
      [] ~isConflict(region) /\ "local" \in region.changed -> Between(sides.local, region.local)
      [] OTHER -> Between(sides.remote, region.remote)

\* The running length counts a newline after every line; the last line has none, so a
\* span is cut at the end of the text.
Length(lines) == Len(FlattenSeq(lines)) + Len(lines)

changeOf(region, before, text) ==
    LET from   == Length(before)
        to     == from + Length(sessionLines(region))
        result == [from |-> Min({from, Len(text)}), to |-> Min({to, Len(text)})]
        conflict == isConflict(region)
    IN  [conflict |-> conflict, base |-> region.base, local |-> region.local, remote |-> region.remote,
         endsAtEof |-> region.base[2] = Len(sides.base),
         result |-> result,
         taken  |-> [side \in Side |-> IF side \in region.changed /\ ~conflict THEN result ELSE NoSpan],
         status |-> [side \in Side |-> IF side \notin region.changed THEN "none"
                                       ELSE IF conflict THEN "open" ELSE "applied"]]

SessionOf(regions) ==
    LET lines(i) == sessionLines(regions[i])
        before(i) == Woven(SubSeq(regions, 1, i - 1), lines)
                     \o Between(sides.base, <<IF i = 1 THEN 0 ELSE regions[i - 1].base[2], regions[i].base[1]>>)
    IN  With(Joined(Merged(regions, lines)), LAMBDA text :
            [text |-> text, changes |-> [i \in 1..Len(regions) |-> changeOf(regions[i], before(i), text)]])

buildMergeSession == With(threeWayRegions(TRUE), SessionOf)

MInit ==
    /\ \E base \in Texts(BaseLines, MaxBase), local \in Texts(SideLines, MaxLocal),
          remote \in Texts(SideLines, MaxRemote) :
          \E ours \in diffArrays[base, local], theirs \in diffArrays[base, remote] :
              sides = [base |-> base, local |-> local, remote |-> remote,
                       hunks |-> [local  |-> sideHunks("local", base, local, ours),
                                  remote |-> sideHunks("remote", base, remote, theirs)]]
    /\ open = FALSE
    /\ doc = <<>> /\ changes = <<>> /\ clicks = <<>> /\ past = <<>>
    /\ steps = 0

\* The person opens the editor on the conflict.
Enter ==
    /\ ~open
    /\ open' = TRUE
    /\ \E session \in {buildMergeSession} :
          /\ doc' = session.text
          /\ changes' = session.changes
          /\ clicks' = [i \in 1..Len(session.changes) |->
                 SelectSeq(<<"local", "remote">>, LAMBDA side : session.changes[i].status[side] = "applied")]
    /\ UNCHANGED <<sides, past, steps>>

(***************************************************************************)
(* Positions.  CodeMirror moves a position through an edit of one range:   *)
(* at an insertion it stays before or goes after, as it is asked; inside a *)
(* replaced range it goes to the range's start or end.                     *)
(***************************************************************************)
mapPos(edit, pos, assoc) ==
    LET end == edit.from + Len(edit.insert)
    IN  CASE pos < edit.from -> pos
          [] pos >= edit.from /\ (edit.to > pos \/ (edit.to = pos /\ assoc < 0 /\ edit.from = edit.to)) ->
                IF pos = edit.from \/ assoc < 0 THEN edit.from ELSE end
          [] OTHER -> end + pos - edit.to

mapSpan(span, edit, grow, startAssoc) ==
    IF span = NoSpan THEN NoSpan
    ELSE LET from == mapPos(edit, span.from, startAssoc)
             to   == mapPos(edit, span.to, IF grow /\ span.from = span.to THEN 1 ELSE -1)
         IN  [from |-> from, to |-> Max({from, to})]

mapChange(change, edit, grow, startAssoc) ==
    [change EXCEPT !.result = mapSpan(@, edit, grow, startAssoc),
                   !.taken  = [side \in Side |-> mapSpan(@[side], edit, FALSE, startAssoc)]]

Empty(edit) == edit.from = edit.to /\ edit.insert = <<>>
Edited(text, edit) == SubSeq(text, 1, edit.from) \o edit.insert \o SubSeq(text, edit.to + 1, Len(text))

touches(edit, span) ==
    /\ ~Empty(edit)
    /\ \/ edit.from < span.to /\ edit.to > span.from
       \/ edit.from = edit.to /\ edit.from = span.from

\* A plausible slip: the other changes' spans take what is inserted at their start.
mergeChangesGrown(edit, updates) ==
    [i \in 1..Len(changes) |->
        LET named == i \in DOMAIN updates
            moved == IF Empty(edit) THEN changes[i] ELSE mapChange(changes[i], edit, named, -1)
        IN  IF ~named THEN moved
            ELSE LET update == updates[i]
                 IN  [moved EXCEPT !.result = IF update.result = NoSpan THEN @ ELSE update.result,
                                   !.taken  = [side \in Side |->
                                       IF side \in DOMAIN update.taken THEN update.taken[side] ELSE @[side]],
                                   !.status = [side \in Side |->
                                       IF side \in DOMAIN update.status THEN update.status[side] ELSE @[side]]]]

\* Every change not named by the step keeps its place: before the first named one what is
\* inserted at its edge stays outside it, after it too.
mergeChanges(edit, updates) ==
    [i \in 1..Len(changes) |->
        LET named == i \in DOMAIN updates
            after == ~named /\ \E j \in DOMAIN updates : j < i
            moved == IF Empty(edit) THEN changes[i]
                     ELSE mapChange(changes[i], edit, named, IF after THEN 1 ELSE -1)
        IN  IF ~named THEN moved
            ELSE LET update == updates[i]
                 IN  [moved EXCEPT !.result = IF update.result = NoSpan THEN @ ELSE update.result,
                                   !.taken  = [side \in Side |->
                                       IF side \in DOMAIN update.taken THEN update.taken[side] ELSE @[side]],
                                   !.status = [side \in Side |->
                                       IF side \in DOMAIN update.status THEN update.status[side] ELSE @[side]]]]

\* What a step must remember to be undone: where each change it named, or whose text it
\* touched, stood and how.
rememberChangeState(edit, updates, after) ==
    LET kept == {i \in 1..Len(changes) : \/ i \in DOMAIN updates
                                         \/ touches(edit, changes[i].result)
                                         \/ changes[i].status # after[i].status}
    IN  [i \in (IF after = changes THEN {} ELSE kept) |->
            [result |-> changes[i].result, taken |-> changes[i].taken, status |-> changes[i].status]]

(***************************************************************************)
(* The edits behind the buttons.                                           *)
(***************************************************************************)
snapToLines(span) ==
    IF span.to <= span.from
    THEN LET line == LineAt(doc, span.from)
             at   == IF span.from \in {line.from, Len(doc)} THEN span.from ELSE Min({line.to + 1, Len(doc)})
         IN  [from |-> at, to |-> at]
    ELSE LET last == LineAt(doc, span.to)
         IN  [from |-> LineAt(doc, span.from).from,
              to   |-> IF last.from = span.to THEN span.to ELSE Min({last.to + 1, Len(doc)})]

\* A plausible slip: the last line's missing newline is forgotten.
replaceLinesAnywhere(target, lines, endsAtEof, afterLastLine) ==
    LET insert == IF lines = <<>> THEN <<>> ELSE Joined(lines) \o <<NL>>
    IN  [edit   |-> [from |-> target.from, to |-> target.to, insert |-> insert],
         result |-> [from |-> target.from, to |-> target.from + Len(insert)]]

replaceLines(target, lines, endsAtEof, afterLastLine) ==
    LET atEnd  == endsAtEof /\ target.to = Len(doc)
        starts == LineAt(doc, target.from).from = target.from
        from   == IF lines = <<>> /\ atEnd /\ target.from > 0 /\ (target.from < target.to \/ starts)
                  THEN target.from - 1 ELSE target.from
        prefix == IF lines # <<>> /\ target.from = target.to /\ ((atEnd /\ afterLastLine) \/ ~starts)
                  THEN <<NL>> ELSE <<>>
        insert == IF lines = <<>> THEN <<>>
                  ELSE prefix \o Joined(lines) \o (IF atEnd THEN <<>> ELSE <<NL>>)
    IN  [edit   |-> [from |-> from, to |-> target.to, insert |-> insert],
         result |-> [from |-> from + Len(prefix), to |-> from + Len(insert)]]

emptyResult(change) ==
    LET applied == {side \in Side : change.status[side] = "applied"}
    IN  IF applied = {} THEN change.base[1] = change.base[2]
        ELSE \A side \in applied : change[side][1] = change[side][2]

Nothing(at) == [from |-> at, to |-> at, insert |-> <<>>]

\* The lines go in place of the change's, or below the other side's.
Placed(change, append, span, lines) ==
    With(replaceLines(IF append THEN [from |-> span.to, to |-> span.to] ELSE span,
                      lines, change.endsAtEof, append \/ emptyResult(change)),
         LAMBDA put : [edit   |-> put.edit,
                       result |-> IF append THEN [from |-> span.from, to |-> put.result.to] ELSE put.result,
                       taken  |-> put.result])

applyPlan(change, side, lines) ==
    LET other  == Other(side)
        append == change.status[other] = "applied"
    IN  IF ~change.conflict /\ append /\ change.taken[other] # NoSpan
        THEN [edit |-> Nothing(change.taken[other].from), result |-> change.result,
              taken |-> change.taken[other]]
        ELSE With(snapToLines(change.result), LAMBDA span :
                 IF append /\ lines = <<>>
                 THEN [edit |-> Nothing(span.to), result |-> span,
                       taken |-> [from |-> span.to, to |-> span.to]]
                 ELSE Placed(change, append, span, lines))

revertPlan(change, side, lines) ==
    LET part  == change.taken[side]
        other == Other(side)
        otherIn == change.status[other] = "applied" /\ part # NoSpan
        asOne == ~change.conflict /\ part = change.taken[other]
        absent == part.from = part.to /\ change[side][1] = change[side][2]
    IN  IF otherIn /\ (asOne \/ absent) THEN [edit |-> Nothing(part.from), result |-> NoSpan]
        ELSE IF otherIn
        THEN [edit |-> replaceLines(snapToLines(part), <<>>, change.endsAtEof, FALSE).edit, result |-> NoSpan]
        ELSE replaceLines(snapToLines(change.result), lines, change.endsAtEof, emptyResult(change))

\* One step of the editor, one step of its history.
dispatch(edit, updates) ==
    /\ steps < MaxSteps
    /\ steps' = steps + 1
    /\ doc' = Edited(doc, edit)
    /\ \E after \in {mergeChanges(edit, updates)} :
          /\ changes' = after
          /\ past' = <<[edit |-> [from |-> edit.from, to |-> edit.from + Len(edit.insert),
                                  insert |-> SubSeq(doc, edit.from + 1, edit.to)],
                        updates |-> rememberChangeState(edit, updates, after), clicks |-> clicks]>> \o past
    /\ UNCHANGED <<sides, open>>

Apply(i, side) ==
    /\ changes[i].status[side] \in {"open", "ignored"}
    /\ \E plan \in {applyPlan(changes[i], side, Between(sides[side], changes[i][side]))} :
          dispatch(plan.edit, i :> [result |-> plan.result, taken |-> side :> plan.taken,
                                    status |-> side :> "applied"])
    /\ clicks' = [clicks EXCEPT ![i] = Append(@, side)]

Revert(i, side) ==
    /\ changes[i].status[side] = "applied"
    /\ \E plan \in {revertPlan(changes[i], side, Between(sides.base, changes[i].base))} :
          dispatch(plan.edit, i :> [result |-> plan.result, taken |-> side :> NoSpan,
                                    status |-> side :> "ignored"])
    /\ clicks' = [clicks EXCEPT ![i] = SelectSeq(@, LAMBDA s : s # side)]

Ignore(i, side) ==
    /\ changes[i].status[side] = "open"
    /\ dispatch(Nothing(0), i :> [result |-> NoSpan, taken |-> <<>>, status |-> side :> "ignored"])
    /\ UNCHANGED clicks

\* The last step's text is put back, and with it every change the step remembered; the
\* others move with the text.
Undo ==
    /\ past # <<>>
    /\ steps < MaxSteps
    /\ steps' = steps + 1
    /\ doc' = Edited(doc, past[1].edit)
    /\ changes' = mergeChanges(past[1].edit, past[1].updates)
    /\ clicks' = past[1].clicks
    /\ past' = Tail(past)
    /\ UNCHANGED <<sides, open>>

MNext ==
    \/ Enter
    \/ \E i \in 1..Len(changes), side \in Side : Apply(i, side) \/ Revert(i, side) \/ Ignore(i, side)
    \/ Undo

-----------------------------------------------------------------------------
(***************************************************************************)
(* Properties.                                                             *)
(***************************************************************************)

\* What the person's clicks ask a change to show: the base's lines until a side is in,
\* and both sides of a conflict in the order they were taken.
Asked(i) ==
    LET change == changes[i]
        lines(side) == Between(sides[side], change[side])
    IN  IF clicks[i] = <<>> THEN Between(sides.base, change.base)
        ELSE IF change.conflict THEN FlattenSeq([k \in 1..Len(clicks[i]) |-> lines(clicks[i][k])])
        ELSE lines(clicks[i][1])

\* A conflict at the end of a text where a side ends with an empty line.  With the other
\* side appended below it, that line is an empty span ahead of the other's newline, and
\* taking the side back out leaves it there (merge-model.ts:355).  The result is then not
\* what was asked, by that blank line.
BlankLineAtEnd(i) ==
    /\ changes[i].conflict /\ changes[i].endsAtEof
    /\ \E side \in Side : LET lines == Between(sides[side], changes[i][side])
                          IN  lines # <<>> /\ Last(lines) = <<>>

\* The result is, character for character, the base with every change as the person left
\* it, whatever they clicked and undid and however the file ends: no edit of one change
\* eats a neighbour's newline, and no span drifts (merge-model.ts:272, merge-state.ts:46).
ResultIsAsAsked ==
    open /\ (\A i \in 1..Len(changes) : ~BlankLineAtEnd(i)) =>
        doc = Joined(Merged(changes, Asked))

\* Outside the regions the three texts are one: with every region replaced by a side's
\* own lines the base becomes that side, for both ways of grouping (merge-model.ts:138).
RegionsCoverTheChanges ==
    ~open => \A touching \in BOOLEAN, side \in Side :
        sides[side] = With(threeWayRegions(touching), LAMBDA regions :
                          Merged(regions, LAMBDA i : Between(sides[side], regions[i][side])))

\* Lines of b, in order, possibly with others between them.
IsWithin(a, b) ==
    \E at \in [1..Len(a) -> 1..Len(b)] :
        /\ \A i \in 1..Len(a) : b[at[i]] = a[i]
        /\ \A i \in 1..(Len(a) - 1) : at[i] < at[i + 1]

\* Nothing anyone wrote is dropped when a device's text is merged into the room: the lines
\* either side added are all there, in their order (live/text/merge.ts:6).
JoinKeepsBoth ==
    ~open => \A side \in Side :
        LET added == FlattenSeq([i \in 1..Len(sides.hunks[side]) |->
                                    Between(sides[side], sides.hunks[side][i].lines)])
        IN  IsWithin(added, mergeThreeWay)

MergeSafe == ResultIsAsAsked /\ RegionsCoverTheChanges /\ JoinKeepsBoth
=============================================================================
