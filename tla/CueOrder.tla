------------------------------ MODULE CueOrder ------------------------------
(***************************************************************************)
(* Order and grouping of the cue list under the operator's edits           *)
(* (crates/cuepool-gui/src/cue_order.rs, its callers in app/mod.rs, the    *)
(* drop targets of cue_list/mod.rs and the playhead's step in              *)
(* crates/cuepool/src/engine.rs).                                          *)
(*                                                                         *)
(* Go walks the list by position, a group fires its members by their       *)
(* parent field, and cues are named by their numbers: every edit has to    *)
(* keep the three in agreement.  A number is drawn as one that no cue has; *)
(* which decimal choose_qid forms is left out.                             *)
(***************************************************************************)
EXTENDS Integers, Sequences, FiniteSets

CONSTANTS
    Starts,       \* the lists a show file may hold when it is opened
    MaxCues,      \* bound: cues in the list
    Numbers,      \* bound: cue numbers in use
    MayNest,      \* a group is added also while a group or a member is selected
    GroupTriggers \* triggers the operator gives to a group

Triggers == {"Go", "WithLast"}
NoCue == 0
Cue == [q : Numbers, kind : {"Cue", "Group"}, parent : Numbers \union {NoCue}, trigger : Triggers]

ASSUME OrderAssumption ==
    /\ Numbers \subseteq Nat \ {NoCue} /\ IsFiniteSet(Numbers)
    /\ MaxCues \in Nat /\ Cardinality(Numbers) >= 2 * MaxCues
    /\ MayNest \in BOOLEAN /\ GroupTriggers \subseteq Triggers
    /\ Starts \subseteq Seq(Cue) /\ \A list \in Starts : Len(list) <= MaxCues

VARIABLES cues, selected \* show_file.cues, selected_cue_id
vars == <<cues, selected>>

-----------------------------------------------------------------------------
(* cue_order.rs.  A span is a pair of its first and its last index, and a  *)
(* place to insert at is the index of the cue it comes before.             *)

Rows(list) == 1..Len(list)
Taken(list) == {list[i].q : i \in Rows(list)}
IsGroup(cue) == cue.kind = "Group"
MaxOf(S) == CHOOSE m \in S : \A n \in S : n <= m
Index(list, q) == CHOOSE i \in Rows(list) : list[i].q = q

Span(list, i) ==
    IF ~IsGroup(list[i]) THEN <<i, i>>
    ELSE <<i, MaxOf({j \in i..Len(list) : \A k \in i + 1..j : list[k].parent = list[i].q})>>

EnclosingSpan(list, i) ==
    LET headers == {h \in 1..i - 1 : IsGroup(list[h]) /\ list[h].q = list[i].parent}
    IN  IF list[i].parent # NoCue /\ headers # {} /\ i <= Span(list, MaxOf(headers))[2]
        THEN Span(list, MaxOf(headers))
        ELSE Span(list, i)

InsertAt(list, at, block) == SubSeq(list, 1, at - 1) \o block \o SubSeq(list, at, Len(list))
RemoveSpan(list, span) == SubSeq(list, 1, span[1] - 1) \o SubSeq(list, span[2] + 1, Len(list))

\* insertion: where a cue added after the selection belongs, and its group.
Insertion(list, anchor) ==
    IF anchor \notin Taken(list) THEN [at |-> Len(list) + 1, parent |-> NoCue]
    ELSE LET i == Index(list, anchor)
         IN  IF IsGroup(list[i]) THEN [at |-> i + 1, parent |-> anchor]
             ELSE [at |-> i + 1, parent |-> list[i].parent]

MoveSpanUnshifted(list, from, to) == \* mutant: the gap the block leaves is forgotten
    IF to \in from[1]..from[2] + 1 THEN list
    ELSE LET rest == RemoveSpan(list, from)
             at == IF to > Len(rest) + 1 THEN Len(rest) + 1 ELSE to
         IN  InsertAt(rest, at, SubSeq(list, from[1], from[2]))

MoveSpan(list, from, to) ==
    IF to \in from[1]..from[2] + 1 THEN list
    ELSE LET size == from[2] - from[1] + 1
             at == IF to > from[2] THEN to - size ELSE to
         IN  InsertAt(RemoveSpan(list, from), at, SubSeq(list, from[1], from[2]))

\* nudge: a block steps over its sibling, or over a whole block at top level.
Nudge(list, i, down) ==
    LET block == Span(list, i)
        next == IF down THEN block[2] + 1 ELSE block[1] - 1
        sibling == list[next].parent = list[i].parent /\ ~IsGroup(list[next])
        over == IF sibling THEN Span(list, next) ELSE EnclosingSpan(list, next)
    IN  IF next \notin Rows(list) THEN list
        ELSE IF ~sibling /\ list[i].parent # NoCue THEN list
        ELSE MoveSpan(list, block, IF down THEN over[2] + 1 ELSE over[1])

SelectionAfterRemoval(list, span) ==
    IF span[2] < Len(list) THEN list[span[2] + 1].q
    ELSE IF span[1] > 1 THEN list[span[1] - 1].q ELSE NoCue

\* choose_qid: the n-th number that no cue has.
Free(list, n) ==
    CHOOSE q \in Numbers \ Taken(list) :
        Cardinality({r \in Numbers \ Taken(list) : r <= q}) = n

\* duplicate_span: members of a copied group follow the copied header.
DuplicateSpan(list, span) ==
    LET copy(k) == [list[span[1] + k - 1] EXCEPT !.q = Free(list, k)]
    IN  [k \in 1..span[2] - span[1] + 1 |->
            IF k > 1 /\ IsGroup(list[span[1]]) THEN [copy(k) EXCEPT !.parent = Free(list, 1)]
            ELSE copy(k)]

\* next_standby_qid: where Go leaves the playhead, as an index, 0 at the end.
NextStandby(list, i) ==
    LET Passed(k) == IF IsGroup(list[i]) THEN list[k].parent = list[i].q
                     ELSE list[k].trigger = "WithLast"
        stops == {j \in i + 1..Len(list) : ~Passed(j) /\ \A k \in i + 1..j - 1 : Passed(k)}
    IN  IF stops = {} THEN 0 ELSE MaxOf(stops)

-----------------------------------------------------------------------------
(* The edits (CuePool::process_commands)                                   *)

Init == cues \in Starts /\ selected = NoCue

SelectCue == \E q \in Taken(cues) : selected' = q /\ UNCHANGED cues

AddCue ==
    /\ Len(cues) < MaxCues
    /\ LET place == Insertion(cues, selected)
       IN  \E kind \in {"Cue", "Group"} :
              /\ kind = "Group" => MayNest \/ place.parent = NoCue
              /\ cues' = InsertAt(cues, place.at,
                             <<[q |-> Free(cues, 1), kind |-> kind, parent |-> place.parent,
                                trigger |-> "Go"]>>)
    /\ selected' = Free(cues, 1)

DeleteCue ==
    \E i \in Rows(cues) :
        /\ selected' = SelectionAfterRemoval(cues, Span(cues, i))
        /\ cues' = RemoveSpan(cues, Span(cues, i))

DuplicateCue ==
    \E i \in Rows(cues) :
        LET span == Span(cues, i)
            copies == DuplicateSpan(cues, span)
        IN  /\ Len(cues) + Len(copies) <= MaxCues
            /\ cues' = InsertAt(cues, span[2] + 1, copies)
            /\ selected' = copies[1].q

MoveCueUpOrDown ==
    /\ \E i \in Rows(cues), down \in BOOLEAN : cues' = Nudge(cues, i, down)
    /\ UNCHANGED selected

UngroupInPlace == \* mutant: the freed cue stays where it is
    /\ \E i \in Rows(cues) :
          /\ cues[i].parent # NoCue
          /\ cues' = [cues EXCEPT ![i].parent = NoCue]
    /\ UNCHANGED selected

\* UngroupCue: the freed cue steps past the whole group.
UngroupCue ==
    /\ \E i \in Rows(cues) :
          /\ cues[i].parent # NoCue
          /\ cues' = MoveSpan([cues EXCEPT ![i].parent = NoCue], <<i, i>>,
                              EnclosingSpan(cues, i)[2] + 1)
    /\ UNCHANGED selected

MoveAnywhere(i, to, group) == \* mutant: a group lands between the members of another
    LET parent == IF IsGroup(cues[i]) \/ group = cues[i].q THEN NoCue ELSE group
    IN  cues' = MoveSpan([cues EXCEPT ![i].parent = parent], Span(cues, i), to)

\* MoveCue: a group stays at top level and lands on the boundary of a block;
\* a drop that moves nothing may still regroup.
MoveCue(i, to, group) ==
    LET block == Span(cues, i)
        parent == IF IsGroup(cues[i]) \/ group = cues[i].q THEN NoCue ELSE group
        at == IF IsGroup(cues[i]) /\ to <= Len(cues) THEN EnclosingSpan(cues, to)[1] ELSE to
    IN  cues' = MoveSpan([cues EXCEPT ![i].parent = parent], block, at)

\* A row is dropped on another, to join its group, or at the end of the list.
Drop ==
    /\ \E i \in Rows(cues) :
          \/ \E row \in Rows(cues) \ {i} :
                IF IsGroup(cues[row]) THEN MoveCue(i, row + 1, cues[row].q)
                ELSE MoveCue(i, row, cues[row].parent)
          \/ MoveCue(i, Len(cues) + 1, NoCue)
    /\ UNCHANGED selected

\* UpdateCueQid: members and selection follow the new number.
Renumber(i, new) ==
    cues' = [k \in Rows(cues) |->
                [cues[k] EXCEPT !.q = IF k = i THEN new ELSE @,
                                !.parent = IF @ = cues[i].q THEN new ELSE @]]

UpdateCueQid ==
    \E i \in Rows(cues), new \in Numbers \ Taken(cues) :
        /\ Renumber(i, new)
        /\ selected' = IF selected = cues[i].q THEN new ELSE selected

UpdateCueTrigger ==
    /\ \E i \in Rows(cues), t \in Triggers :
          /\ IsGroup(cues[i]) => t \in GroupTriggers
          /\ cues' = [cues EXCEPT ![i].trigger = t]
    /\ UNCHANGED selected

Next ==
    \/ SelectCue \/ AddCue \/ DeleteCue \/ DuplicateCue \/ MoveCueUpOrDown \/ UngroupCue \/ Drop
    \/ UpdateCueQid \/ UpdateCueTrigger

Spec == Init /\ [][Next]_vars

-----------------------------------------------------------------------------
(* Properties *)

\* A cue number is a cue's identity: no edit gives two cues the same.
TypeOK ==
    /\ cues \in Seq(Cue) /\ Len(cues) <= MaxCues
    /\ selected \in Numbers \union {NoCue}
    /\ Cardinality(Taken(cues)) = Len(cues)

\* "A group's members are contiguous and immediately follow their header"
\* (cue_order.rs): whatever is edited, a cue is a member exactly when it is
\* in the span of its group.
GroupsContiguous ==
    \A i, k \in Rows(cues) :
        (IsGroup(cues[i]) /\ cues[k].parent = cues[i].q) <=>
            (k # i /\ k \in Span(cues, i)[1]..Span(cues, i)[2])

\* No member is left behind by the group it belongs to.
MembersHaveGroup ==
    \A k \in Rows(cues) : cues[k].parent # NoCue =>
        \E i \in Rows(cues) : IsGroup(cues[i]) /\ cues[i].q = cues[k].parent

\* What is selected is in the list.
SelectionExists == selected = NoCue \/ selected \in Taken(cues)

\* The playhead never stops inside a group that fired: Go on a cue at top
\* level leaves it at top level (next_standby_qid and its use of the order).
PlayheadOutsideGroups ==
    \A i \in Rows(cues) : (cues[i].parent = NoCue /\ NextStandby(cues, i) # 0) =>
        cues[NextStandby(cues, i)].parent = NoCue

\* Whatever refers to a cue by its number refers to the right one, while edits
\* renumber, copy and delete: members to their group, the selection and GO.
ReferencesHold == MembersHaveGroup /\ SelectionExists /\ PlayheadOutsideGroups

\* A nudge is undone by the opposite nudge, groups and their members included.
NudgeReverses ==
    \A i \in Rows(cues), down \in BOOLEAN :
        LET moved == Nudge(cues, i, down)
        IN  moved # cues => Nudge(moved, Index(moved, cues[i].q), ~down) = cues

\* The copy of a group is a group of its own with a copy of each member.
CopyIsWhole ==
    \A i \in Rows(cues) :
        LET span == Span(cues, i)
            copies == DuplicateSpan(cues, span)
        IN  Len(cues) + Len(copies) <= MaxCues =>
               LET after == InsertAt(cues, span[2] + 1, copies)
               IN  /\ Span(after, span[2] + 1)[2] = span[2] + Len(copies)
                   /\ Span(after, i) = span

\* Edits of a block take its members along and nothing else.
BlocksStayWhole == NudgeReverses /\ CopyIsWhole
=============================================================================
