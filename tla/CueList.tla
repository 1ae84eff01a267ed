------------------------------ MODULE CueList ------------------------------
(***************************************************************************)
(* The cue list of a show file and the pure functions with which the show  *)
(* engine walks it (the free functions at the end of                       *)
(* crates/cuepool/src/engine.rs and the two look-aheads that read nothing  *)
(* but the list).                                                          *)
(*                                                                         *)
(* A cue's Q# is its index in the list, so a list is a sequence of cues    *)
(* and 0 is a Q# no cue has (Option::None, or a reference to a cue that    *)
(* does not exist).  The iterations of the code over a work list with a    *)
(* visited set are recursive functions over the number of rounds.          *)
(***************************************************************************)
EXTENDS Integers, Sequences, FiniteSets

\* Network stands for Network, Lighting and Dummy, Text for Text and PixelMap:
\* the engine treats the members of each group alike.
CueKinds == {"Sound", "Video", "Image", "Text", "DmxShow", "TimeCode",
             "Group", "Stop", "Volume", "Goto", "Network"}
LoopModes == {"OneShot", "Looped", "LoopedInfinite", "HoldLast"}

\* The fields the engine's control flow reads.  `audio` is the number of
\* blocks in one pass of the audio track, 0 when no audio can be played;
\* `fade` says whether a Stop or Volume cue has a fade time, `silent` whether
\* a Volume cue's target level is zero, `tail` is the tail fade in blocks.
Cue == [kind : CueKinds, trigger : {"Go", "WithLast", "AfterLast"},
        enabled : BOOLEAN, retriggerable : BOOLEAN, remote : BOOLEAN,
        delay : Nat, parent : Nat, loop : LoopModes, count : Nat,
        audio : Nat, tail : Nat, mtc : BOOLEAN,
        target : Nat, all : BOOLEAN, loopEnd : BOOLEAN, fade : BOOLEAN,
        silent : BOOLEAN, start : Nat, duration : Nat]

Qids(list) == 1 .. Len(list)

LeastOr(S, default) ==
    IF S = {} THEN default ELSE CHOOSE n \in S : \A m \in S : n <= m

\* A finite set of numbers in ascending order.
InOrder(S) ==
    [n \in 1 .. Cardinality(S) |->
        CHOOSE x \in S : Cardinality({y \in S : y < x}) = n - 1]

\* The elements of s at the places in I.
Picked(s, I) == LET order == InOrder(I) IN [n \in DOMAIN order |-> s[order[n]]]

IsLooped(cue) == cue.loop \in {"Looped", "LoopedInfinite"}

-----------------------------------------------------------------------------
(* Following the list *)

\* with_last_run: the cue at q and the WithLast cues that start with it.
WithLastRun(list, q) ==
    LET Follows(i) == list[i].enabled => list[i].trigger = "WithLast"
        InRun(i) == list[i].enabled /\ \A j \in q + 1 .. i : Follows(j)
    IN  IF list[q].enabled
        THEN InOrder({i \in q .. Len(list) : InRun(i)})
        ELSE <<>>

\* next_standby_qid: where GO leaves the playhead; 0 at the end of the list.
NextStandby(list, q) ==
    LET Passed(i) == IF list[q].kind = "Group"
                     THEN list[i].parent = q
                     ELSE list[i].trigger \in {"WithLast", "AfterLast"}
    IN  LeastOr({i \in q + 1 .. Len(list) : ~Passed(i)}, 0)

\* Fault: the search begins at the cue itself.
NextAfterLastFromSelf(list, q) ==
    LeastOr({i \in q .. Len(list) :
                /\ q \in Qids(list)
                /\ list[i].enabled
                /\ \A j \in q .. i : list[j].trigger = "AfterLast"}, 0)

\* next_after_last: the first enabled cue of the AfterLast cues behind q.
NextAfterLast(list, q) ==
    LeastOr({i \in q + 1 .. Len(list) :
                /\ q \in Qids(list)
                /\ list[i].enabled
                /\ \A j \in q + 1 .. i : list[j].trigger = "AfterLast"}, 0)

\* The members play_cue plays for a Group.
GroupMembers(list, q) ==
    {i \in Qids(list) : /\ list[i].parent = q
                        /\ i # q
                        /\ list[i].trigger # "AfterLast"}

\* resolve_goto_target: the first cue that is not a Goto along the chain of
\* targets; 0 when the chain is cyclic or leads to no cue.
GotoTarget(list, q) ==
    LET chain[n \in Nat] ==
            IF n = 0 THEN q
            ELSE IF chain[n - 1] \in Qids(list) /\ list[chain[n - 1]].kind = "Goto"
            THEN list[chain[n - 1]].target
            ELSE 0
        Arrivals == {n \in 1 .. Len(list) + 1 :
                        /\ chain[n] \in Qids(list)
                        /\ list[chain[n]].kind # "Goto"}
    IN  IF Arrivals = {} THEN 0 ELSE chain[LeastOr(Arrivals, 0)]

\* resolve_stop_targets: a Group and its members, transitively; any other
\* target is itself alone.
StopTargets(list, q) ==
    LET reach[n \in Nat] ==
            IF n = 0 THEN {q}
            ELSE reach[n - 1] \cup {i \in Qids(list) : list[i].parent \in reach[n - 1]}
    IN  IF q \in Qids(list) /\ list[q].kind = "Group"
        THEN reach[Len(list)]
        ELSE {q}

-----------------------------------------------------------------------------
(* What starts the show clock *)

\* cue_starts_show_clock
StartsShowClock(cue) ==
    cue.kind \in {"Sound", "Video", "Image", "Text", "DmxShow", "TimeCode"}

\* delayed_cue_starts_show_clock: a delayed cue reaches, through groups and
\* instant AfterLast follows of enabled cues, one that starts the clock.
DelayedStartsShowClock(list, q) ==
    LET Next(i) ==
            CASE ~list[i].enabled -> {}
              [] list[i].kind = "Group" ->
                    {j \in Qids(list) : /\ list[j].parent = i
                                        /\ list[j].trigger # "AfterLast"}
              [] list[i].kind \in {"Stop", "Volume", "Network"} ->
                    {NextAfterLast(list, i)} \ {0}
              [] OTHER -> {}
        reach[n \in Nat] ==
            IF n = 0 THEN {q}
            ELSE reach[n - 1] \cup UNION {Next(i) : i \in reach[n - 1]}
    IN  /\ list[q].delay > 0
        /\ \E i \in reach[Len(list)] : list[i].enabled /\ StartsShowClock(list[i])
=============================================================================
