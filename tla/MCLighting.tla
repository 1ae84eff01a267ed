----------------------------- MODULE MCLighting -----------------------------
(* The rigs on which Lighting is model-checked. *)
EXTENDS Lighting

Bare == [fixtures |-> {}, shows |-> << >>, canvas |-> {}, pixelmap |-> {}, recorder |-> FALSE]
Shot == [len |-> 2, mode |-> "OneShot", count |-> 1, fadeIn |-> 1, fadeOut |-> 1, next |-> 0]
Held == [Shot EXCEPT !.len = 1, !.mode = "HoldLast"]
Loop == [len |-> 1, mode |-> "Looped", count |-> 2, fadeIn |-> 0, fadeOut |-> 0, next |-> 0]
Endless == [Shot EXCEPT !.mode = "LoopedInfinite"]
Empty == [Shot EXCEPT !.len = 0]
Before(take, q) == [take EXCEPT !.next = q]

\* Two fixtures; shows that follow each other; a mapped segment of either source;
\* the recorder; and a fixture beside a show.
AllRigs == {
    [Bare EXCEPT !.fixtures = {1, 2}],
    [Bare EXCEPT !.shows = << Before(Held, 2), Shot >>],
    [Bare EXCEPT !.shows = << Before(Loop, 2), Endless >>],
    [Bare EXCEPT !.shows = << Before(Empty, 2), Before(Shot, 1) >>],
    [Bare EXCEPT !.canvas = {1}],
    [Bare EXCEPT !.pixelmap = {2}],
    [Bare EXCEPT !.recorder = TRUE],
    [Bare EXCEPT !.fixtures = {1}, !.shows = << Shot >>] }

SegmentRigs == {[Bare EXCEPT !.canvas = {1}]}
=============================================================================
