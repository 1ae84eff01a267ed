----------------------------- MODULE MCCueOrder -----------------------------
(* A blank show, and one with a group of two, a cue and an empty group.    *)
EXTENDS CueOrder

Row(q, kind, parent) == [q |-> q, kind |-> kind, parent |-> parent, trigger |-> "Go"]

Shows == {<<>>,
          <<Row(1, "Group", 0), Row(2, "Cue", 1), Row(3, "Cue", 1), Row(4, "Cue", 0),
            Row(5, "Group", 0)>>}

TwelveNumbers == 1..12

\* Lists that differ only in their numbers behave alike: the rows a number
\* names stand for it.
Named(q) == {i \in Rows(cues) : cues[i].q = q}
Shape ==
    <<[i \in Rows(cues) |-> <<cues[i].kind, cues[i].trigger, Named(cues[i].q), cues[i].parent = NoCue,
                              Named(cues[i].parent)>>],
      selected = NoCue, Named(selected)>>
=============================================================================
