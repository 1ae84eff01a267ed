---------------------------- MODULE MCShowEngine ----------------------------
(***************************************************************************)
(* The cue lists on which ShowEngine is model-checked.  Each instance (a   *)
(* .cfg) picks the lists, the commands of the operator and the bounds.     *)
(***************************************************************************)
EXTENDS ShowEngine

\* A sound of two blocks; the other cues are variations of it.
Sound ==
    [kind |-> "Sound", trigger |-> "Go", enabled |-> TRUE, retriggerable |-> TRUE,
     remote |-> FALSE, delay |-> 0, parent |-> 0, loop |-> "OneShot", count |-> 1,
     audio |-> 2, tail |-> 0, mtc |-> FALSE, target |-> 0, all |-> FALSE,
     loopEnd |-> FALSE, fade |-> FALSE, silent |-> FALSE, start |-> 0,
     duration |-> 0]
Short == [Sound EXCEPT !.audio = 1]
Loop == [Short EXCEPT !.loop = "Looped", !.count = 2]
Video == [Short EXCEPT !.kind = "Video"]
SilentVideo == [Video EXCEPT !.audio = 0]
Image == [Short EXCEPT !.kind = "Image"]
DmxShow == [Short EXCEPT !.kind = "DmxShow"]
Network == [Short EXCEPT !.kind = "Network"]
Group == [Short EXCEPT !.kind = "Group"]
StopOf(q) == [Short EXCEPT !.kind = "Stop", !.target = q]
FadeOf(q) == [StopOf(q) EXCEPT !.fade = TRUE]
LoopEndOf(q) == [StopOf(q) EXCEPT !.loopEnd = TRUE]
StopAllCue == [Short EXCEPT !.kind = "Stop", !.all = TRUE]
FadeAllCue == [StopAllCue EXCEPT !.fade = TRUE]
VolumeOf(q) == [Short EXCEPT !.kind = "Volume", !.target = q, !.fade = TRUE]
GotoOf(q) == [Short EXCEPT !.kind = "Goto", !.target = q]
TimeCode(t) == [Short EXCEPT !.kind = "TimeCode", !.start = t]

After(c) == [c EXCEPT !.trigger = "AfterLast"]
With(c) == [c EXCEPT !.trigger = "WithLast"]
Member(c, q) == [c EXCEPT !.parent = q]
Once(c) == [c EXCEPT !.retriggerable = FALSE]
Late(c) == [c EXCEPT !.delay = 1]

\* Sounds that start together, follow each other and are faded, cut, cut at
\* the end of a loop or turned down.
AudioShows ==
    { << Once([Sound EXCEPT !.tail = 1]), After(Short), FadeAllCue >>,
      << Short, With(Loop), FadeOf(1), LoopEndOf(2) >>,
      << Once(Late(Short)), With(Once(Short)), VolumeOf(1), StopOf(2) >> }

\* Pictures with and without audio that end, loop, hold, follow MTC, replace
\* each other and are stopped.
VideoShows ==
    { << Once(Video), After(SilentVideo), StopOf(1), Video >>,
      << [Loop EXCEPT !.kind = "Video"], [SilentVideo EXCEPT !.loop = "LoopedInfinite"],
         Image, With(Short), FadeAllCue >>,
      << [Video EXCEPT !.loop = "HoldLast"], [Video EXCEPT !.mtc = TRUE],
         Once(Video), StopAllCue >> }

\* Groups, delays, timecodes, a Goto, a remote cue and a Stop All: what moves
\* the show clock and what must leave it alone.
ClockShows ==
    { << Group, Member(Late(Network), 1), Member(After(TimeCode(1)), 1),
         Member(With(TimeCode(2)), 1), After(Short), StopAllCue, With(Short) >>,
      << [TimeCode(1) EXCEPT !.duration = 1], After(GotoOf(4)), GotoOf(4),
         [Image EXCEPT !.enabled = FALSE], With([Network EXCEPT !.remote = TRUE]),
         TimeCode(2), After(StopAllCue) >> }

\* Every cascade of these lists is finite.
LiveShows ==
    { << Group, Member(Short, 1), Member(Group, 1), Member(Late(StopOf(2)), 3),
         After(Loop) >>,
      << Video, After(DmxShow), After(TimeCode(1)) >>,
      << Video, After(Short), FadeOf(1) >> }

-----------------------------------------------------------------------------
(* Bounds *)

Bounded(allowed, commands, time) ==
    [allowed |-> allowed, commands |-> commands, time |-> time]

SoundBounds == Bounded({"Go", "Pause", "Select", "Preload"}, 4, 3)
PictureBounds == Bounded({"Go", "Pause", "Seek", "VideoFails"}, 3, 2)
ClockBounds == Bounded({"Go", "Pause", "Stop", "Adjust", "Project", "Fire"}, 3, 4)

\* Every list with the commands that matter to it; the clock starts at 1.
MixedShows == AudioShows \cup VideoShows \cup ClockShows
ShowLimits(list) ==
    IF list \in AudioShows THEN SoundBounds
    ELSE IF list \in VideoShows THEN PictureBounds ELSE ClockBounds

LiveLimits(list) == Bounded({"Go", "Pause"}, 2, 2)

-----------------------------------------------------------------------------
(* Lists with which the engine does not do what its comments say. *)

\* Two sounds end in one tick; the follow of the first stops everything.
BatchShows == { << Short, After(StopAllCue), Short, After(Sound) >> }
BatchLimits(list) == Bounded({"Go"}, 3, 2)

\* The picture of a video with audio fails, perhaps after the audio has ended.
VideoFollowShows == { << Video, After(Short) >> }
FailLimits(list) == Bounded({"Go", "VideoFails"}, 3, 2)
=============================================================================
