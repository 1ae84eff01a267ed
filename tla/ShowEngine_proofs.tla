-------------------------- MODULE ShowEngine_proofs --------------------------
(***************************************************************************)
(* What is proved of ShowEngine, for every set of cue lists and all bounds.*)
(* The parts stand in the order in which they rest on each other:          *)
(*                                                                         *)
(*   the show clock        PauseIsWhole, ClockShowsTimeRun                 *)
(*   types                 TypeOK                                          *)
(*   a cascade's calls     what one call of process_commands may start,    *)
(*                         end or leave (Dwindles, Begins, Revives)        *)
(*   instances             OneLiveInstance, FiresOnce                      *)
(*   both halves           BothHalvesFinish, if no cue fails late          *)
(*   the picture's place   PositionIsTimeShown, if no seek passes the      *)
(*                         clock's own start                               *)
(*   Stop                  StopIsFinal, if no ended show is still reported *)
(*   the mixer             PlayingIsRendered, if no faded-out input is     *)
(*                         sought                                          *)
(*   a batch of ends       NothingChains, if no Stop cue fires amid them   *)
(*                                                                         *)
(* A condition "if ..." is an action property the specification does not   *)
(* have: it names the one step after which the code breaks the promise.    *)
(* Everything else the environment and the operator may do is allowed.     *)
(*                                                                         *)
(* The clock's inductive invariant has two parts that no action couples:   *)
(* ClockPart speaks of show_start, show_pause_started, show_paused_offset  *)
(* and the history `ran`, VideoPart of current_video.  Most actions leave  *)
(* each part alone or treat it in one of a few ways (arm, reset, show,     *)
(* seek); a lemma covers each way and the proof of the step says which.    *)
(***************************************************************************)
EXTENDS ShowEngine, TLAPS, FiniteSetTheorems, WellFoundedInduction, SequenceTheorems

\* The shape of the records; Q#s, ids and the set of fired cues play no part.
IsClock(c) ==
    /\ c = [start |-> c.start, pausedAt |-> c.pausedAt, offset |-> c.offset,
            adjustment |-> c.adjustment, triggered |-> c.triggered]
    /\ c.start \in Times /\ c.pausedAt \in Times
    /\ c.offset \in Nat /\ c.adjustment \in Int
IsVideo(v) ==
    /\ v = [q |-> v.q, id |-> v.id, epoch |-> v.epoch, audio |-> v.audio,
            origin |-> v.origin, pausedAt |-> v.pausedAt]
    /\ v.origin \in Nat /\ v.pausedAt \in Times

\* The moment up to which the clock counts.
Until == IF clock.pausedAt # None THEN clock.pausedAt ELSE now

ClockPart ==
    /\ now \in Nat
    /\ IsClock(clock)
    /\ paused \in BOOLEAN
    /\ ran \in Int
    /\ paused <=> clock.pausedAt # None
    /\ clock.pausedAt <= now
    /\ clock.start # None => ran >= 0 /\ Until = clock.start + clock.offset + ran

VideoPart ==
    /\ IsVideo(video)
    /\ video # NoVideo => (paused <=> video.pausedAt # None)

ClockInv == ClockPart /\ VideoPart

-----------------------------------------------------------------------------
(* What the parts say *)

\* The parts are strong enough: pausing is one thing.
LEMMA PartsGivePause == ClockInv => PauseIsWhole
  BY DEF ClockInv, ClockPart, VideoPart, PauseIsWhole

\* The parts are strong enough: no subtraction of show_elapsed saturates.
LEMMA PartsGiveElapsed == ClockInv => ClockShowsTimeRun
<1> SUFFICES ASSUME ClockPart, clock.start # None
             PROVE  Elapsed = GreaterOf(ran + clock.adjustment, 0)
  BY DEF ClockInv, ClockShowsTimeRun
<1>1. /\ clock.start \in Nat /\ clock.offset \in Nat /\ clock.adjustment \in Int
      /\ ran \in Int /\ ran >= 0
      /\ Until \in Int /\ Until = clock.start + clock.offset + ran
  BY DEF ClockPart, IsClock, Times, None, Until
<1>2. Monus(Monus(Until, clock.start), clock.offset) = ran
  BY <1>1 DEF Monus, GreaterOf
<1> QED
  BY <1>2 DEF Elapsed, Until

-----------------------------------------------------------------------------
(* What can happen to the clock *)

\* The clock is left alone.
LEMMA ClockKept ==
  ASSUME ClockPart, UNCHANGED <<now, paused, clock, ran>>
  PROVE  ClockPart'
  BY DEF ClockPart, Until

\* play_cue, which starts a stopped clock inside GO.
LEMMA ClockArmed ==
  ASSUME ClockPart, NEW q, ArmShowClock(q), UNCHANGED <<now, paused>>
  PROVE  ClockPart'
<1>1a. /\ IsClock(clock) /\ now \in Nat
       /\ now \in Times /\ None \in Times
  BY DEF ClockPart, Times
<1>1. CASE UNCHANGED clockVars
  BY <1>1, ClockKept DEF clockVars
<1>2. CASE /\ clock' = [clock EXCEPT !.start = now, !.offset = 0, !.adjustment = 0,
                                     !.pausedAt = IF paused THEN now ELSE None]
           /\ ran' = 0
  <2>1. PICK p \in Times : /\ clock' = [clock EXCEPT !.start = now, !.offset = 0,
                                          !.adjustment = 0, !.pausedAt = p]
                           /\ p = IF paused THEN now ELSE None
    BY <1>1a, <1>2
  <2>2. clock' = [start |-> now, pausedAt |-> p, offset |-> 0, adjustment |-> 0,
                  triggered |-> clock.triggered]
    BY <1>1a, <2>1 DEF IsClock
  <2>3. /\ clock'.start = now /\ clock'.pausedAt = p /\ clock'.offset = 0
        /\ clock'.adjustment = 0 /\ clock'.triggered = clock.triggered
    BY <2>2
  <2>4. IsClock(clock')
    <3>1. clock' = [start |-> clock'.start, pausedAt |-> clock'.pausedAt,
                    offset |-> clock'.offset, adjustment |-> clock'.adjustment,
                    triggered |-> clock'.triggered]
      BY <2>2, <2>3, Zenon
    <3> QED
      BY <1>1a, <2>3, <3>1 DEF IsClock
  <2>5. paused' \in BOOLEAN /\ (paused' <=> clock'.pausedAt # None)
    BY <2>1, <2>3 DEF ClockPart, None
  <2> QED
    BY <1>1a, <1>2, <2>1, <2>3, <2>4, <2>5 DEF ClockPart, Until, None
<1> QED
  BY <1>1, <1>2 DEF ArmShowClock

\* A field that the elapsed time does not depend on changes.
LEMMA ClockAdjusted ==
  ASSUME ClockPart, UNCHANGED <<now, paused, ran>>,
         IsClock(clock'), clock'.start = clock.start,
         clock'.pausedAt = clock.pausedAt, clock'.offset = clock.offset
  PROVE  ClockPart'
  BY DEF ClockPart, Until

\* reset_show_clock, after the pause has ended or outside of one.
LEMMA ClockReset ==
  ASSUME ClockPart, clock' = StoppedClock, ran' = 0, paused' = FALSE, now' = now
  PROVE  ClockPart'
<1>1. /\ IsClock(clock') /\ clock'.start = None /\ clock'.pausedAt = None
  BY DEF StoppedClock, IsClock, Times, None
<1>2. paused' \in BOOLEAN /\ (paused' <=> clock'.pausedAt # None)
  BY <1>1
<1>3. now' \in Nat /\ ran' \in Int /\ clock'.pausedAt <= now'
  BY <1>1 DEF ClockPart, None
<1> QED
  BY <1>1, <1>2, <1>3 DEF ClockPart

-----------------------------------------------------------------------------
(* What can happen to the picture *)

\* The picture is left alone.
LEMMA VideoKept ==
  ASSUME VideoPart, UNCHANGED <<paused, video>>
  PROVE  VideoPart'
  BY DEF VideoPart

\* No picture is a well-formed picture.
LEMMA NoVideoIsVideo == IsVideo(NoVideo)
  BY DEF NoVideo, IsVideo, Times, None

\* The picture is taken away.
LEMMA VideoGone ==
  ASSUME video' = NoVideo
  PROVE  VideoPart'
  BY NoVideoIsVideo DEF VideoPart

\* push_video_action: the picture starts again, frozen at 0 during a pause.
LEMMA VideoShown ==
  ASSUME NEW v, IsVideo(v), NEW others, ShowVideo(v, others),
         now \in Nat, paused \in BOOLEAN, paused' = paused
  PROVE  VideoPart'
<1>1. IsVideo(video') /\ video'.pausedAt = IF paused THEN 0 ELSE None
  BY DEF ShowVideo, IsVideo, Times, None
<1> QED
  BY <1>1 DEF VideoPart, None

\* A saturating subtraction of times is a time.
LEMMA MonusIsNat == \A m, n \in Nat : Monus(m, n) \in Nat
  BY DEF Monus, GreaterOf

\* seek moves the frozen or the running position.
LEMMA VideoSought ==
  ASSUME VideoPart, now \in Nat, paused \in BOOLEAN, NEW t \in Nat,
         video' = VideoSoughtTo(t), paused' = paused
  PROVE  VideoPart'
<1>1. Monus(now, t) \in Nat
  BY MonusIsNat
<1>2. /\ IsVideo(video')
      /\ video'.pausedAt = IF paused THEN t ELSE video.pausedAt
  BY <1>1 DEF VideoSoughtTo, VideoPart, IsVideo, Times
<1>3. ~paused => video.pausedAt = None
  <2>1. NoVideo.pausedAt = None
    BY DEF NoVideo
  <2> QED
    BY <2>1 DEF VideoPart
<1> QED
  BY <1>2, <1>3 DEF VideoPart, None

-----------------------------------------------------------------------------
(* The steps *)

\* Neither part is touched.
LEMMA BothKept ==
  ASSUME ClockInv, UNCHANGED <<now, paused, clock, ran, video>>
  PROVE  ClockInv'
  BY ClockKept, VideoKept DEF ClockInv

\* Calls and events that touch neither the show clock nor the picture.
LEMMA OtherSteps ==
  ASSUME ClockInv,
         \/ Fire \/ Select \/ Preload \/ EndGo \/ PlayRefused \/ PlayAfterLast
         \/ CheckFadeOuts \/ CheckPendingStops \/ CheckFinishedCues
         \/ FinishAudioHalf \/ FinishCue \/ CheckDelayedCues \/ CheckTimecodes
         \/ ExpireTimecodes
  PROVE  ClockInv'
<1>1. CASE Fire \/ Select \/ Preload \/ EndGo \/ PlayRefused \/ PlayAfterLast
  BY <1>1, BothKept DEF Fire, Select, Preload, EndGo, PlayRefused, PlayAfterLast,
       fixed, media, pictures, clockVars
<1>2. CASE CheckFadeOuts \/ CheckPendingStops
  BY <1>2, BothKept DEF CheckFadeOuts, CheckPendingStops, AudioPhase,
       fixed, pictures, clockVars
<1>3. CASE CheckFinishedCues \/ FinishAudioHalf \/ FinishCue
  BY <1>3, BothKept DEF CheckFinishedCues, FinishAudioHalf, FinishCue,
       fixed, media, pictures, clockVars
<1>4. CASE CheckDelayedCues \/ CheckTimecodes \/ ExpireTimecodes
  BY <1>4, BothKept DEF CheckDelayedCues, CheckTimecodes, ExpireTimecodes,
       fixed, media, pictures, clockVars
<1> QED
  BY <1>1, <1>2, <1>3, <1>4

\* A cue starts and may arm the clock; the picture stays.
LEMMA PlaySteps ==
  ASSUME ClockInv,
         \/ PlayRemote \/ PlayDelayed \/ PlayReady \/ PlaySound \/ PlayExternal
         \/ PlayDmxShow \/ PlayVolume \/ PlayGroup \/ PlayTimeCode \/ PlayGoto
  PROVE  ClockInv'
<1>1. ArmShowClock(task.q) /\ UNCHANGED <<now, paused, video>>
  BY DEF PlayRemote, PlayDelayed, PlayReady, PlaySound, PlayExternal, PlayDmxShow,
         PlayVolume, PlayGroup, PlayTimeCode, PlayGoto, Plays, fixed, media, pictures
<1> QED
  BY <1>1, ClockArmed, VideoKept DEF ClockInv

\* A video cue starts: the clock may be armed and a new picture is shown.
LEMMA PlayVideoStep ==
  ASSUME ClockInv, PlayVideo
  PROVE  ClockInv'
<1>1. ArmShowClock(task.q) /\ UNCHANGED <<now, paused>>
  BY DEF PlayVideo, Plays, fixed
<1>1a. PICK q, id, audio :
        ShowVideo([NoVideo EXCEPT !.q = q, !.id = id, !.audio = audio], streams)
  BY DEF PlayVideo
<1>2. PICK v : /\ v = [NoVideo EXCEPT !.q = q, !.id = id, !.audio = audio]
               /\ ShowVideo(v, streams)
  BY <1>1a
<1>3. v = [q |-> q, id |-> id, epoch |-> NoVideo.epoch, audio |-> audio,
           origin |-> NoVideo.origin, pausedAt |-> NoVideo.pausedAt]
  BY <1>2, NoVideoIsVideo DEF IsVideo
<1>4. IsVideo(v)
  <2>1. /\ v.q = q /\ v.id = id /\ v.epoch = NoVideo.epoch /\ v.audio = audio
        /\ v.origin = NoVideo.origin /\ v.pausedAt = NoVideo.pausedAt
    BY <1>3
  <2>2. v = [q |-> v.q, id |-> v.id, epoch |-> v.epoch, audio |-> v.audio,
             origin |-> v.origin, pausedAt |-> v.pausedAt]
    BY <1>3, <2>1, Zenon
  <2> QED
    BY <2>1, <2>2, NoVideoIsVideo DEF IsVideo
<1>5. now \in Nat /\ paused \in BOOLEAN
  BY DEF ClockInv, ClockPart
<1> QED
  BY <1>1, <1>2, <1>4, <1>5, ClockArmed, VideoShown DEF ClockInv

\* An image replaces the picture.
LEMMA PlayImageStep ==
  ASSUME ClockInv, PlayImage
  PROVE  ClockInv'
<1>1. ArmShowClock(task.q) /\ UNCHANGED <<now, paused>> /\ video' = NoVideo
  BY DEF PlayImage, Plays, fixed
<1> QED
  BY <1>1, ClockArmed, VideoGone DEF ClockInv

\* Fields of the clock that the elapsed time does not depend on.
LEMMA AdjustingSteps ==
  ASSUME ClockInv, Go \/ AdjustShowTime \/ TriggerTimecode
  PROVE  ClockInv'
<1>1. UNCHANGED <<now, paused, ran, video>>
  BY DEF Go, AdjustShowTime, TriggerTimecode, fixed, media, pictures
<1>2. IsClock(clock)
  BY DEF ClockInv, ClockPart
<1>3. /\ IsClock(clock') /\ clock'.start = clock.start
      /\ clock'.pausedAt = clock.pausedAt /\ clock'.offset = clock.offset
  <2>1. CASE Go \/ TriggerTimecode
    <3>1. clock' = clock \/ \E fs : clock' = [clock EXCEPT !.triggered = fs]
      BY <2>1 DEF Go, TriggerTimecode
    <3> QED
      BY <1>2, <3>1 DEF IsClock
  <2>2. CASE AdjustShowTime
    <3>1. PICK delta \in {-1, 1} :
            clock' = [clock EXCEPT !.adjustment = clock.adjustment + delta]
      BY <2>2 DEF AdjustShowTime
    <3> QED
      BY <1>2, <3>1 DEF IsClock
  <2> QED
    BY <2>1, <2>2
<1> QED
  BY <1>1, <1>3, ClockAdjusted, VideoKept DEF ClockInv

\* A Stop cue for everything: a fade only outside of a pause, a cut ends it.
LEMMA PlayStopAllStep ==
  ASSUME ClockInv, PlayStopAll
  PROVE  ClockInv'
<1>1. clock' = StoppedClock /\ ran' = 0 /\ now' = now
  BY DEF PlayStopAll, ResetShowClock, fixed
<1>2. paused' = FALSE /\ video' = NoVideo
  <2>1. CASE cue.fade /\ ~paused
    <3>1. paused' = paused /\ video' = NoVideo
      BY <2>1 DEF PlayStopAll, FadeAll, ClearAllButAudio
    <3> QED
      BY <2>1, <3>1 DEF ClockInv, ClockPart
  <2>2. CASE ~(cue.fade /\ ~paused)
    BY <2>2 DEF PlayStopAll, StopAll, ClearAllButAudio
  <2> QED
    BY <2>1, <2>2
<1> QED
  BY <1>1, <1>2, ClockReset, VideoGone DEF ClockInv

\* The transport's Stop and a change of project.
LEMMA StopSteps ==
  ASSUME ClockInv, Stop \/ ChangeProject
  PROVE  ClockInv'
<1>1. clock' = StoppedClock /\ ran' = 0 /\ now' = now
  BY DEF Stop, ChangeProject, ResetShowClock, fixed
<1>2. paused' = FALSE /\ video' = NoVideo
  BY DEF Stop, ChangeProject, StopAll, ClearAllButAudio
<1> QED
  BY <1>1, <1>2, ClockReset, VideoGone DEF ClockInv

\* The clock is left alone and the picture at most taken away.
LEMMA CuttingSteps ==
  ASSUME ClockInv,
         \/ PlayStopTarget
         \/ \E s \in streams : VideoEofIgnored(s) \/ VideoEofEnds(s) \/ VideoFailed(s)
         \/ \E q \in shows : DmxShowEnds(q)
         \/ \E q \in doneShows : ExternalFinished(q)
         \/ \E i \in Ids : Render(i)
  PROVE  ClockInv'
<1>1. UNCHANGED <<now, paused, clock, ran>>
  BY DEF PlayStopTarget, StopTarget, VideoEofIgnored, VideoEofEnds, VideoFailed,
         DmxShowEnds, ExternalFinished, Render, fixed, clockVars
<1>2. video' = video \/ video' = NoVideo
  BY DEF PlayStopTarget, StopTarget, VideoEofIgnored, VideoEofEnds, VideoFailed,
         DmxShowEnds, ExternalFinished, Render, pictures
<1> QED
  BY <1>1, <1>2, ClockKept, VideoKept, VideoGone DEF ClockInv

\* A looped picture starts again.
LEMMA LoopSteps ==
  ASSUME ClockInv, CheckVideoLoops \/ \E s \in streams : VideoEofLoops(s)
  PROVE  ClockInv'
<1>1. UNCHANGED <<now, paused, clock, ran>>
  BY DEF CheckVideoLoops, VideoEofLoops, fixed, clockVars
<1>2. video' = video \/ \E others : ShowVideo(video, others)
  BY DEF CheckVideoLoops, VideoEofLoops
<1>3. now \in Nat /\ paused \in BOOLEAN /\ IsVideo(video)
  BY DEF ClockInv, ClockPart, VideoPart
<1> QED
  BY <1>1, <1>2, <1>3, ClockKept, VideoKept, VideoShown DEF ClockInv

\* A seek moves the picture only; in an input without a picture, not even that.
LEMMA SeekSteps ==
  ASSUME ClockInv, SeekAudio \/ SeekVideo
  PROVE  ClockInv'
<1>1. UNCHANGED <<now, paused, clock, ran>>
  BY DEF SeekAudio, SeekVideo, fixed, clockVars
<1>2. video' = video \/ \E t \in Nat : video' = VideoSoughtTo(t)
  <2>1. CASE SeekAudio
    <3>1. PICK i : \E t \in 0 .. cues[active[i].q].audio - 1 :
                        video' = video \/ video' = VideoSoughtTo(t)
      BY <2>1 DEF SeekAudio
    <3>2. \A n : 0 .. n \subseteq Nat
      OBVIOUS
    <3> QED
      BY <3>1, <3>2
  <2>2. CASE SeekVideo
    <3>1. PICK t \in 0 .. MaxSeek : video' = VideoSoughtTo(t)
      BY <2>2 DEF SeekVideo
    <3>2. t \in Nat
      OBVIOUS
    <3> QED
      BY <3>1, <3>2
  <2> QED
    BY <2>1, <2>2
<1>3. now \in Nat /\ paused \in BOOLEAN
  BY DEF ClockInv, ClockPart
<1>4. ClockPart'
  BY <1>1, ClockKept DEF ClockInv
<1>5. CASE video' = video
  BY <1>1, <1>4, <1>5, VideoKept DEF ClockInv
<1>6. ASSUME NEW t \in Nat, video' = VideoSoughtTo(t)
      PROVE  ClockInv'
  BY <1>1, <1>3, <1>4, <1>6, VideoSought DEF ClockInv
<1> QED
  BY <1>2, <1>5, <1>6

\* Pause freezes the clock and the picture where they are.
LEMMA PauseStep ==
  ASSUME ClockInv, Pause
  PROVE  ClockInv'
<1>1. /\ now' = now /\ ran' = ran /\ paused' = TRUE /\ ~paused
      /\ clock.pausedAt = None /\ now \in Nat /\ IsClock(clock)
      /\ clock' = [clock EXCEPT !.pausedAt = now]
  BY DEF Pause, ClockInv, ClockPart, fixed
<1>2. IsClock(clock')
  BY <1>1 DEF IsClock, Times
<1>3. /\ clock'.start = clock.start /\ clock'.offset = clock.offset
      /\ clock'.pausedAt = now
  BY <1>1 DEF IsClock
<1>4. ClockPart'
  <2>1. paused' \in BOOLEAN /\ (paused' <=> clock'.pausedAt # None)
    BY <1>1, <1>3 DEF None
  <2>2. clock.start # None => ran >= 0 /\ now = clock.start + clock.offset + ran
    BY <1>1 DEF ClockInv, ClockPart, Until
  <2>3. Until' = now
    BY <1>1, <1>3 DEF Until, None
  <2> QED
    BY <1>1, <1>2, <1>3, <2>1, <2>2, <2>3 DEF ClockInv, ClockPart
<1>5. VideoPart'
  <2>1. CASE video = NoVideo
    BY <1>1, <2>1, VideoGone DEF Pause
  <2>2. CASE video # NoVideo
    <3>1. /\ video' = [video EXCEPT !.pausedAt = VideoPosition]
          /\ IsVideo(video) /\ video.pausedAt = None
      BY <1>1, <2>2 DEF Pause, ClockInv, VideoPart
    <3>2. VideoPosition = Monus(now, video.origin)
      BY <3>1 DEF VideoPosition
    <3>3. VideoPosition \in Nat
      BY <1>1, <3>1, <3>2, MonusIsNat DEF IsVideo
    <3>4. IsVideo(video') /\ video'.pausedAt = VideoPosition
      BY <3>1, <3>3 DEF IsVideo, Times
    <3>5. video'.pausedAt # None
      BY <3>3, <3>4 DEF None
    <3> QED
      BY <1>1, <3>4, <3>5 DEF VideoPart
  <2> QED
    BY <2>1, <2>2
<1> QED
  BY <1>4, <1>5 DEF ClockInv

\* Resume moves the pause into the offset and the picture's clock on.
LEMMA ResumeStep ==
  ASSUME ClockInv, Resume
  PROVE  ClockInv'
<1>1. /\ now' = now /\ ran' = ran /\ paused' = FALSE /\ paused
      /\ clock.pausedAt # None /\ now \in Nat /\ IsClock(clock)
      /\ clock.pausedAt <= now
      /\ clock' = [clock EXCEPT !.offset = clock.offset + Monus(now, clock.pausedAt),
                                !.pausedAt = None]
  BY DEF Resume, ClockInv, ClockPart, fixed
<1>2. clock.pausedAt \in Nat /\ clock.offset \in Nat
  BY <1>1 DEF IsClock, Times
<1>3. Monus(now, clock.pausedAt) = now - clock.pausedAt
  BY <1>1, <1>2 DEF Monus, GreaterOf
<1>4. /\ IsClock(clock') /\ clock'.start = clock.start /\ clock'.pausedAt = None
      /\ clock'.offset = clock.offset + (now - clock.pausedAt)
  <2>1. clock.offset + (now - clock.pausedAt) \in Nat
    BY <1>1, <1>2
  <2> QED
    BY <1>1, <1>3, <2>1 DEF IsClock, Times
<1>5. ClockPart'
  <2>1. paused' \in BOOLEAN /\ (paused' <=> clock'.pausedAt # None)
    BY <1>1, <1>4
  <2>2. clock'.start # None =>
            ran' >= 0 /\ Until' = clock'.start + clock'.offset + ran'
    <3>1. clock.start # None =>
            /\ ran \in Int /\ ran >= 0 /\ clock.start \in Nat
            /\ clock.pausedAt = clock.start + clock.offset + ran
      BY <1>1 DEF ClockInv, ClockPart, Until, IsClock, Times
    <3>2. Until' = now
      BY <1>1, <1>4 DEF Until
    <3> QED
      BY <1>1, <1>2, <1>4, <3>1, <3>2
  <2>3. now' \in Nat /\ ran' \in Int /\ clock'.pausedAt <= now'
    BY <1>1, <1>4 DEF ClockInv, ClockPart, None
  <2> QED
    BY <1>4, <2>1, <2>2, <2>3 DEF ClockPart
<1>6. VideoPart'
  <2>1. CASE video = NoVideo
    BY <1>1, <2>1, VideoGone DEF Resume
  <2>2. CASE video # NoVideo
    <3>1. /\ video' = [video EXCEPT !.origin = Monus(now, video.pausedAt),
                                    !.pausedAt = None]
          /\ IsVideo(video) /\ video.pausedAt # None
      BY <1>1, <2>2 DEF Resume, ClockInv, VideoPart
    <3>2. Monus(now, video.pausedAt) \in Nat
      BY <1>1, <3>1, MonusIsNat DEF IsVideo, Times
    <3>3. IsVideo(video') /\ video'.pausedAt = None
      BY <3>1, <3>2 DEF IsVideo, Times
    <3> QED
      BY <1>1, <3>3 DEF VideoPart
  <2> QED
    BY <2>1, <2>2
<1> QED
  BY <1>5, <1>6 DEF ClockInv

\* Time passes, or a tick finds the engine's clock where it was.
LEMMA TickStep ==
  ASSUME ClockInv, TickAgain \/ TimePasses
  PROVE  ClockInv'
<1>1. PICK t \in {now, now + 1} : Tick(t)
  BY DEF TickAgain, TimePasses
<1>2. /\ now' = t /\ now \in Nat /\ t \in Nat /\ t >= now
      /\ UNCHANGED <<paused, clock, video>>
      /\ ran' = IF clock.start # None /\ ~paused THEN ran + t - now ELSE ran
  BY <1>1 DEF Tick, ClockInv, ClockPart
<1>3. ran \in Int /\ IsClock(clock) /\ (paused <=> clock.pausedAt # None)
  BY DEF ClockInv, ClockPart
<1>4. now' \in Nat /\ ran' \in Int /\ clock'.pausedAt <= now'
  BY <1>2, <1>3 DEF ClockInv, ClockPart, IsClock, Times, None
<1>5. clock'.start # None =>
          ran' >= 0 /\ Until' = clock'.start + clock'.offset + ran'
  <2> SUFFICES ASSUME clock.start # None
               PROVE  ran' >= 0 /\ Until' = clock.start + clock.offset + ran'
    BY <1>2
  <2>1. /\ ran >= 0 /\ Until = clock.start + clock.offset + ran
        /\ clock.start \in Nat /\ clock.offset \in Nat
    BY <1>3 DEF ClockInv, ClockPart, IsClock, Times
  <2>2. CASE paused
    <3>1. ran' = ran /\ Until' = Until
      BY <1>2, <1>3, <2>2 DEF Until
    <3> QED
      BY <2>1, <3>1
  <2>3. CASE ~paused
    <3>1. ran' = ran + t - now /\ Until' = t /\ Until = now
      BY <1>2, <1>3, <2>3 DEF Until
    <3> QED
      BY <1>2, <1>3, <2>1, <3>1
  <2> QED
    BY <2>2, <2>3
<1>6. ClockPart'
  BY <1>2, <1>4, <1>5 DEF ClockInv, ClockPart
<1> QED
  BY <1>2, <1>6, VideoKept DEF ClockInv

-----------------------------------------------------------------------------
(* The theorems *)

\* A new engine has a stopped clock and no picture.
LEMMA InitClock == Init => ClockInv
<1> SUFFICES ASSUME Init PROVE ClockInv
  OBVIOUS
<1>1. /\ now \in Nat /\ clock = StoppedClock /\ paused = FALSE /\ ran = 0
      /\ video = NoVideo
  BY BoundsAssumption DEF Init
<1>2. IsClock(clock) /\ clock.start = None /\ clock.pausedAt = None
  BY <1>1 DEF StoppedClock, IsClock, Times, None
<1>3. paused \in BOOLEAN /\ (paused <=> clock.pausedAt # None)
  BY <1>1, <1>2
<1>4. ClockPart
  BY <1>1, <1>2, <1>3 DEF ClockPart, None
<1> QED
  BY <1>1, <1>4, NoVideoIsVideo DEF ClockInv, VideoPart

\* Every step keeps both parts.
LEMMA NextClock == ClockInv /\ [Next]_vars => ClockInv'
<1> SUFFICES ASSUME ClockInv, [Next]_vars PROVE ClockInv'
  OBVIOUS
<1>1. CASE Operator
  BY <1>1, OtherSteps, AdjustingSteps, StopSteps, PauseStep, ResumeStep, SeekSteps
  DEF Operator
<1>2. CASE PlayCue
  BY <1>2, OtherSteps, PlaySteps, PlayVideoStep, PlayImageStep, PlayStopAllStep,
     CuttingSteps DEF PlayCue
<1>3. CASE Work /\ ~PlayCue
  BY <1>3, OtherSteps, AdjustingSteps, LoopSteps DEF Work
<1>4. CASE TickAgain \/ TimePasses
  BY <1>4, TickStep
<1>5. CASE Environment
  BY <1>5, CuttingSteps, LoopSteps DEF Environment, VideoEof
<1>6. CASE UNCHANGED vars
  BY <1>6, BothKept DEF vars, fixed, media, pictures, clockVars
<1> QED
  BY <1>1, <1>2, <1>3, <1>4, <1>5, <1>6 DEF Next

\* The inductive invariant holds throughout.
THEOREM ClockInvariance == Spec => []ClockInv
  BY InitClock, NextClock, PTL DEF Spec

\* Whatever is started, stopped, looped or replaced during a pause, and by
\* whatever cascade, the pause flag, the show clock and the picture agree.
THEOREM PauseCorrect == Spec => []PauseIsWhole
  BY ClockInvariance, PartsGivePause, PTL

\* The show clock is a stopwatch: it shows the time since GO started it
\* without the pauses, in every behaviour of every show.
THEOREM ClockCorrect == Spec => []ClockShowsTimeRun
  BY ClockInvariance, PartsGiveElapsed, PTL

-----------------------------------------------------------------------------
(* Numbers and sequences *)

\* A set of numbers has a least element: numbers are ordered as their initial
\* segments are, and finite sets by strict inclusion are well founded.
LEMMA LeastExists ==
  ASSUME NEW S, S # {}, S \subseteq Nat
  PROVE  \E n \in S : \A m \in S : n <= m
<1> DEFINE T == {1 .. n : n \in S}
           R == StrictSubsetOrdering(Nat)
<1>1. T \subseteq FiniteSubsetsOf(Nat) /\ T # {}
  <2>1. \A n \in S : IsFiniteSet(1 .. n) /\ 1 .. n \subseteq Nat
    BY FS_Interval
  <2> QED
    BY <2>1 DEF FiniteSubsetsOf
<1>2. PICK x \in T : \A y \in T : <<y, x>> \notin R
  <2>1. IsWellFoundedOn(R, FiniteSubsetsOf(Nat))
    BY FS_StrictSubsetOrderingWellFounded
  <2> HIDE DEF T, R
  <2> QED
    BY <1>1, <2>1, WFMin
<1>3. PICK n \in S : x = 1 .. n
  OBVIOUS
<1>4. ASSUME NEW m \in S PROVE n <= m
  <2> SUFFICES ASSUME m < n PROVE FALSE
    OBVIOUS
  <2> DEFINE y == 1 .. m
  <2>1. y \in SUBSET Nat /\ x \in SUBSET Nat /\ y \subseteq x /\ y # x
    <3>1. n \in x /\ n \notin y
      BY <1>3
    <3>2. y \subseteq x /\ x \subseteq Nat
      BY <1>3
    <3> QED
      BY <3>1, <3>2
  <2>2. <<y, x>> \in R
    <3> HIDE DEF y
    <3> QED
      BY <2>1 DEF StrictSubsetOrdering
  <2> QED
    BY <1>2, <2>2
<1> QED
  BY <1>4

\* LeastOr gives an element of a set that is not empty.
LEMMA LeastIsElement ==
  ASSUME NEW S, S \subseteq Nat, S # {}, NEW d
  PROVE  LeastOr(S, d) \in S /\ \A m \in S : LeastOr(S, d) <= m
  BY LeastExists DEF LeastOr

\* Each number below the size of a set is the rank of one of its elements.
LEMMA RanksExist ==
  ASSUME NEW S, S \subseteq Nat, IsFiniteSet(S),
         NEW k \in Nat, k < Cardinality(S)
  PROVE  \E x \in S : Cardinality({y \in S : y < x}) = k
<1> DEFINE Below(x) == {y \in S : y < x}
           Initial(n) == \E I \in SUBSET S :
                            /\ Cardinality(I) = n
                            /\ \A x \in I, y \in S : y < x => y \in I
           Bad == {n \in Nat : n <= Cardinality(S) /\ ~Initial(n)}
<1>1. \A I \in SUBSET S : IsFiniteSet(I) /\ Cardinality(I) \in Nat
  BY FS_Subset, FS_CardinalityType
<1>2. \A n \in Nat : n < Cardinality(S) /\ Initial(n) =>
        Initial(n + 1) /\ \E x \in S : Cardinality(Below(x)) = n
  <2> SUFFICES ASSUME NEW n \in Nat, n < Cardinality(S), Initial(n)
               PROVE  Initial(n + 1) /\ \E x \in S : Cardinality(Below(x)) = n
    OBVIOUS
  <2>1. PICK I \in SUBSET S : /\ Cardinality(I) = n
                              /\ \A x \in I, y \in S : y < x => y \in I
    OBVIOUS
  <2>2. S \ I # {}
    <3>1. S \ I = {} => I = S
      OBVIOUS
    <3> QED
      BY <2>1, <3>1
  <2>3. PICK x \in S \ I : \A y \in S \ I : x <= y
    <3>1. S \ I \subseteq Nat
      OBVIOUS
    <3> QED
      BY <2>2, <3>1, LeastExists
  <2>4. Below(x) = I
    <3>1. ASSUME NEW y \in S, y < x PROVE y \in I
      BY <2>3, <3>1
    <3>2. ASSUME NEW y \in I PROVE y < x
      <4>1. y # x /\ ~(x < y) /\ x \in Nat /\ y \in Nat
        BY <2>1, <2>3
      <4> QED
        BY <4>1
    <3> QED
      BY <3>1, <3>2
  <2>5. IsFiniteSet(I \cup {x}) /\ Cardinality(I \cup {x}) = n + 1
    BY <1>1, <2>1, <2>3, FS_AddElement
  <2>6. \A z \in I \cup {x}, y \in S : y < z => y \in I \cup {x}
    BY <2>1, <2>4
  <2>7. I \cup {x} \in SUBSET S
    BY <2>3
  <2>8. Initial(n + 1)
    BY <2>5, <2>6, <2>7
  <2> QED
    BY <2>1, <2>3, <2>4, <2>8
<1>3. Initial(0)
  <2>1. {} \in SUBSET S /\ Cardinality({}) = 0
    BY FS_EmptySet
  <2> QED
    BY <2>1
<1> HIDE DEF Initial, Below
<1>4. Bad = {}
  <2> SUFFICES ASSUME Bad # {} PROVE FALSE
    OBVIOUS
  <2>1. PICK n \in Bad : \A m \in Bad : n <= m
    BY LeastExists
  <2>2. n # 0
    BY <1>3
  <2>3. n - 1 \in Nat /\ n - 1 \notin Bad /\ n - 1 < Cardinality(S)
    BY <2>1, <2>2, FS_CardinalityType
  <2>4. Initial(n - 1)
    BY <2>3, FS_CardinalityType
  <2>5. Initial(n)
    BY <1>2, <2>3, <2>4
  <2> QED
    BY <2>1, <2>5
<1>5. Initial(k)
  BY <1>4, FS_CardinalityType
<1> QED
  BY <1>2, <1>5 DEF Below

\* Different elements have different ranks.
LEMMA RanksDiffer ==
  ASSUME NEW S, S \subseteq Nat, IsFiniteSet(S), NEW x \in S, NEW z \in S, z < x
  PROVE  Cardinality({y \in S : y < z}) < Cardinality({y \in S : y < x})
<1> DEFINE A == {y \in S : y < z}
           B == {y \in S : y < x}
<1>1. A \cup {z} \subseteq B /\ z \notin A
  <2>1. x \in Nat /\ z \in Nat /\ ~(z < z)
    OBVIOUS
  <2>2. ASSUME NEW y \in S, y < z PROVE y < x
    <3>1. y \in Nat
      OBVIOUS
    <3> QED
      BY <2>1, <2>2, <3>1
  <2> QED
    BY <2>1, <2>2
<1>2. IsFiniteSet(A) /\ IsFiniteSet(B)
  <2>1. A \subseteq S /\ B \subseteq S
    OBVIOUS
  <2> QED
    BY <2>1, FS_Subset
<1> HIDE DEF A, B
<1>3. IsFiniteSet(A \cup {z}) /\ Cardinality(A \cup {z}) = Cardinality(A) + 1
  BY <1>1, <1>2, FS_AddElement
<1>4. Cardinality(A \cup {z}) <= Cardinality(B)
  BY <1>1, <1>2, FS_Subset
<1>5. Cardinality(A) \in Nat /\ Cardinality(B) \in Nat
  BY <1>2, FS_CardinalityType
<1>6. Cardinality(A) < Cardinality(B)
  BY <1>3, <1>4, <1>5
<1> QED
  BY <1>6 DEF A, B

\* InOrder lists every element of a finite set of numbers once.
LEMMA InOrderLists ==
  ASSUME NEW S, S \subseteq Nat, IsFiniteSet(S)
  PROVE  /\ InOrder(S) \in Seq(S)
         /\ \A m, n \in DOMAIN InOrder(S) : InOrder(S)[m] = InOrder(S)[n] => m = n
         /\ \A x \in S : \E n \in DOMAIN InOrder(S) : InOrder(S)[n] = x
<1> DEFINE Rank(x) == Cardinality({y \in S : y < x})
           c == Cardinality(S)
<1>1. c \in Nat
  BY FS_CardinalityType
<1>2. DOMAIN InOrder(S) = 1 .. c
  BY DEF InOrder
<1>3. \A n \in 1 .. c : InOrder(S)[n] \in S /\ Rank(InOrder(S)[n]) = n - 1
  <2> SUFFICES ASSUME NEW n \in 1 .. c
               PROVE  InOrder(S)[n] \in S /\ Rank(InOrder(S)[n]) = n - 1
    OBVIOUS
  <2>1. n - 1 \in Nat /\ n - 1 < c
    BY <1>1
  <2>2. \E x \in S : Rank(x) = n - 1
    <3>1. \E x \in S : Cardinality({y \in S : y < x}) = n - 1
      BY <2>1, RanksExist
    <3> QED
      BY <3>1
  <2>3. InOrder(S)[n] = CHOOSE x \in S : Rank(x) = n - 1
    BY DEF InOrder
  <2> HIDE DEF Rank
  <2> QED
    BY <2>2, <2>3
<1>4. InOrder(S) \in Seq(S)
  <2>1. InOrder(S) \in [1 .. c -> S]
    BY <1>2, <1>3 DEF InOrder
  <2> QED
    BY <1>1, <2>1
<1>5. \A m, n \in 1 .. c : InOrder(S)[m] = InOrder(S)[n] => m = n
  <2> HIDE DEF Rank, c
  <2> SUFFICES ASSUME NEW m \in 1 .. c, NEW n \in 1 .. c, InOrder(S)[m] = InOrder(S)[n]
               PROVE  m = n
    OBVIOUS
  <2>1. m - 1 = n - 1
    BY <1>3
  <2> QED
    BY <1>1, <2>1
<1>6. \A x \in S : \E n \in 1 .. c : InOrder(S)[n] = x
  <2> SUFFICES ASSUME NEW x \in S PROVE \E n \in 1 .. c : InOrder(S)[n] = x
    OBVIOUS
  <2> DEFINE B == {y \in S : y < x}
  <2>1. B \subseteq S \ {x} /\ IsFiniteSet(S \ {x}) /\ Cardinality(S \ {x}) = c - 1
    <3>1. B \subseteq S \ {x}
      OBVIOUS
    <3> QED
      BY <3>1, FS_RemoveElement
  <2>2. Rank(x) \in Nat /\ Rank(x) <= c - 1
    <3> HIDE DEF B
    <3>1. IsFiniteSet(B) /\ Cardinality(B) <= c - 1
      BY <2>1, FS_Subset
    <3> QED
      BY <3>1, FS_CardinalityType DEF B
  <2>3. Rank(x) + 1 \in 1 .. c
    BY <1>1, <2>2
  <2> DEFINE z == InOrder(S)[Rank(x) + 1]
  <2>4. z \in S /\ Rank(z) = Rank(x)
    BY <1>3, <2>2, <2>3
  <2>5. ~(z < x) /\ ~(x < z)
    <3>1. z < x => Rank(z) < Rank(x)
      BY <2>4, RanksDiffer
    <3>2. x < z => Rank(x) < Rank(z)
      BY <2>4, RanksDiffer
    <3> HIDE DEF Rank, z
    <3> QED
      BY <2>2, <2>4, <3>1, <3>2
  <2>6. z = x
    <3>1. z \in Nat /\ x \in Nat
      BY <2>4
    <3> HIDE DEF z
    <3> QED
      BY <2>5, <3>1
  <2> QED
    BY <2>3, <2>6
<1> QED
  BY <1>2, <1>4, <1>5, <1>6

\* Picked takes elements of the sequence only.
LEMMA PickedIsSeq ==
  ASSUME NEW T, NEW s \in Seq(T), NEW I, I \subseteq DOMAIN s
  PROVE  Picked(s, I) \in Seq(T)
<1>1. I \subseteq Nat /\ IsFiniteSet(I)
  <2>1. DOMAIN s = 1 .. Len(s) /\ Len(s) \in Nat
    OBVIOUS
  <2>2. IsFiniteSet(1 .. Len(s))
    BY <2>1, FS_Interval
  <2> QED
    BY <2>1, <2>2, FS_Subset
<1>2. InOrder(I) \in Seq(I)
  BY <1>1, InOrderLists
<1>3. \A n \in DOMAIN InOrder(I) : s[InOrder(I)[n]] \in T
  BY <1>2
<1>4. DOMAIN InOrder(I) = 1 .. Len(InOrder(I)) /\ Len(InOrder(I)) \in Nat
  BY <1>2
<1>5. Picked(s, I) \in [1 .. Len(InOrder(I)) -> T]
  BY <1>3, <1>4 DEF Picked
<1> QED
  BY <1>4, <1>5

-----------------------------------------------------------------------------
(* Types *)

CallOps == {"play", "start", "endGo", "afterLast", "fadeOuts", "pendingStops",
            "finished", "videoLoops", "delayed", "timecodes", "finish", "trigger",
            "expire"}

\* The calls that there may be with a cue list and n - 1 ids given out: those
\* that name a cue name one of the list.
Calls(list, n) ==
    {t \in [op : CallOps, q : 0 .. Len(list), id : 0 .. n - 1, follow : BOOLEAN, at : Int] :
        /\ t.op \in {"play", "start", "endGo", "afterLast", "finish", "trigger"} => t.q # 0
        /\ t.op = "finish" => t.id # 0}

Waiting(list) == [q : Qids(list), at : Nat]

\* An instance is of a cue that has an audio track.
Sounding(list, a) == a \in Instance /\ a.q \in Qids(list) /\ list[a.q].audio \in Nat \ {0}

ListPart ==
    /\ cues \in Shows /\ selected \in Qids(cues) \cup {0}
    /\ arming \in BOOLEAN /\ budget \in Nat /\ now \in Nat /\ now >= StartTime
ActivePart ==
    /\ nextId \in Nat \ {0}
    /\ Ids \subseteq 1 .. nextId - 1
    /\ \A i \in Ids : Sounding(cues, active[i])
WaitPart == delayed \in Seq(Waiting(cues)) /\ timecodes \in Seq(Waiting(cues))
CodePart == clock.triggered \subseteq Qids(cues) /\ fired \in [Qids(cues) -> Nat]
PicturePart ==
    /\ video.q \in Nat /\ video.id \in 0 .. nextId - 1 /\ video.epoch \in Nat
    /\ video.audio \in BOOLEAN
    /\ video # NoVideo => video.q \in Qids(cues) /\ video.id # 0
    /\ half \in 0 .. nextId - 1 /\ picture \in Qids(cues) \cup {0}
    /\ streams \subseteq (1 .. nextId - 1) \X Nat
DmxPart == shows \subseteq Qids(cues) /\ doneShows \subseteq Qids(cues)
LogPart ==
    /\ log \in [finishes : Seq(Nat), av : SUBSET Nat, stopped : SUBSET Nat,
                chained : SUBSET Nat, audioEnded : SUBSET Nat,
                pictureEnded : SUBSET Nat, pictureCut : SUBSET Nat, quiet : BOOLEAN]
    /\ Len(log.finishes) = nextId - 1
AgendaPart == agenda \in Seq(Calls(cues, nextId))

TypeInv ==
    /\ ClockInv /\ ListPart /\ ActivePart /\ WaitPart /\ CodePart
    /\ PicturePart /\ DmxPart /\ LogPart /\ AgendaPart

LEMMA TypeInvGivesTypeOK == TypeInv => TypeOK
<1> SUFFICES ASSUME TypeInv PROVE TypeOK
  OBVIOUS
<1>1. /\ \A i \in DOMAIN delayed : delayed[i] \in [q : Qids(cues), at : Nat]
      /\ \A i \in DOMAIN timecodes : timecodes[i] \in [q : Qids(cues), at : Nat]
  <2>1. /\ \A i \in DOMAIN delayed : delayed[i] \in Waiting(cues)
        /\ \A i \in DOMAIN timecodes : timecodes[i] \in Waiting(cues)
    BY DEF TypeInv, WaitPart
  <2> QED
    BY <2>1 DEF Waiting
<1>2. clock \in [start : Times, pausedAt : Times, offset : Nat, adjustment : Int,
                 triggered : SUBSET Qids(cues)]
  BY DEF TypeInv, ClockInv, ClockPart, IsClock, CodePart
<1>3. video \in [q : Nat, id : 0 .. nextId - 1, epoch : Nat, audio : BOOLEAN,
                 origin : Nat, pausedAt : Times]
  BY DEF TypeInv, ClockInv, VideoPart, IsVideo, PicturePart
<1>4. \A i \in DOMAIN agenda : agenda[i].q \in Qids(cues) \cup {0} /\ agenda[i].id \in 0 .. nextId - 1
  <2>1. \A t \in Calls(cues, nextId) : t.q \in 0 .. Len(cues) /\ t.id \in 0 .. nextId - 1
    BY DEF Calls
  <2>2. Len(cues) \in Nat
    BY ShowsAssumption DEF TypeInv, ListPart
  <2>3. \A i \in DOMAIN agenda : agenda[i] \in Calls(cues, nextId)
    BY DEF TypeInv, AgendaPart
  <2> QED
    BY <2>1, <2>2, <2>3 DEF Qids
<1>5. paused \in BOOLEAN
  BY DEF TypeInv, ClockInv, ClockPart
<1>6. video # NoVideo => video.q \in Qids(cues) /\ video.id > 0
  BY DEF TypeInv, PicturePart
<1> QED
  BY <1>1, <1>2, <1>3, <1>4, <1>5, <1>6
  DEF TypeOK, TypeInv, ListPart, ActivePart, Sounding, PicturePart, DmxPart, LogPart

LEMMA InitTypes == Init => TypeInv
<1> SUFFICES ASSUME Init PROVE TypeInv
  OBVIOUS
<1>0. cues \in Seq(Cue) /\ Len(cues) \in Nat
  BY ShowsAssumption DEF Init
<1>1. ListPart
  <2>1. selected \in Qids(cues) \cup {0}
    BY <1>0 DEF Init, Qids
  <2>2. budget \in Nat
    BY BoundsAssumption DEF Init
  <2>3. now \in Nat /\ now >= StartTime
    BY BoundsAssumption DEF Init
  <2> QED
    BY <2>1, <2>2, <2>3 DEF Init, ListPart
<1>2. ActivePart
  BY DEF Init, ActivePart, NoInstances, Ids
<1>3. WaitPart /\ AgendaPart /\ DmxPart
  BY DEF Init, WaitPart, AgendaPart, DmxPart
<1>4. CodePart
  BY DEF Init, CodePart, StoppedClock, NothingFired
<1>5. PicturePart
  BY DEF Init, PicturePart, NoVideo
<1>6. LogPart
  BY DEF Init, LogPart, NothingLogged
<1> QED
  BY <1>1, <1>2, <1>3, <1>4, <1>5, <1>6, InitClock DEF TypeInv

-----------------------------------------------------------------------------
(* What can happen to an instance *)

\* It stays an instance of its cue, does not come to life and gets no follow.
Follows(a, b) ==
    b \in Instance /\ b.q = a.q /\ (Live(b) => Live(a)) /\ (b.follow => a.follow)

LEMMA CueTypes ==
  ASSUME ListPart, NEW q \in Qids(cues)
  PROVE  cues[q] \in Cue
  BY ShowsAssumption DEF ListPart, Qids

LEMMA FadesFollow ==
  ASSUME NEW a \in Instance
  PROVE  /\ Follows(a, FadedAway(a)) /\ Follows(a, FadeOver(a))
         /\ Follows(a, [a EXCEPT !.fade = "out"]) /\ Follows(a, [a EXCEPT !.fade = "level"])
         /\ Follows(a, [a EXCEPT !.fin = TRUE])
         /\ \A n \in Nat : Follows(a, [a EXCEPT !.videoLoops = n])
<1>1. Follows(a, FadedAway(a))
  BY DEF Instance, Follows, FadedAway, Live, NoStop
<1>2. Follows(a, FadeOver(a))
  BY DEF Instance, Follows, FadeOver, Live, NoStop
<1>3. Follows(a, [a EXCEPT !.fade = "out"]) /\ Follows(a, [a EXCEPT !.fade = "level"])
  BY DEF Instance, Follows, Live
<1>4. Follows(a, [a EXCEPT !.fin = TRUE])
  BY DEF Instance, Follows, Live
<1>5. ASSUME NEW n \in Nat PROVE Follows(a, [a EXCEPT !.videoLoops = n])
  BY DEF Instance, Follows, Live
<1> QED
  BY <1>1, <1>2, <1>3, <1>4, <1>5

LEMMA StopFollows ==
  ASSUME NEW list \in Seq(Cue), NEW a, Sounding(list, a), cues = list, NEW stop \in Cue
  PROVE  Follows(a, Stopped(a, stop))
<1>1. cues[a.q].audio * (a.pos \div cues[a.q].audio + 1) \in Nat
  <2> DEFINE n == cues[a.q].audio
  <2>1. n \in Nat \ {0} /\ a.pos \in Nat
    BY DEF Sounding, Instance
  <2> HIDE DEF n
  <2>2. a.pos \div n \in Nat
    BY <2>1
  <2>3. n * (a.pos \div n + 1) \in Nat
    BY <2>1, <2>2
  <2> QED
    BY <2>3 DEF n
<1>2. LoopEndStop(a, stop) \in [on : BOOLEAN, fade : BOOLEAN, until : Nat]
  BY <1>1 DEF LoopEndStop, Cue
<1> QED
  BY <1>2 DEF Stopped, Sounding, Instance, Follows, Live

LEMMA PhasesFollow ==
  ASSUME NEW a \in Instance
  PROVE  Follows(a, TailFade(a)) /\ Follows(a, PendingStop(a))
<1>1. Follows(a, TailFade(a))
  BY ZenonT(40) DEF Instance, Follows, TailFade, Live
<1>2. /\ Follows(a, a) /\ Follows(a, [a EXCEPT !.fade = "out", !.pending = NoStop])
      /\ Follows(a, [a EXCEPT !.act = FALSE, !.state = "Done", !.pending = NoStop])
  BY DEF Instance, Follows, Live, NoStop
<1> QED
  BY <1>1, <1>2 DEF PendingStop

LEMMA SeekFollows ==
  ASSUME NEW a \in Instance, NEW t \in Nat
  PROVE  Follows(a, SeekTail([a EXCEPT !.pos = t, !.fin = FALSE], t))
  BY DEF Instance, Follows, SeekTail, Live

LEMMA PauseFollows ==
  ASSUME NEW a \in Instance
  PROVE  /\ Follows(a, [a EXCEPT !.act = FALSE,
                                 !.state = IF @ \in {"Playing", "PlayingLooped"}
                                           THEN "Paused" ELSE @])
         /\ Follows(a, [a EXCEPT !.act = TRUE,
                                 !.state = IF @ # "Paused" THEN @
                                           ELSE IF IsLooped(cues[a.q])
                                           THEN "PlayingLooped" ELSE "Playing"])
  BY DEF Instance, Follows, Live

LEMMA BlockFollows ==
  ASSUME NEW a \in Instance
  PROVE  Block(a) \in Instance /\ Follows(a, Block(a))
<1>1. \A m, n \in Nat : Follows(a, [a EXCEPT !.pos = m, !.passes = n])
  BY DEF Instance, Follows, Live
<1>0. a.pos + 1 \in Nat /\ a.passes \in Nat /\ a.passes + 1 \in Nat /\ Follows(a, a)
  BY DEF Instance, Follows, Live
<1>2. \/ Block(a) = a
      \/ \E m, n \in Nat : Block(a) = [a EXCEPT !.pos = m, !.passes = n]
  BY <1>0 DEF Block
<1>3. Follows(a, Block(a))
  BY <1>0, <1>1, <1>2
<1> QED
  BY <1>3 DEF Follows

-----------------------------------------------------------------------------
(* What can happen to the cues that play *)

\* Some end, the others go on; nothing is started.
Dwindles ==
    /\ nextId' \in Nat /\ nextId' >= nextId /\ Ids' \subseteq Ids
    /\ cues' = cues \/ Ids' = {}
    /\ \A i \in Ids' : Follows(active[i], active'[i])

\* One instance is new, of a cue that may start.
Begins(i, q, ready) ==
    /\ i \in Nat /\ i >= nextId /\ nextId' = i + 1 /\ cues' = cues
    /\ q \in Qids(cues) /\ cues[q].audio \in Nat \ {0}
    /\ active' = Started(i, q, ready)
    /\ ready \/ cues[q].retriggerable \/ ~CueIsActive(q)

LEMMA TaskTypes ==
  ASSUME ListPart, AgendaPart, ~Idle
  PROVE  /\ task \in Calls(cues, nextId) /\ task.q \in 0 .. Len(cues)
         /\ task.op \in {"play", "start", "endGo", "afterLast", "finish", "trigger"}
                => task.q \in Qids(cues)
         /\ Tail(agenda) \in Seq(Calls(cues, nextId))
<1>1. agenda \in Seq(Calls(cues, nextId)) /\ agenda # <<>>
  BY DEF AgendaPart, Idle
<1>2. task \in Calls(cues, nextId) /\ Tail(agenda) \in Seq(Calls(cues, nextId))
  BY <1>1, HeadTailProperties DEF task
<1>3. Len(cues) \in Nat
  BY ShowsAssumption DEF ListPart
<1> QED
  BY <1>2, <1>3 DEF Calls, Qids

LEMMA PlayedCue ==
  ASSUME ListPart, AgendaPart, Playing
  PROVE  task.q \in Qids(cues) /\ cue \in Cue
<1>1. task.q \in Qids(cues)
  BY TaskTypes DEF Playing, Doing, task
<1> QED
  BY <1>1, CueTypes DEF cue

\* Each cue is what it was.
LEMMA StayDwindles ==
  ASSUME ActivePart, UNCHANGED <<cues, active>>, nextId' \in Nat, nextId' >= nextId
  PROVE  Dwindles
<1>1. \A i \in Ids : active[i] \in Instance
  BY DEF ActivePart, Sounding
<1>2. \A a \in Instance : Follows(a, a)
  BY DEF Follows
<1> QED
  BY <1>1, <1>2 DEF Dwindles, Ids

\* Calls, commands and events that leave the instances alone.
LEMMA QuietSteps ==
  ASSUME ActivePart,
         \/ Go \/ Fire \/ Select \/ SeekVideo \/ AdjustShowTime \/ EndGo
         \/ PlayRefused \/ PlayRemote \/ PlayDelayed \/ PlayImage \/ PlayExternal
         \/ PlayDmxShow \/ PlayGroup \/ PlayTimeCode \/ PlayGoto \/ PlayAfterLast
         \/ CheckFinishedCues \/ CheckDelayedCues \/ CheckTimecodes
         \/ TriggerTimecode \/ ExpireTimecodes \/ TickAgain \/ TimePasses
         \/ \E s \in streams : VideoEof(s) \/ VideoFailed(s)
         \/ \E q \in shows : DmxShowEnds(q)
         \/ \E q \in doneShows : ExternalFinished(q)
         \/ UNCHANGED vars
  PROVE  UNCHANGED <<cues, active, nextId>> /\ Dwindles
<1> SUFFICES UNCHANGED <<cues, active, nextId>>
  BY StayDwindles DEF ActivePart
<1>1. CASE Go \/ Fire \/ Select \/ SeekVideo \/ AdjustShowTime \/ EndGo
  BY <1>1 DEF Go, Fire, Select, SeekVideo, AdjustShowTime, EndGo, fixed, media, playing
<1>2. CASE \/ PlayRefused \/ PlayRemote \/ PlayDelayed \/ PlayImage \/ PlayExternal
           \/ PlayDmxShow \/ PlayGroup \/ PlayTimeCode \/ PlayGoto \/ PlayAfterLast
  BY <1>2 DEF PlayRefused, PlayRemote, PlayDelayed, PlayImage, PlayExternal,
     PlayDmxShow, PlayGroup, PlayTimeCode, PlayGoto, PlayAfterLast, fixed, media, playing
<1>3. CASE \/ CheckFinishedCues \/ CheckDelayedCues \/ CheckTimecodes
           \/ TriggerTimecode \/ ExpireTimecodes \/ TickAgain \/ TimePasses
  BY <1>3 DEF CheckFinishedCues, CheckDelayedCues, CheckTimecodes, TriggerTimecode,
     ExpireTimecodes, TickAgain, TimePasses, Tick, fixed, media, playing
<1>4. CASE \/ \E s \in streams : VideoEof(s) \/ VideoFailed(s)
           \/ \E q \in shows : DmxShowEnds(q)
           \/ \E q \in doneShows : ExternalFinished(q)
  BY <1>4 DEF VideoEof, VideoEofIgnored, VideoEofLoops, VideoEofEnds, VideoFailed,
     DmxShowEnds, ExternalFinished, fixed, playing
<1>5. CASE UNCHANGED vars
  BY <1>5 DEF vars, fixed, media, playing
<1> QED
  BY <1>1, <1>2, <1>3, <1>4, <1>5

\* A treatment of every instance, each of which goes on.
LEMMA TreatmentDwindles ==
  ASSUME ActivePart, cues' = cues, nextId' = nextId, Ids' = Ids,
         \A i \in Ids : Follows(active[i], active'[i])
  PROVE  Dwindles
  BY DEF Dwindles, ActivePart

\* Everything is stopped at once.
LEMMA EmptyDwindles ==
  ASSUME ActivePart, active' = NoInstances, nextId' = nextId
  PROVE  Dwindles
<1>1. Ids' = {}
  BY DEF Ids, NoInstances
<1> QED
  BY <1>1 DEF Dwindles, ActivePart

\* The calls that fade, stop, turn down or remove instances.
LEMMA StoppingSteps ==
  ASSUME ListPart, AgendaPart, ActivePart,
         \/ PlayVolume \/ PlayStopAll \/ PlayStopTarget \/ CheckFadeOuts
         \/ CheckPendingStops \/ FinishAudioHalf \/ FinishCue
  PROVE  Dwindles
<1>0. \A i \in Ids : active[i] \in Instance /\ Sounding(cues, active[i])
  BY DEF ActivePart, Sounding
<1>1. CASE PlayVolume
  <2>1. /\ cues' = cues /\ nextId' = nextId /\ Ids' = Ids
        /\ \A i \in Ids : \/ active'[i] = active[i]
                          \/ active'[i] = [active[i] EXCEPT !.fade = "out"]
                          \/ active'[i] = [active[i] EXCEPT !.fade = "level"]
    BY <1>1 DEF PlayVolume, fixed, Ids
  <2>2. \A i \in Ids : Follows(active[i], active'[i])
    <3>1. \A a \in Instance : Follows(a, a)
      BY DEF Follows
    <3> QED
      BY <1>0, <2>1, <3>1, FadesFollow
  <2> QED
    BY <2>1, <2>2, TreatmentDwindles
<1>2. CASE PlayStopAll
  <2>1. cues' = cues /\ nextId' = nextId
    BY <1>2 DEF PlayStopAll, FadeAll, StopAll, ClearAllButAudio, fixed
  <2>2. CASE FadeAll
    <3>1. Ids' = Ids /\ \A i \in Ids : active'[i] = FadedAway(active[i])
      BY <2>2 DEF FadeAll, Ids
    <3> QED
      BY <1>0, <2>1, <3>1, FadesFollow, TreatmentDwindles
  <2>3. CASE StopAll
    BY <2>1, <2>3, EmptyDwindles DEF StopAll
  <2> QED
    BY <1>2, <2>2, <2>3 DEF PlayStopAll
<1>3. CASE PlayStopTarget
  <2>1. cues' = cues /\ nextId' = nextId /\ cue \in Cue
    BY <1>3, PlayedCue DEF PlayStopTarget, PlaysStop, StopTarget, fixed
  <2>2. /\ Ids' = Ids
        /\ \A i \in Ids : active'[i] \in {active[i], Stopped(active[i], cue)}
    BY <1>3 DEF PlayStopTarget, StopTarget, Ids
  <2>3. \A i \in Ids : Follows(active[i], Stopped(active[i], cue))
    <3>1. cues \in Seq(Cue)
      BY ShowsAssumption DEF ListPart
    <3> QED
      BY <1>0, <2>1, <3>1, StopFollows
  <2>4. \A i \in Ids : Follows(active[i], active[i])
    BY <1>0 DEF Follows
  <2> QED
    BY <2>1, <2>2, <2>3, <2>4, TreatmentDwindles
<1>4. CASE CheckFadeOuts
  <2>1. /\ cues' = cues /\ nextId' = nextId /\ Ids' = Ids
        /\ \A i \in Ids : active'[i] = TailFade(active[i])
    BY <1>4 DEF CheckFadeOuts, AudioPhase, fixed, Ids
  <2> QED
    BY <1>0, <2>1, PhasesFollow, TreatmentDwindles
<1>5. CASE CheckPendingStops
  <2>1. /\ cues' = cues /\ nextId' = nextId /\ Ids' = Ids
        /\ \A i \in Ids : active'[i] = PendingStop(active[i])
    BY <1>5 DEF CheckPendingStops, AudioPhase, fixed, Ids
  <2> QED
    BY <1>0, <2>1, PhasesFollow, TreatmentDwindles
<1>6. CASE FinishAudioHalf \/ FinishCue
  <2>1. cues' = cues /\ nextId' = nextId /\ active' = Without(task.id)
    BY <1>6 DEF FinishAudioHalf, FinishCue, fixed
  <2>2. Ids' = Ids \ {task.id} /\ \A i \in Ids' : active'[i] = active[i]
    BY <2>1 DEF Ids, Without
  <2>3. \A i \in Ids' : Follows(active[i], active'[i])
    BY <1>0, <2>2 DEF Follows
  <2> QED
    BY <2>1, <2>2, <2>3 DEF Dwindles, ActivePart
<1> QED
  BY <1>1, <1>2, <1>3, <1>4, <1>5, <1>6

\* The operator's commands on what plays, the loops of a picture and the audio
\* callback.
LEMMA HandlingSteps ==
  ASSUME ListPart, ActivePart,
         \/ Stop \/ ChangeProject \/ Pause \/ Resume \/ SeekAudio \/ CheckVideoLoops
         \/ \E i \in Ids : Render(i)
  PROVE  Dwindles
<1>0. \A i \in Ids : active[i] \in Instance /\ Sounding(cues, active[i])
  BY DEF ActivePart, Sounding
<1>1. CASE Stop \/ ChangeProject
  <2>1. active' = NoInstances /\ nextId' = nextId
    BY <1>1 DEF Stop, ChangeProject, StopAll, ClearAllButAudio
  <2> QED
    BY <2>1, EmptyDwindles
<1>2. CASE Pause
  <2>1. /\ cues' = cues /\ nextId' = nextId /\ Ids' = Ids
        /\ \A i \in Ids : active'[i] =
               [active[i] EXCEPT !.act = FALSE,
                                 !.state = IF @ \in {"Playing", "PlayingLooped"}
                                           THEN "Paused" ELSE @]
    BY <1>2 DEF Pause, fixed, Ids
  <2>2. ASSUME NEW i \in Ids PROVE Follows(active[i], active'[i])
    <3>1. active[i] \in Instance
      BY <1>0
    <3> DEFINE b == [active[i] EXCEPT !.act = FALSE,
                                      !.state = IF @ \in {"Playing", "PlayingLooped"}
                                                THEN "Paused" ELSE @]
    <3>2. Follows(active[i], b)
      BY <3>1, PauseFollows, Zenon
    <3>3. active'[i] = b
      BY <2>1
    <3> QED
      BY <3>2, <3>3, Zenon
  <2> QED
    BY <2>1, <2>2, TreatmentDwindles
<1>3. CASE Resume
  <2>1. /\ cues' = cues /\ nextId' = nextId /\ Ids' = Ids
        /\ \A i \in Ids : active'[i] =
               [active[i] EXCEPT !.act = TRUE,
                                 !.state = IF @ # "Paused" THEN @
                                           ELSE IF IsLooped(cues[active[i].q])
                                           THEN "PlayingLooped" ELSE "Playing"]
    BY <1>3 DEF Resume, fixed, Ids
  <2>2. ASSUME NEW i \in Ids PROVE Follows(active[i], active'[i])
    <3>1. active[i] \in Instance
      BY <1>0
    <3> DEFINE b == [active[i] EXCEPT !.act = TRUE,
                                      !.state = IF @ # "Paused" THEN @
                                                ELSE IF IsLooped(cues[active[i].q])
                                                THEN "PlayingLooped" ELSE "Playing"]
    <3>2. Follows(active[i], b)
      BY <3>1, PauseFollows, Zenon
    <3>3. active'[i] = b
      BY <2>1
    <3> QED
      BY <3>2, <3>3, Zenon
  <2> QED
    BY <2>1, <2>2, TreatmentDwindles
<1>4. CASE SeekAudio
  <2>1. cues' = cues /\ nextId' = nextId
    BY <1>4 DEF SeekAudio, fixed
  <2>0. PICK i \in Ids : \E t \in 0 .. cues[active[i].q].audio - 1 :
            active' = [active EXCEPT ![i] = SeekTail([@ EXCEPT !.pos = t, !.fin = FALSE], t)]
    BY <1>4 DEF SeekAudio
  <2>2. PICK t \in 0 .. cues[active[i].q].audio - 1 :
            active' = [active EXCEPT ![i] = SeekTail([@ EXCEPT !.pos = t, !.fin = FALSE], t)]
    BY <2>0
  <2>3. t \in Nat
    OBVIOUS
  <2>4. Ids' = Ids /\ \A j \in Ids \ {i} : active'[j] = active[j]
    BY <2>2 DEF Ids
  <2>5. active'[i] = SeekTail([active[i] EXCEPT !.pos = t, !.fin = FALSE], t)
    BY <2>2 DEF Ids
  <2>6. Follows(active[i], active'[i])
    BY <1>0, <2>3, <2>5, SeekFollows
  <2>7. \A j \in Ids : Follows(active[j], active[j])
    BY <1>0 DEF Follows
  <2> QED
    BY <2>1, <2>4, <2>6, <2>7, TreatmentDwindles
<1>5. CASE CheckVideoLoops
  <2>1. cues' = cues /\ nextId' = nextId
    BY <1>5 DEF CheckVideoLoops, fixed
  <2>2. CASE active' = active
    BY <2>1, <2>2, StayDwindles DEF ActivePart
  <2>3. CASE /\ active' = [active EXCEPT ![LoopingIndex].videoLoops =
                                LoopsPlayed(active[LoopingIndex])]
             /\ LoopingIndex # 0
    <3> DEFINE S == {i \in Ids : active[i].q = video.q}
    <3>1. S \subseteq Nat /\ LoopingIndex = LeastOr(S, 0)
      <4>1. S \subseteq Ids /\ Ids \subseteq 1 .. nextId - 1 /\ nextId \in Nat
        BY DEF ActivePart
      <4>2. LoopingIndex = LeastOr(S, 0)
        BY DEF LoopingIndex, First
      <4>3. S \subseteq Nat
        <5>1. 1 .. nextId - 1 \subseteq Nat
          BY <4>1
        <5> HIDE DEF S
        <5> QED
          BY <4>1, <5>1
      <4> QED
        BY <4>2, <4>3
    <3>2. LoopingIndex \in Ids
      <4>1. S # {}
        <5>1. S = {} => LeastOr(S, 0) = 0
          BY DEF LeastOr
        <5> QED
          BY <2>3, <3>1, <5>1
      <4> QED
        BY <3>1, <4>1, LeastIsElement
    <3> DEFINE i == LoopingIndex
    <3> HIDE DEF i
    <3>3. LoopsPlayed(active[i]) \in Nat
      <4>1. active[i].pos \in Nat /\ cues[active[i].q].audio \in Nat \ {0}
        BY <1>0, <3>2 DEF i, Sounding, Instance
      <4>2. cues[active[i].q].count \in Nat
        BY <1>0, <3>2, CueTypes DEF i, Sounding, Cue
      <4> DEFINE n == cues[active[i].q].audio
                 p == active[i].pos
      <4> HIDE DEF n, p
      <4>3. p \div n \in Nat
        BY <4>1 DEF n, p
      <4>4. Monus(cues[active[i].q].count, 1) \in Nat
        BY <4>2, MonusIsNat
      <4> QED
        BY <4>3, <4>4 DEF LoopsPlayed, LesserOf, n, p
    <3>4. Ids' = Ids /\ \A j \in Ids \ {i} : active'[j] = active[j]
      BY <2>3 DEF Ids, i
    <3>5. active'[i] = [active[i] EXCEPT !.videoLoops = LoopsPlayed(active[i])]
      BY <2>3, <3>2 DEF Ids, i
    <3>6. Follows(active[i], active'[i])
      <4>1. active[i] \in Instance
        BY <1>0, <3>2 DEF i
      <4> DEFINE m == LoopsPlayed(active[i])
      <4>2. m \in Nat
        BY <3>3
      <4> HIDE DEF m
      <4>3. Follows(active[i], [active[i] EXCEPT !.videoLoops = m])
        BY <4>1, <4>2, FadesFollow
      <4> QED
        BY <3>5, <4>3 DEF m
    <3>7. \A j \in Ids : Follows(active[j], active[j])
      BY <1>0 DEF Follows
    <3> QED
      BY <2>1, <3>4, <3>6, <3>7, TreatmentDwindles
  <2> QED
    BY <1>5, <2>2, <2>3 DEF CheckVideoLoops
<1>6. CASE \E i \in Ids : Render(i)
  <2>1. PICK i \in Ids : Render(i)
    BY <1>6
  <2>2. cues' = cues /\ nextId' = nextId
    BY <2>1 DEF Render, fixed
  <2>3. Ids' = Ids /\ \A j \in Ids \ {i} : active'[j] = active[j]
    BY <2>1 DEF Render, Ids
  <2>4. \/ active'[i] = [active[i] EXCEPT !.fin = TRUE]
        \/ active'[i] = Block(active[i])
        \/ \E block \in {active[i], Block(active[i])} : active'[i] = FadeOver(block)
    BY <2>1 DEF Render, Ids
  <2>5. Follows(active[i], active'[i])
    <3>1. /\ active[i] \in Instance /\ Block(active[i]) \in Instance
          /\ Follows(active[i], Block(active[i]))
      BY <1>0, BlockFollows
    <3>2. Follows(active[i], FadeOver(Block(active[i])))
      <4>1. Follows(Block(active[i]), FadeOver(Block(active[i])))
        BY <3>1, FadesFollow
      <4> QED
        BY <3>1, <4>1 DEF Follows
    <3> QED
      BY <2>4, <3>1, <3>2, FadesFollow
  <2>6. \A j \in Ids : Follows(active[j], active[j])
    BY <1>0 DEF Follows
  <2> QED
    BY <2>2, <2>3, <2>5, <2>6, TreatmentDwindles
<1> QED
  BY <1>1, <1>2, <1>3, <1>4, <1>5, <1>6

\* A preloaded instance comes to life.
Revives(i) ==
    /\ cues' = cues /\ nextId' = nextId /\ Ids' = Ids /\ i \in Ids
    /\ active'[i] \in Instance /\ active'[i].q = active[i].q
    /\ active'[i].follow = active[i].follow
    /\ \A j \in Ids \ {i} : active'[j] = active[j]
    /\ cues[active[i].q].retriggerable \/ ~CueIsActive(active[i].q)

\* The calls that start instances.
LEMMA BeginSteps ==
  ASSUME ListPart, AgendaPart, ActivePart, Preload \/ PlaySound \/ PlayVideo
  PROVE  Dwindles \/ \E i, q, ready : Begins(i, q, ready)
<1>0. nextId \in Nat
  BY DEF ActivePart
<1>1. CASE Preload
  <2>1. Begins(nextId, selected, TRUE)
    <3>1. selected \in Qids(cues)
      BY <1>1 DEF Preload
    <3>2. cues[selected].audio \in Nat \ {0}
      <4>1. cues[selected].audio \in Nat
        BY <3>1, CueTypes DEF Cue
      <4> QED
        BY <1>1, <4>1 DEF Preload
    <3> QED
      BY <1>0, <1>1, <3>1, <3>2 DEF Preload, Begins, fixed
  <2> QED
    BY <2>1
<1>2. CASE PlaySound /\ cue.audio > 0
  <2>1. task.q \in Qids(cues) /\ cue \in Cue /\ Playing /\ ~Refused
    BY <1>2, PlayedCue DEF PlaySound, Plays
  <2>2. Begins(nextId, task.q, FALSE)
    <3>1. cues[task.q].audio \in Nat \ {0}
      BY <1>2, <2>1 DEF cue, Cue
    <3>2. cues[task.q].retriggerable \/ ~CueIsActive(task.q)
      BY <2>1 DEF Refused, cue
    <3>3. active' = Started(nextId, task.q, FALSE) /\ nextId' = nextId + 1 /\ cues' = cues
      BY <1>2 DEF PlaySound, fixed
    <3> QED
      BY <1>0, <2>1, <3>1, <3>2, <3>3 DEF Begins
  <2> QED
    BY <2>2
<1>3. CASE PlaySound /\ ~(cue.audio > 0)
  <2>1. active' = active /\ nextId' = nextId /\ cues' = cues
    BY <1>3 DEF PlaySound, fixed
  <2> QED
    BY <1>0, <2>1, StayDwindles
<1>4. CASE PlayVideo
  <2>1. task.q \in Qids(cues) /\ cue \in Cue /\ Playing /\ ~Refused
    BY <1>4, PlayedCue DEF PlayVideo, Plays
  <2>2. CASE ~cue.mtc /\ cue.audio > 0
    <3>1. Begins(nextId + 1, task.q, FALSE)
      <4>1. cues[task.q].audio \in Nat \ {0}
        BY <2>1, <2>2 DEF cue, Cue
      <4>2. cues[task.q].retriggerable \/ ~CueIsActive(task.q)
        BY <2>1 DEF Refused, cue
      <4>3. active' = Started(nextId + 1, task.q, FALSE) /\ nextId' = nextId + 1 + 1 /\ cues' = cues
        BY <1>4, <2>2 DEF PlayVideo, fixed
      <4> QED
        BY <1>0, <2>1, <4>1, <4>2, <4>3 DEF Begins
    <3> QED
      BY <3>1
  <2>3. CASE ~(~cue.mtc /\ cue.audio > 0)
    <3>1. active' = active /\ nextId' = nextId + 1 /\ cues' = cues
      BY <1>4, <2>3 DEF PlayVideo, fixed
    <3> QED
      BY <1>0, <3>1, StayDwindles
  <2> QED
    BY <2>2, <2>3
<1> QED
  BY <1>1, <1>2, <1>3, <1>4

LEMMA ReviveSteps ==
  ASSUME ListPart, AgendaPart, ActivePart, PlayReady
  PROVE  Revives(ReadyInstance(task.q)) /\ active[ReadyInstance(task.q)].q = task.q
         /\ active' = [active EXCEPT
                    ![ReadyInstance(task.q)].act = TRUE,
                    ![ReadyInstance(task.q)].state =
                        IF IsLooped(cue) THEN "PlayingLooped" ELSE "Playing"]
<1> DEFINE S == {i \in Ids : active[i].q = task.q /\ active[i].state = "Ready"}
           i == ReadyInstance(task.q)
<1>1. i = LeastOr(S, 0)
  BY DEF ReadyInstance, First
<1>2. S \subseteq Nat
  <2>1. S \subseteq Ids /\ Ids \subseteq 1 .. nextId - 1 /\ nextId \in Nat
    BY DEF ActivePart
  <2> HIDE DEF S
  <2>2. 1 .. nextId - 1 \subseteq Nat
    BY <2>1
  <2> QED
    BY <2>1, <2>2
<1>3. S # {}
  <2>1. S = {} => LeastOr(S, 0) = 0
    BY DEF LeastOr
  <2>2. i # 0
    BY DEF PlayReady
  <2> QED
    BY <1>1, <2>1, <2>2
<1>4. i \in S
  BY <1>1, <1>2, <1>3, LeastIsElement
<1>5. i \in Ids /\ active[i].q = task.q /\ active[i] \in Instance
  BY <1>4 DEF ActivePart, Sounding
<1>6. active' = [active EXCEPT ![i].act = TRUE,
                               ![i].state = IF IsLooped(cue) THEN "PlayingLooped" ELSE "Playing"]
      /\ cues' = cues /\ nextId' = nextId /\ ~Refused
  BY DEF PlayReady, fixed
<1> HIDE DEF i
<1>7. Ids' = Ids /\ \A j \in Ids \ {i} : active'[j] = active[j]
  BY <1>6 DEF Ids
<1>8. active'[i] = [active[i] EXCEPT !.act = TRUE,
                                     !.state = IF IsLooped(cue) THEN "PlayingLooped" ELSE "Playing"]
  BY <1>5, <1>6 DEF Ids
<1>9. active'[i] \in Instance /\ active'[i].q = active[i].q /\ active'[i].follow = active[i].follow
  BY <1>5, <1>8 DEF Instance
<1>10. cues[active[i].q].retriggerable \/ ~CueIsActive(active[i].q)
  BY <1>5, <1>6 DEF Refused, cue
<1> QED
  BY <1>5, <1>6, <1>7, <1>9, <1>10 DEF Revives, i

\* Every step does one of three things to the instances.
LEMMA InstanceSteps ==
  ASSUME ListPart, AgendaPart, ActivePart, [Next]_vars
  PROVE  Dwindles \/ (\E i, q, ready : Begins(i, q, ready)) \/ \E i : Revives(i)
<1>1. CASE UNCHANGED vars
  BY <1>1, QuietSteps
<1>2. CASE Operator
  BY <1>2, QuietSteps, HandlingSteps, BeginSteps DEF Operator
<1>3. CASE PlayCue
  BY <1>3, QuietSteps, StoppingSteps, BeginSteps, ReviveSteps DEF PlayCue
<1>4. CASE Work /\ ~PlayCue
  BY <1>4, QuietSteps, StoppingSteps, HandlingSteps DEF Work
<1>5. CASE TickAgain \/ TimePasses
  BY <1>5, QuietSteps
<1>6. CASE Environment
  BY <1>6, QuietSteps, HandlingSteps DEF Environment
<1> QED
  BY <1>1, <1>2, <1>3, <1>4, <1>5, <1>6 DEF Next

\* Ids that were given out stay given out.
LEMMA MoreIds ==
  ASSUME NEW m \in Nat, NEW n \in Nat, n >= m
  PROVE  1 .. m - 1 \subseteq 1 .. n - 1 /\ 0 .. m - 1 \subseteq 0 .. n - 1
  OBVIOUS

LEMMA NextActive ==
  ASSUME ListPart, AgendaPart, ActivePart, [Next]_vars
  PROVE  ActivePart' /\ nextId' >= nextId
<1>0. /\ nextId \in Nat \ {0} /\ Ids \subseteq 1 .. nextId - 1
      /\ \A i \in Ids : active[i] \in Instance /\ Sounding(cues, active[i])
  BY DEF ActivePart, Sounding
<1>1. CASE Dwindles
  <2>1. nextId' \in Nat \ {0} /\ Ids' \subseteq 1 .. nextId' - 1 /\ nextId' >= nextId
    <3>1. nextId' \in Nat /\ nextId' >= nextId /\ Ids' \subseteq Ids
      BY <1>1 DEF Dwindles
    <3>2. 1 .. nextId - 1 \subseteq 1 .. nextId' - 1
      BY <1>0, <3>1, MoreIds
    <3>3. Ids' \subseteq 1 .. nextId' - 1
      <4>1. Ids \subseteq 1 .. nextId - 1
        BY <1>0
      <4>2. Ids' \subseteq Ids
        BY <3>1
      <4> QED
        BY <3>2, <4>1, <4>2, Zenon
    <3>4. nextId' \in Nat \ {0}
      BY <1>0, <3>1
    <3> QED
      BY <3>1, <3>3, <3>4
  <2>2. \A i \in Ids' : Sounding(cues', active'[i])
    BY <1>0, <1>1 DEF Dwindles, Sounding, Follows
  <2> QED
    BY <2>1, <2>2 DEF ActivePart
<1>2. CASE \E i, q, ready : Begins(i, q, ready)
  <2>1. PICK i, q, ready : Begins(i, q, ready)
    BY <1>2
  <2>2. Ids' = Ids \cup {i} /\ nextId' \in Nat \ {0} /\ nextId' >= nextId /\ i \in Nat /\ i >= nextId
        /\ nextId' = i + 1
    BY <1>0, <2>1 DEF Begins, Started, Ids
  <2>3. Ids' \subseteq 1 .. nextId' - 1
    BY <1>0, <2>2
  <2>4. \A j \in Ids : j # i
    BY <1>0, <2>2
  <2>5. \A j \in Ids : active'[j] = active[j]
    BY <2>1, <2>4 DEF Begins, Started
  <2>6. active'[i] = InstanceOf(q, ready)
    BY <2>1 DEF Begins, Started
  <2>7. InstanceOf(q, ready) \in Instance /\ InstanceOf(q, ready).q = q
    <3>1. q \in Nat
      <4>1. Len(cues) \in Nat
        BY ShowsAssumption DEF ListPart
      <4> QED
        BY <2>1, <4>1 DEF Begins, Qids
    <3>2. (~ready) \in BOOLEAN
      OBVIOUS
    <3>3. (IF ready THEN "Ready" ELSE IF IsLooped(cues[q]) THEN "PlayingLooped" ELSE "Playing")
             \in {"Ready", "Playing", "PlayingLooped", "Paused", "Done"}
      OBVIOUS
    <3> QED
      BY <3>1, <3>2, <3>3 DEF InstanceOf, Instance, NoStop
  <2>8. \A j \in Ids' : Sounding(cues', active'[j])
    BY <1>0, <2>1, <2>2, <2>5, <2>6, <2>7 DEF Sounding, Begins
  <2> QED
    BY <2>2, <2>3, <2>8 DEF ActivePart
<1>3. CASE \E i : Revives(i)
  BY <1>0, <1>3 DEF Revives, ActivePart, Sounding
<1> QED
  BY <1>1, <1>2, <1>3, InstanceSteps

-----------------------------------------------------------------------------
(* The steps keep the types *)

\* The calls and events that touch each part of the state.
LEMMA Touched ==
  ASSUME [Next]_vars
  PROVE  /\ cues' = cues \/ ChangeProject
         /\ budget' = budget \/ (budget > 0 /\ budget' = budget - 1)
         /\ selected' = selected \/ Select \/ EndGo \/ PlayGoto \/ ChangeProject
         /\ arming' = arming \/ Go \/ EndGo
         /\ now' = now \/ TickAgain \/ TimePasses
         /\ \/ delayed' = delayed \/ PlayDelayed \/ CheckDelayedCues \/ PlayStopTarget
            \/ PlayStopAll \/ Stop \/ ChangeProject
         /\ \/ timecodes' = timecodes \/ Go \/ PlayTimeCode \/ ExpireTimecodes
            \/ PlayStopTarget \/ PlayStopAll \/ Stop \/ ChangeProject
         /\ \/ shows' = shows \/ PlayDmxShow \/ (\E q \in shows : DmxShowEnds(q))
            \/ PlayStopAll \/ Stop \/ ChangeProject
         /\ \/ doneShows' = doneShows \/ (\E q \in shows : DmxShowEnds(q))
            \/ (\E q \in doneShows : ExternalFinished(q)) \/ ChangeProject
         /\ \/ half' = half \/ FinishAudioHalf \/ FinishCue
            \/ (\E s \in streams : VideoEofEnds(s))
            \/ PlayStopTarget \/ PlayStopAll \/ Stop \/ ChangeProject
         /\ \/ picture' = picture \/ PlayVideo \/ PlayImage
            \/ PlayStopTarget \/ PlayStopAll \/ Stop \/ ChangeProject
<1>1. CASE Operator
  BY <1>1 DEF Operator, Go, Fire, Select, Preload, Stop, Pause, Resume, SeekAudio,
     SeekVideo, AdjustShowTime, ChangeProject, Command,
     fixed, media, playing, pictures, dmx, waiting
<1>2. CASE PlayCue
  BY <1>2 DEF PlayCue, PlayRefused, PlayRemote, PlayDelayed, PlayReady, PlaySound,
     PlayVideo, PlayImage, PlayExternal, PlayDmxShow, PlayVolume, PlayGroup,
     PlayTimeCode, PlayGoto, PlayStopAll, PlayStopTarget, StopTarget,
     fixed, media, playing, pictures, dmx, waiting
<1>3. CASE Work /\ ~PlayCue
  BY <1>3 DEF Work, PlayAfterLast, EndGo, CheckFadeOuts, CheckPendingStops, AudioPhase,
     CheckFinishedCues, FinishAudioHalf, FinishCue, CheckVideoLoops, CheckDelayedCues,
     CheckTimecodes, TriggerTimecode, ExpireTimecodes,
     fixed, media, playing, pictures, dmx, waiting
<1>4. CASE TickAgain \/ TimePasses
  BY <1>4 DEF TickAgain, TimePasses, Tick, waiting, dmx
<1>5. CASE Environment
  BY <1>5 DEF Environment, VideoEof, VideoEofIgnored, VideoEofLoops, VideoEofEnds,
     VideoFailed, DmxShowEnds, ExternalFinished, Render,
     fixed, playing, pictures, dmx, waiting
<1>6. CASE UNCHANGED vars
  BY <1>6 DEF vars, fixed, media, playing, pictures, dmx, waiting
<1> QED
  BY <1>1, <1>2, <1>3, <1>4, <1>5, <1>6 DEF Next

\* A Goto leads to a cue of the list.
LEMMA GotoTargetIsQid ==
  ASSUME NEW list \in Seq(Cue), NEW q
  PROVE  GotoTarget(list, q) \in Qids(list) \cup {0}
<1> DEFINE chain == CHOOSE f : f = [n \in Nat |->
                        IF n = 0 THEN q
                        ELSE IF f[n - 1] \in Qids(list) /\ list[f[n - 1]].kind = "Goto"
                        THEN list[f[n - 1]].target
                        ELSE 0]
           Arrivals == {n \in 1 .. Len(list) + 1 :
                           chain[n] \in Qids(list) /\ list[chain[n]].kind # "Goto"}
<1>1. GotoTarget(list, q) = IF Arrivals = {} THEN 0 ELSE chain[LeastOr(Arrivals, 0)]
  BY DEF GotoTarget
<1>2. Arrivals \subseteq Nat
  <2>1. 1 .. Len(list) + 1 \subseteq Nat
    OBVIOUS
  <2> QED
    BY <2>1, ZenonT(40)
<1>3. \A n \in Arrivals : chain[n] \in Qids(list)
  OBVIOUS
<1> HIDE DEF Arrivals, chain
<1> QED
  BY <1>1, <1>2, <1>3, LeastIsElement

\* The playhead moves to a cue of the list.
LEMMA NextStandbyIsQid ==
  ASSUME NEW list \in Seq(Cue), NEW q \in Qids(list)
  PROVE  NextStandby(list, q) \in Qids(list) \cup {0}
<1> DEFINE S == {i \in q + 1 .. Len(list) :
                    ~(IF list[q].kind = "Group" THEN list[i].parent = q
                      ELSE list[i].trigger \in {"WithLast", "AfterLast"})}
<1>1. NextStandby(list, q) = LeastOr(S, 0)
  BY DEF NextStandby
<1>2. S \subseteq Nat /\ S \subseteq Qids(list)
  BY DEF Qids
<1> HIDE DEF S
<1>3. CASE S = {}
  BY <1>1, <1>3 DEF LeastOr
<1> QED
  BY <1>1, <1>2, <1>3, LeastIsElement

\* A cue that follows is one of the list.
LEMMA NextAfterLastIsQid ==
  ASSUME NEW list \in Seq(Cue), NEW q \in Qids(list)
  PROVE  NextAfterLast(list, q) \in Qids(list) \cup {0}
<1> DEFINE S == {i \in q + 1 .. Len(list) :
                    /\ q \in Qids(list)
                    /\ list[i].enabled
                    /\ \A j \in q + 1 .. i : list[j].trigger = "AfterLast"}
<1>1. NextAfterLast(list, q) = LeastOr(S, 0)
  BY DEF NextAfterLast
<1>2. S \subseteq Nat /\ S \subseteq Qids(list)
  BY DEF Qids
<1> HIDE DEF S
<1>3. CASE S = {}
  BY <1>1, <1>3 DEF LeastOr
<1> QED
  BY <1>1, <1>2, <1>3, LeastIsElement

LEMMA NextList ==
  ASSUME ListPart, AgendaPart, [Next]_vars
  PROVE  ListPart'
<1>0. cues \in Seq(Cue) /\ Len(cues) \in Nat
  BY ShowsAssumption DEF ListPart
<1>1. cues' \in Shows
  BY Touched DEF ListPart, ChangeProject
<1>2. budget' \in Nat
  <2>1. budget' = budget \/ (budget > 0 /\ budget' = budget - 1)
    BY Touched
  <2> QED
    BY <2>1 DEF ListPart
<1>3. arming' \in BOOLEAN
  BY Touched DEF Go, EndGo, ListPart
<1>4. now' \in Nat /\ now' >= StartTime
  <2>1. now' = now \/ now' = now + 1
    BY Touched DEF TickAgain, TimePasses, Tick
  <2>2. StartTime \in Nat
    BY BoundsAssumption
  <2> QED
    BY <2>1, <2>2 DEF ListPart
<1>5. selected' \in Qids(cues') \cup {0}
  <2>1. CASE ChangeProject
    BY <2>1 DEF ChangeProject
  <2>2. CASE selected' = selected /\ ~ChangeProject
    BY <2>2, Touched DEF ListPart
  <2>3. CASE Select
    BY <2>3 DEF Select, fixed
  <2>4. CASE PlayGoto
    BY <1>0, <2>4, GotoTargetIsQid DEF PlayGoto, fixed, ListPart
  <2>5. CASE EndGo
    <3>1. task.q \in Qids(cues)
      BY <2>5, TaskTypes DEF EndGo, Doing, task
    <3> QED
      BY <1>0, <2>5, <3>1, NextStandbyIsQid DEF EndGo, ListPart
  <2> QED
    BY <2>1, <2>2, <2>3, <2>4, <2>5, Touched
<1>6. /\ cues' \in Shows /\ budget' \in Nat /\ arming' \in BOOLEAN
      /\ now' \in Nat /\ now' >= StartTime /\ selected' \in Qids(cues') \cup {0}
  BY <1>1, <1>2, <1>3, <1>4, <1>5
<1> QED
  BY <1>6 DEF ListPart
LEMMA NextWait ==
  ASSUME ListPart, AgendaPart, WaitPart, [Next]_vars
  PROVE  WaitPart'
<1>0. delayed \in Seq(Waiting(cues)) /\ timecodes \in Seq(Waiting(cues)) /\ now \in Nat
  BY DEF WaitPart, ListPart
<1>1. CASE ChangeProject \/ PlayStopAll \/ Stop
  <2>1. delayed' = <<>> /\ timecodes' = <<>>
    BY <1>1 DEF ChangeProject, PlayStopAll, Stop, StopAll, FadeAll, ClearAllButAudio
  <2> QED
    BY <2>1 DEF WaitPart
<1>2. CASE ~(ChangeProject \/ PlayStopAll \/ Stop)
  <2>1. cues' = cues
    BY <1>2, Touched
  <2>2. delayed' \in Seq(Waiting(cues))
    <3>1. CASE PlayDelayed
      <4>1. task.q \in Qids(cues) /\ cue \in Cue
        BY <3>1, PlayedCue DEF PlayDelayed
      <4>2. [q |-> task.q, at |-> now + cue.delay] \in Waiting(cues)
        BY <1>0, <4>1 DEF Waiting, Cue
      <4>3. delayed' = Append(delayed, [q |-> task.q, at |-> now + cue.delay])
        BY <3>1 DEF PlayDelayed
      <4> QED
        BY <1>0, <4>2, <4>3
    <3>2. CASE CheckDelayedCues \/ PlayStopTarget
      <4>1. PICK I \in SUBSET DOMAIN delayed : delayed' = Picked(delayed, I)
        BY <3>2 DEF CheckDelayedCues, PlayStopTarget, StopTarget
      <4> QED
        BY <1>0, <4>1, PickedIsSeq
    <3> QED
      BY <1>0, <1>2, <3>1, <3>2, Touched
  <2>3. timecodes' \in Seq(Waiting(cues))
    <3>1. CASE PlayTimeCode
      <4>1. task.q \in Qids(cues) /\ cue \in Cue
        BY <3>1, PlayedCue DEF PlayTimeCode, Plays
      <4>2. [q |-> task.q, at |-> cue.start + cue.duration] \in Waiting(cues)
        BY <4>1 DEF Waiting, Cue
      <4>3. timecodes' = timecodes
            \/ timecodes' = Append(timecodes, [q |-> task.q, at |-> cue.start + cue.duration])
        BY <3>1 DEF PlayTimeCode
      <4> QED
        BY <1>0, <4>2, <4>3
    <3>2. CASE ExpireTimecodes \/ PlayStopTarget
      <4>1. PICK I \in SUBSET DOMAIN timecodes : timecodes' = Picked(timecodes, I)
        BY <3>2 DEF ExpireTimecodes, PlayStopTarget, StopTarget
      <4> QED
        BY <1>0, <4>1, PickedIsSeq
    <3>3. CASE Go
      BY <1>0, <3>3 DEF Go
    <3> QED
      BY <1>0, <1>2, <3>1, <3>2, <3>3, Touched
  <2> QED
    BY <2>1, <2>2, <2>3 DEF WaitPart
<1> QED
  BY <1>1, <1>2

LEMMA NextDmx ==
  ASSUME ListPart, AgendaPart, DmxPart, [Next]_vars
  PROVE  DmxPart'
<1>1. CASE ChangeProject
  <2>1. shows' = {} /\ doneShows' = {}
    BY <1>1 DEF ChangeProject, StopAll, ClearAllButAudio
  <2> QED
    BY <2>1 DEF DmxPart
<1>2. CASE ~ChangeProject
  <2>1. cues' = cues
    BY <1>2, Touched
  <2>2. shows' \subseteq Qids(cues)
    <3>1. CASE PlayDmxShow
      <4>1. task.q \in Qids(cues)
        BY <3>1, PlayedCue DEF PlayDmxShow, Plays
      <4> QED
        BY <3>1, <4>1 DEF PlayDmxShow, DmxPart
    <3>2. CASE \E q \in shows : DmxShowEnds(q)
      BY <3>2 DEF DmxShowEnds, DmxPart
    <3>3. CASE PlayStopAll \/ Stop
      <4>1. shows' = {}
        BY <3>3 DEF PlayStopAll, Stop, StopAll, FadeAll, ClearAllButAudio
      <4> QED
        BY <4>1
    <3> QED
      BY <1>2, <3>1, <3>2, <3>3, Touched DEF DmxPart
  <2>3. doneShows' \subseteq Qids(cues)
    BY <1>2, Touched DEF DmxShowEnds, ExternalFinished, DmxPart
  <2> QED
    BY <2>1, <2>2, <2>3 DEF DmxPart
<1> QED
  BY <1>1, <1>2

\* What can happen to the set of fired TimeCode cues and to its history.
LEMMA CodesTouched ==
  ASSUME ClockInv, [Next]_vars
  PROVE  \/ /\ clock'.triggered = clock.triggered /\ fired' = fired
            /\ clock'.start = clock.start
         \/ /\ clock'.triggered = clock.triggered /\ fired' = NothingFired
            /\ clock.start = None /\ arming /\ clock'.start # None /\ PlayCue
         \/ Go \/ TriggerTimecode
         \/ (PlayStopAll \/ Stop \/ ChangeProject)
<1>0. IsClock(clock) /\ None \notin Nat /\ now \in Nat
  BY DEF ClockInv, ClockPart, None
<1>1. CASE clock' = clock /\ fired' = fired
  BY <1>1
<1>2. CASE ArmShowClock(task.q) /\ PlayCue
  <2>1. CASE UNCHANGED clockVars
    BY <1>1, <2>1 DEF clockVars
  <2>2. CASE ~UNCHANGED clockVars
    <3>1. /\ arming /\ clock.start = None /\ fired' = NothingFired
          /\ clock' = [clock EXCEPT !.start = now, !.offset = 0, !.adjustment = 0,
                                    !.pausedAt = IF paused THEN now ELSE None]
      BY <1>2, <2>2 DEF ArmShowClock
    <3>2. clock'.triggered = clock.triggered /\ clock'.start = now
      BY <1>0, <3>1 DEF IsClock
    <3> QED
      BY <1>0, <1>2, <3>1, <3>2
  <2> QED
    BY <2>1, <2>2
<1>3. CASE Operator
  <2>1. CASE AdjustShowTime \/ Pause \/ Resume
    <3>1. /\ fired' = fired
          /\ \E a, p, o : clock' = [clock EXCEPT !.adjustment = a, !.pausedAt = p, !.offset = o]
      <4>1. fired' = fired
        BY <2>1 DEF AdjustShowTime, Pause, Resume
      <4>2. CASE AdjustShowTime
        <5>1. PICK d : clock' = [clock EXCEPT !.adjustment = @ + d]
          BY <4>2 DEF AdjustShowTime
        <5>2. clock' = [clock EXCEPT !.adjustment = clock.adjustment + d,
                                     !.pausedAt = clock.pausedAt, !.offset = clock.offset]
          BY <1>0, <5>1 DEF IsClock
        <5> QED
          BY <4>1, <5>2
      <4>3. CASE Pause
        <5>1. PICK p : clock' = [clock EXCEPT !.pausedAt = p]
          BY <4>3 DEF Pause
        <5>2. clock' = [clock EXCEPT !.adjustment = clock.adjustment,
                                     !.pausedAt = p, !.offset = clock.offset]
          BY <1>0, <5>1 DEF IsClock
        <5> QED
          BY <4>1, <5>2
      <4>4. CASE Resume
        <5>1. PICK p, o : clock' = [clock EXCEPT !.pausedAt = p, !.offset = o]
          <6>1. CASE clock.pausedAt = None
            <7>1. clock' = [clock EXCEPT !.pausedAt = clock.pausedAt, !.offset = clock.offset]
              BY <1>0, <4>4, <6>1 DEF IsClock, Resume
            <7> QED
              BY <7>1
          <6>2. CASE clock.pausedAt # None
            <7>1. clock' = [clock EXCEPT !.offset = clock.offset + Monus(now, clock.pausedAt),
                                         !.pausedAt = None]
              BY <4>4, <6>2 DEF Resume
            <7>2. clock' = [clock EXCEPT !.pausedAt = None,
                                         !.offset = clock.offset + Monus(now, clock.pausedAt)]
              BY <1>0, <7>1 DEF IsClock
            <7> QED
              BY <7>2
          <6> QED
            BY <6>1, <6>2
        <5>2. clock' = [clock EXCEPT !.adjustment = clock.adjustment,
                                     !.pausedAt = p, !.offset = o]
          BY <1>0, <5>1 DEF IsClock
        <5> QED
          BY <4>1, <5>2
      <4> QED
        BY <2>1, <4>2, <4>3, <4>4
    <3> QED
      BY <1>0, <3>1 DEF IsClock
  <2>2. CASE Fire \/ Select \/ Preload \/ SeekAudio \/ SeekVideo
    BY <2>2 DEF Fire, Select, Preload, SeekAudio, SeekVideo, clockVars
  <2> QED
    BY <1>3, <2>1, <2>2 DEF Operator
<1>4. CASE PlayCue
  BY <1>1, <1>2, <1>4 DEF PlayCue, PlayRefused, PlayRemote, PlayDelayed, PlayReady, PlaySound,
     PlayVideo, PlayImage, PlayExternal, PlayDmxShow, PlayVolume, PlayGroup,
     PlayTimeCode, PlayGoto, PlayStopTarget, Plays, clockVars
<1>5. CASE Work /\ ~PlayCue
  BY <1>1, <1>5 DEF Work, PlayAfterLast, EndGo, CheckFadeOuts, CheckPendingStops, AudioPhase,
     CheckFinishedCues, FinishAudioHalf, FinishCue, CheckVideoLoops, CheckDelayedCues,
     CheckTimecodes, ExpireTimecodes, clockVars
<1>6. CASE TickAgain \/ TimePasses
  BY <1>1, <1>6 DEF TickAgain, TimePasses, Tick
<1>7. CASE Environment
  BY <1>1, <1>7 DEF Environment, VideoEof, VideoEofIgnored, VideoEofLoops, VideoEofEnds,
     VideoFailed, DmxShowEnds, ExternalFinished, Render, clockVars
<1>8. CASE UNCHANGED vars
  BY <1>1, <1>8 DEF vars, clockVars
<1> QED
  BY <1>3, <1>4, <1>5, <1>6, <1>7, <1>8 DEF Next

LEMMA NextCode ==
  ASSUME ClockInv, ListPart, AgendaPart, CodePart, [Next]_vars
  PROVE  CodePart'
<1>0. clock.triggered \subseteq Qids(cues) /\ fired \in [Qids(cues) -> Nat] /\ IsClock(clock)
  BY DEF CodePart, ClockInv, ClockPart
<1>1. CASE PlayStopAll \/ Stop \/ ChangeProject
  <2>1. clock' = StoppedClock /\ fired' = [q \in Qids(cues') |-> 0]
    BY <1>1 DEF PlayStopAll, Stop, ChangeProject, ResetShowClock, NothingFired, fixed
  <2> QED
    BY <2>1 DEF CodePart, StoppedClock
<1>2. CASE ~(PlayStopAll \/ Stop \/ ChangeProject)
  <2>1. cues' = cues
    BY <1>2, Touched
  <2>2. CASE Go
    <3>1. fired' = fired /\ clock'.triggered \subseteq clock.triggered
      BY <1>0, <2>2 DEF Go, IsClock
    <3> QED
      BY <1>0, <2>1, <3>1 DEF CodePart
  <2>3. CASE TriggerTimecode
    <3>1. task.q \in Qids(cues)
      BY <2>3, TaskTypes DEF TriggerTimecode, Doing, task
    <3>2. clock'.triggered = clock.triggered \cup {task.q} /\ fired' = [fired EXCEPT ![task.q] = @ + 1]
      BY <1>0, <2>3 DEF TriggerTimecode, IsClock
    <3>3. fired' \in [Qids(cues) -> Nat]
      BY <1>0, <3>1, <3>2
    <3> QED
      BY <1>0, <2>1, <3>1, <3>2, <3>3 DEF CodePart
  <2>4. NothingFired \in [Qids(cues) -> Nat]
    BY DEF NothingFired
  <2> QED
    BY <1>0, <1>2, <2>1, <2>2, <2>3, <2>4, CodesTouched DEF CodePart
<1> QED
  BY <1>1, <1>2

\* The picture goes on, paused, moved or from its beginning.
GoesOn ==
    /\ video # NoVideo
    /\ video'.q = video.q /\ video'.id = video.id /\ video'.audio = video.audio
    /\ video'.epoch \in {video.epoch, video.epoch + 1}

Goes ==
    /\ video' = NoVideo
    /\ \/ PlayImage \/ PlayStopTarget \/ PlayStopAll \/ Stop \/ ChangeProject
       \/ \E s \in streams : VideoEofEnds(s) \/ VideoFailed(s)

LEMMA VideoTouched ==
  ASSUME ClockInv, ActivePart, PicturePart, [Next]_vars
  PROVE  video' = video \/ Goes \/ PlayVideo \/ GoesOn
<1>0. /\ video = [q |-> video.q, id |-> video.id, epoch |-> video.epoch,
                  audio |-> video.audio, origin |-> video.origin,
                  pausedAt |-> video.pausedAt]
      /\ 0 \notin Ids
  BY DEF ClockInv, VideoPart, IsVideo, ActivePart
<1>1. \A o, p : LET v == [video EXCEPT !.origin = o, !.pausedAt = p]
                IN  v.q = video.q /\ v.id = video.id /\ v.audio = video.audio /\ v.epoch = video.epoch
  BY <1>0
<1>2. \A t : /\ VideoSoughtTo(t).q = video.q /\ VideoSoughtTo(t).id = video.id
             /\ VideoSoughtTo(t).audio = video.audio /\ VideoSoughtTo(t).epoch = video.epoch
  BY <1>0 DEF VideoSoughtTo
<1>3. CASE Operator
  <2>1. CASE Stop \/ ChangeProject
    BY <2>1 DEF Stop, ChangeProject, StopAll, ClearAllButAudio, Goes
  <2>2. CASE Pause
    BY <1>0, <2>2 DEF Pause, GoesOn
  <2>3. CASE Resume
    BY <1>0, <2>3 DEF Resume, GoesOn
  <2>4. CASE SeekVideo
    BY <1>2, <2>4 DEF SeekVideo, GoesOn
  <2>5. CASE SeekAudio
    <3>1. PICK i \in Ids : \E t \in 0 .. cues[active[i].q].audio - 1 :
                video' = IF video.id = i THEN VideoSoughtTo(t) ELSE video
      BY <2>5 DEF SeekAudio
    <3>2. video.id = i => video # NoVideo
      BY <1>0 DEF NoVideo
    <3> QED
      BY <1>2, <3>1, <3>2 DEF GoesOn
  <2>6. CASE ~(Stop \/ ChangeProject \/ Pause \/ Resume \/ SeekVideo \/ SeekAudio)
    BY <1>3, <2>6 DEF Operator, Go, Fire, Select, Preload, AdjustShowTime, media, pictures
  <2> QED
    BY <2>1, <2>2, <2>3, <2>4, <2>5, <2>6
<1>4. CASE PlayCue
  BY <1>4 DEF PlayCue, PlayRefused, PlayRemote, PlayDelayed, PlayReady, PlaySound,
     PlayImage, PlayExternal, PlayDmxShow, PlayVolume, PlayGroup, StopTarget, StopAll,
     FadeAll, ClearAllButAudio, PlayTimeCode, PlayGoto, PlayStopAll, PlayStopTarget,
     media, pictures, Goes
<1>5. CASE Work /\ ~PlayCue
  <2>1. CASE CheckVideoLoops
    <3>1. video' = video \/ (video # NoVideo /\ ShowVideo(video, streams))
      BY <2>1 DEF CheckVideoLoops
    <3> QED
      BY <1>0, <3>1 DEF ShowVideo, GoesOn
  <2>2. CASE ~CheckVideoLoops
    BY <1>5, <2>2 DEF Work, PlayAfterLast, EndGo, CheckFadeOuts, CheckPendingStops,
       AudioPhase, CheckFinishedCues, FinishAudioHalf, FinishCue, CheckDelayedCues,
       CheckTimecodes, TriggerTimecode, ExpireTimecodes, media, pictures
  <2> QED
    BY <2>1, <2>2
<1>6. CASE TickAgain \/ TimePasses
  BY <1>6 DEF TickAgain, TimePasses, Tick
<1>7. CASE Environment
  <2>1. CASE \E s \in streams : VideoEofLoops(s)
    <3>1. \E others : video # NoVideo /\ ShowVideo(video, others)
      BY <2>1 DEF VideoEofLoops, IsCurrent
    <3> QED
      BY <1>0, <3>1 DEF ShowVideo, GoesOn
  <2>2. CASE ~\E s \in streams : VideoEofLoops(s)
    BY <1>7, <2>2 DEF Environment, VideoEof, VideoEofIgnored, VideoEofEnds,
       VideoFailed, DmxShowEnds, ExternalFinished, Render, pictures, Goes
  <2> QED
    BY <2>1, <2>2
<1>8. CASE UNCHANGED vars
  BY <1>8 DEF vars, media, pictures
<1> QED
  BY <1>3, <1>4, <1>5, <1>6, <1>7, <1>8 DEF Next

\* The decoders that have still to report.
LEMMA StreamsTouched ==
  ASSUME [Next]_vars
  PROVE  \/ streams' \subseteq streams \/ PlayVideo
         \/ /\ video # NoVideo
            /\ streams' \subseteq streams \cup {<<video.id, video.epoch + 1>>}
<1>1. CASE Operator
  BY <1>1 DEF Operator, Go, Fire, Select, Preload, Stop, Pause, Resume, SeekAudio,
     SeekVideo, AdjustShowTime, ChangeProject, StopAll, ClearAllButAudio, media, pictures
<1>2. CASE PlayCue
  BY <1>2 DEF PlayCue, PlayRefused, PlayRemote, PlayDelayed, PlayReady, PlaySound,
     PlayImage, PlayExternal, PlayDmxShow, PlayVolume, PlayGroup, StopTarget, StopAll,
     FadeAll, ClearAllButAudio, PlayTimeCode, PlayGoto, PlayStopAll, PlayStopTarget,
     media, pictures
<1>3. CASE Work /\ ~PlayCue
  BY <1>3 DEF Work, PlayAfterLast, EndGo, CheckFadeOuts, CheckPendingStops, AudioPhase,
     CheckFinishedCues, FinishAudioHalf, FinishCue, CheckVideoLoops, CheckDelayedCues,
     CheckTimecodes, TriggerTimecode, ExpireTimecodes, media, pictures, ShowVideo
<1>4. CASE TickAgain \/ TimePasses
  BY <1>4 DEF TickAgain, TimePasses, Tick
<1>5. CASE Environment
  BY <1>5 DEF Environment, VideoEof, VideoEofIgnored, VideoEofLoops, VideoEofEnds,
     VideoFailed, DmxShowEnds, ExternalFinished, Render, pictures, ShowVideo, IsCurrent
<1>6. CASE UNCHANGED vars
  BY <1>6 DEF vars, media, pictures
<1> QED
  BY <1>1, <1>2, <1>3, <1>4, <1>5, <1>6 DEF Next

\* What a video cue puts on the screen.
LEMMA NewPicture ==
  ASSUME ListPart, ActivePart, AgendaPart, PlayVideo
  PROVE  \E id \in {nextId, nextId + 1} :
            /\ nextId' = id + 1 /\ cues' = cues /\ task.q \in Qids(cues)
            /\ video'.q = task.q /\ video'.id = id /\ video'.epoch = 1
            /\ video'.audio = (~cue.mtc /\ cue.audio > 0)
            /\ (id = nextId + 1 <=> video'.audio)
            /\ active' = IF video'.audio THEN Started(id, task.q, FALSE) ELSE active
            /\ streams' = streams \cup {<<id, 1>>}
            /\ log' = [Cut(log) EXCEPT
                    !.finishes = @ \o IF video'.audio THEN <<0, 0>> ELSE <<0>>,
                    !.av = IF video'.audio /\ PictureEndsOnItsOwn(video')
                           THEN @ \cup {id} ELSE @]
            /\ Return
            /\ UNCHANGED <<half, dmx, waiting, paused, now>>
<1> DEFINE hasAudio == ~cue.mtc /\ cue.audio > 0
           id == IF hasAudio THEN nextId + 1 ELSE nextId
           new == [NoVideo EXCEPT !.q = task.q, !.id = id, !.audio = hasAudio]
<1>1. task.q \in Qids(cues)
  BY PlayedCue DEF PlayVideo, Plays
<1>2. nextId \in Nat
  BY DEF ActivePart
<1>3. new.q = task.q /\ new.id = id /\ new.audio = hasAudio /\ new.epoch = 0
  BY DEF NoVideo
<1>4. ShowVideo(new, streams)
  BY DEF PlayVideo
<1>5. video'.q = new.q /\ video'.id = new.id /\ video'.audio = new.audio /\ video'.epoch = new.epoch + 1
  BY <1>4 DEF ShowVideo, NoVideo
<1>6. streams' = streams \cup {<<id, 1>>}
  BY <1>3, <1>4 DEF ShowVideo
<1>7. PictureEndsOnItsOwn(video') = PictureEndsOnItsOwn(new)
  BY <1>3, <1>5 DEF PictureEndsOnItsOwn
<1>8. /\ active' = IF hasAudio THEN Started(id, task.q, FALSE) ELSE active
      /\ nextId' = id + 1 /\ Return /\ UNCHANGED <<half, dmx, waiting, paused, now, cues>>
      /\ log' = [Cut(log) EXCEPT
                    !.finishes = @ \o IF hasAudio THEN <<0, 0>> ELSE <<0>>,
                    !.av = IF hasAudio /\ PictureEndsOnItsOwn(new)
                           THEN @ \cup {id} ELSE @]
  BY DEF PlayVideo, fixed
<1>9. id \in {nextId, nextId + 1} /\ (id = nextId + 1 <=> hasAudio)
  BY <1>2
<1> HIDE DEF new, hasAudio, id
<1>10. hasAudio = (~cue.mtc /\ cue.audio > 0)
  BY DEF hasAudio
<1>11. video'.audio = hasAudio /\ video'.q = task.q /\ video'.id = id /\ video'.epoch = 1
  BY <1>3, <1>5
<1>12. log' = [Cut(log) EXCEPT
                    !.finishes = @ \o IF video'.audio THEN <<0, 0>> ELSE <<0>>,
                    !.av = IF video'.audio /\ PictureEndsOnItsOwn(video')
                           THEN @ \cup {id} ELSE @]
  BY <1>7, <1>8, <1>11, Zenon
<1>13. active' = IF video'.audio THEN Started(id, task.q, FALSE) ELSE active
  BY <1>8, <1>11, Zenon
<1> QED
  BY <1>1, <1>6, <1>8, <1>9, <1>10, <1>11, <1>12, <1>13, Zenon

\* 0 is not an id, but it is in the range of the fields that hold one or none.
LEMMA NoneGivenOut ==
  ASSUME NEW m \in Nat \ {0}
  PROVE  0 \in 0 .. m - 1
  OBVIOUS

LEMMA NextPicture ==
  ASSUME ClockInv, ListPart, ActivePart, AgendaPart, PicturePart, [Next]_vars
  PROVE  PicturePart'
<1>0. /\ nextId \in Nat \ {0} /\ nextId' \in Nat \ {0} /\ nextId' >= nextId
      /\ video.q \in Nat /\ video.id \in 0 .. nextId - 1 /\ video.epoch \in Nat
      /\ video.audio \in BOOLEAN /\ half \in 0 .. nextId - 1
      /\ streams \subseteq (1 .. nextId - 1) \X Nat
  BY NextActive DEF ActivePart, PicturePart
<1>1. 0 .. nextId - 1 \subseteq 0 .. nextId' - 1 /\ 1 .. nextId - 1 \subseteq 1 .. nextId' - 1
  BY <1>0, MoreIds
<1>2. /\ video'.q \in Nat /\ video'.id \in 0 .. nextId' - 1 /\ video'.epoch \in Nat
      /\ video'.audio \in BOOLEAN
      /\ video' # NoVideo => video'.q \in Qids(cues') /\ video'.id # 0
  <2>1. CASE video' = video /\ ~ChangeProject
    BY <1>0, <1>1, <2>1, Touched DEF PicturePart
  <2>2. CASE video' = NoVideo
    <3>1. video'.q = 0 /\ video'.id = 0 /\ video'.epoch = 0 /\ video'.audio = FALSE
      BY <2>2 DEF NoVideo
    <3>2. 0 \in 0 .. nextId' - 1
      BY <1>0, NoneGivenOut
    <3>3. video'.q \in Nat /\ video'.epoch \in Nat /\ video'.audio \in BOOLEAN
      <4>1. 0 \in Nat /\ FALSE \in BOOLEAN
        OBVIOUS
      <4> QED
        BY <3>1, <4>1, Zenon
    <3>4. video'.id \in 0 .. nextId' - 1
      BY <3>1, <3>2
    <3> QED
      BY <2>2, <3>3, <3>4
  <2>3. CASE PlayVideo
    <3>1. PICK id \in {nextId, nextId + 1} :
            /\ nextId' = id + 1 /\ cues' = cues /\ task.q \in Qids(cues)
            /\ video'.q = task.q /\ video'.id = id /\ video'.epoch = 1
            /\ video'.audio = (~cue.mtc /\ cue.audio > 0)
      BY <2>3, NewPicture
    <3>2. Qids(cues) \subseteq Nat
      BY ShowsAssumption DEF ListPart, Qids
    <3>3. id \in 0 .. nextId' - 1 /\ id # 0
      BY <1>0, <3>1
    <3>4. video'.audio \in BOOLEAN
      BY <3>1, Zenon
    <3> QED
      BY <3>1, <3>2, <3>3, <3>4
  <2>4. CASE GoesOn /\ ~ChangeProject
    <3>1. cues' = cues /\ video.q \in Qids(cues) /\ video.id # 0
      BY <2>4, Touched DEF GoesOn, PicturePart
    <3>2. video'.epoch \in Nat
      BY <1>0, <2>4 DEF GoesOn
    <3> QED
      BY <1>0, <1>1, <2>4, <3>1, <3>2 DEF GoesOn
  <2>5. ChangeProject => video' = NoVideo
    BY DEF ChangeProject, StopAll, ClearAllButAudio
  <2> QED
    BY <2>1, <2>2, <2>3, <2>4, <2>5, VideoTouched DEF Goes
<1>3. half' \in 0 .. nextId' - 1
  <2>1. CASE half' = half \/ half' = 0 \/ half' = video.id
    <3>1. half' \in 0 .. nextId - 1
      BY <1>0, <2>1
    <3> QED
      BY <1>1, <3>1
  <2>2. CASE FinishAudioHalf
    <3>1. half' = task.id /\ task.id \in 0 .. nextId - 1
      BY <2>2, TaskTypes DEF FinishAudioHalf, Doing, Calls
    <3> QED
      BY <1>1, <3>1
  <2>3. CASE FinishCue
    BY <2>1, <2>3 DEF FinishCue
  <2>4. CASE \E s \in streams : VideoEofEnds(s)
    BY <2>1, <2>4 DEF VideoEofEnds
  <2>5. CASE PlayStopTarget
    BY <2>1, <2>5 DEF PlayStopTarget, StopTarget
  <2>6. CASE PlayStopAll \/ Stop \/ ChangeProject
    BY <2>1, <2>6 DEF PlayStopAll, Stop, ChangeProject, StopAll, FadeAll, ClearAllButAudio
  <2> QED
    BY <2>1, <2>2, <2>3, <2>4, <2>5, <2>6, Touched
<1>4. picture' \in Qids(cues') \cup {0}
  <2>1. CASE picture' = 0
    BY <2>1
  <2>2. CASE PlayImage
    BY <2>2, PlayedCue DEF PlayImage, Plays, fixed
  <2>3. CASE picture' = picture /\ ~ChangeProject
    BY <2>3, Touched DEF PicturePart
  <2>4. PlayVideo \/ PlayStopAll \/ Stop \/ ChangeProject => picture' = 0
    BY DEF PlayVideo, PlayStopAll, Stop, ChangeProject, StopAll, FadeAll, ClearAllButAudio
  <2>5. PlayStopTarget => picture' = 0 \/ picture' = picture
    BY DEF PlayStopTarget, StopTarget
  <2>6. PlayStopTarget => ~ChangeProject
    BY DEF PlayStopTarget, PlaysStop, Playing, Doing, ChangeProject, Command
  <2> QED
    BY <2>1, <2>2, <2>3, <2>4, <2>5, <2>6, Touched
<1>5. streams' \subseteq (1 .. nextId' - 1) \X Nat
  <2>1. streams \subseteq (1 .. nextId' - 1) \X Nat
    BY <1>0, <1>1
  <2>2. CASE PlayVideo
    <3>1. PICK id \in {nextId, nextId + 1} :
            nextId' = id + 1 /\ streams' = streams \cup {<<id, 1>>}
      BY <2>2, NewPicture
    <3>2. id \in 1 .. nextId' - 1
      BY <1>0, <3>1
    <3> QED
      BY <2>1, <3>1, <3>2
  <2>3. video # NoVideo => <<video.id, video.epoch + 1>> \in (1 .. nextId' - 1) \X Nat
    <3>1. video # NoVideo => video.id \in 1 .. nextId - 1
      BY <1>0 DEF PicturePart
    <3> QED
      BY <1>0, <1>1, <3>1
  <2> QED
    BY <2>1, <2>2, <2>3, StreamsTouched
<1> QED
  BY <1>2, <1>3, <1>4, <1>5 DEF PicturePart

\* The calls that write the history of the instances.
LEMMA LogTouched ==
  ASSUME [Next]_vars
  PROVE  \/ log' = log /\ nextId' = nextId
         \/ log' = [log EXCEPT !.quiet = FALSE] /\ nextId' = nextId /\ (Go \/ Fire)
         \/ PlayVideo \/ PlayImage \/ PlayStopTarget \/ PlayStopAll \/ Stop \/ ChangeProject
         \/ FinishAudioHalf \/ FinishCue
         \/ \E s \in streams : VideoEofEnds(s) \/ VideoFailed(s)
         \/ /\ Preload \/ PlaySound
            /\ nextId' = nextId + 1
            /\ \E quiet \in {log.quiet, FALSE} :
                 log' = [log EXCEPT !.finishes = Append(@, 0), !.quiet = quiet]
<1>1. CASE PlaySound
  <2>1. \/ log' = log /\ nextId' = nextId
        \/ nextId' = nextId + 1 /\ log' = [log EXCEPT !.finishes = Append(@, 0)]
    BY <1>1 DEF PlaySound
  <2>2. [log EXCEPT !.finishes = Append(@, 0)]
          = [log EXCEPT !.finishes = Append(@, 0), !.quiet = log.quiet]
    OBVIOUS
  <2> QED
    BY <1>1, <2>1, <2>2
<1>2. CASE Preload
  BY <1>2 DEF Preload
<1>3. CASE Operator
  BY <1>2, <1>3 DEF Operator, Go, Fire, Select, Pause, Resume, SeekAudio,
     SeekVideo, AdjustShowTime, media, playing
<1>4. CASE PlayCue
  BY <1>1, <1>4 DEF PlayCue, PlayRefused, PlayRemote, PlayDelayed, PlayReady,
     PlayExternal, PlayDmxShow, PlayVolume, PlayGroup, PlayTimeCode, PlayGoto,
     media, playing
<1>5. CASE Work /\ ~PlayCue
  BY <1>5 DEF Work, PlayAfterLast, EndGo, CheckFadeOuts, CheckPendingStops, AudioPhase,
     CheckFinishedCues, CheckVideoLoops, CheckDelayedCues,
     CheckTimecodes, TriggerTimecode, ExpireTimecodes, media, playing
<1>6. CASE TickAgain \/ TimePasses
  BY <1>6 DEF TickAgain, TimePasses, Tick, playing
<1>7. CASE Environment
  BY <1>7 DEF Environment, VideoEof, VideoEofIgnored, VideoEofLoops,
     DmxShowEnds, ExternalFinished, Render, playing
<1>8. CASE UNCHANGED vars
  BY <1>8 DEF vars, media, playing
<1> QED
  BY <1>3, <1>4, <1>5, <1>6, <1>7, <1>8 DEF Next

\* The shape of the history.
LogType ==
    [finishes : Seq(Nat), av : SUBSET Nat, stopped : SUBSET Nat, chained : SUBSET Nat,
     audioEnded : SUBSET Nat, pictureEnded : SUBSET Nat, pictureCut : SUBSET Nat,
     quiet : BOOLEAN]

\* The ways in which the history is written.
LEMMA LogWritten ==
  ASSUME NEW r \in LogType, NEW S \in SUBSET Nat
  PROVE  /\ [r EXCEPT !.pictureCut = S] \in LogType
         /\ [r EXCEPT !.pictureEnded = S] \in LogType
         /\ [r EXCEPT !.audioEnded = S] \in LogType
         /\ [r EXCEPT !.stopped = S] \in LogType
         /\ [r EXCEPT !.chained = S] \in LogType
         /\ \A b \in BOOLEAN : [r EXCEPT !.quiet = b] \in LogType
         /\ \A f \in Seq(Nat) : [r EXCEPT !.finishes = f, !.av = S] \in LogType
         /\ \A f \in Seq(Nat) : [r EXCEPT !.finishes = f] \in LogType
  BY DEF LogType

LEMMA FinishWritten ==
  ASSUME NEW r \in LogType, NEW id \in Nat
  PROVE  /\ Finished(r, id) \in LogType
         /\ Len(Finished(r, id).finishes) = Len(r.finishes)
         /\ Finished(r, id) = [r EXCEPT !.finishes = [r.finishes EXCEPT ![id] = @ + 1]]
<1>1. r.finishes \in Seq(Nat)
  BY DEF LogType
<1>2. [r.finishes EXCEPT ![id] = @ + 1] \in Seq(Nat)
      /\ Len([r.finishes EXCEPT ![id] = @ + 1]) = Len(r.finishes)
  <2> DEFINE f == r.finishes
             g == [f EXCEPT ![id] = @ + 1]
  <2>1. f \in [1 .. Len(f) -> Nat] /\ Len(f) \in Nat
    BY <1>1
  <2> HIDE DEF f
  <2>2. g \in [1 .. Len(f) -> Nat]
    <3>1. DOMAIN g = 1 .. Len(f)
      BY <2>1
    <3>2. \A n \in 1 .. Len(f) : g[n] \in Nat
      BY <2>1
    <3>3. g = [n \in 1 .. Len(f) |-> g[n]]
      BY <2>1
    <3> QED
      BY <3>2, <3>3
  <2> HIDE DEF g
  <2>3. g \in Seq(Nat) /\ Len(g) = Len(f)
    BY <2>1, <2>2
  <2> QED
    BY <2>3 DEF f, g
<1>3. Finished(r, id) = [r EXCEPT !.finishes = [r.finishes EXCEPT ![id] = @ + 1]]
  BY DEF Finished
<1>4. Finished(r, id).finishes = [r.finishes EXCEPT ![id] = @ + 1]
  BY <1>3 DEF LogType
<1> QED
  BY <1>2, <1>3, <1>4, LogWritten

LEMMA NextLog ==
  ASSUME ListPart, ActivePart, AgendaPart, PicturePart, LogPart, [Next]_vars
  PROVE  LogPart'
<1>0. /\ log \in LogType /\ Len(log.finishes) = nextId - 1 /\ nextId \in Nat \ {0}
      /\ video.id \in Nat /\ Ids \subseteq Nat /\ log.finishes \in Seq(Nat)
      /\ log.pictureCut \in SUBSET Nat /\ log.pictureEnded \in SUBSET Nat
      /\ log.audioEnded \in SUBSET Nat /\ log.stopped \in SUBSET Nat
      /\ log.chained \in SUBSET Nat /\ log.av \in SUBSET Nat /\ log.quiet \in BOOLEAN
  <2>1. nextId \in Nat \ {0} /\ Ids \subseteq 1 .. nextId - 1
    BY DEF ActivePart
  <2>2. 1 .. nextId - 1 \subseteq Nat
    BY <2>1
  <2>3. Ids \subseteq Nat
    BY <2>1, <2>2
  <2>4. video.id \in Nat
    BY <2>1 DEF PicturePart
  <2>5. log \in LogType /\ Len(log.finishes) = nextId - 1
    BY DEF LogPart, LogType
  <2> QED
    BY <2>1, <2>3, <2>4, <2>5 DEF LogType
<1> SUFFICES log' \in LogType /\ Len(log'.finishes) = nextId' - 1
  BY DEF LogPart, LogType
<1>1. Cut(log) \in LogType /\ Cut(log).finishes = log.finishes /\ Cut(log).stopped = log.stopped
      /\ Cut(log).av = log.av
  <2>1. Cut(log) = [log EXCEPT !.pictureCut = log.pictureCut \cup ({video.id} \ {0})]
    BY DEF Cut
  <2>2. log.pictureCut \cup ({video.id} \ {0}) \in SUBSET Nat
    BY <1>0
  <2>3. Cut(log) \in LogType
    BY <1>0, <2>1, <2>2, LogWritten, ZenonT(40)
  <2>4. Cut(log).finishes = log.finishes /\ Cut(log).stopped = log.stopped /\ Cut(log).av = log.av
    BY <1>0, <2>1 DEF LogType
  <2> QED
    BY <2>3, <2>4
<1>2. CASE log' = log /\ nextId' = nextId
  BY <1>0, <1>2
<1>3. CASE log' = [log EXCEPT !.quiet = FALSE] /\ nextId' = nextId
  BY <1>0, <1>3 DEF LogType
<1>4. CASE PlayVideo
  <2>1. PICK id \in {nextId, nextId + 1} :
            /\ nextId' = id + 1 /\ (id = nextId + 1 <=> video'.audio)
            /\ log' = [Cut(log) EXCEPT
                    !.finishes = @ \o IF video'.audio THEN <<0, 0>> ELSE <<0>>,
                    !.av = IF video'.audio /\ PictureEndsOnItsOwn(video')
                           THEN @ \cup {id} ELSE @]
    BY <1>4, NewPicture
  <2>2. PICK f \in {log.finishes \o <<0, 0>>, log.finishes \o <<0>>} :
            /\ (f = log.finishes \o <<0, 0>> /\ id = nextId + 1)
               \/ (f = log.finishes \o <<0>> /\ id = nextId)
            /\ \E S \in {log.av, log.av \cup {id}} :
                    log' = [Cut(log) EXCEPT !.finishes = f, !.av = S]
    BY <1>1, <2>1
  <2>3. log.av \in SUBSET Nat /\ log.av \cup {id} \in SUBSET Nat
    BY <1>0
  <2>4. f \in Seq(Nat) /\ Len(f) = nextId' - 1
    <3>1. <<0>> \in Seq(Nat) /\ <<0, 0>> \in Seq(Nat) /\ Len(<<0>>) = 1 /\ Len(<<0, 0>>) = 2
      OBVIOUS
    <3>2. log.finishes \o <<0>> \in Seq(Nat) /\ log.finishes \o <<0, 0>> \in Seq(Nat)
          /\ Len(log.finishes \o <<0>>) = nextId /\ Len(log.finishes \o <<0, 0>>) = nextId + 1
      BY <1>0, <3>1
    <3>3. nextId' - 1 = id
      BY <1>0, <2>1
    <3>4. CASE f = log.finishes \o <<0, 0>> /\ id = nextId + 1
      BY <3>2, <3>3, <3>4
    <3>5. CASE f = log.finishes \o <<0>> /\ id = nextId
      BY <3>2, <3>3, <3>5
    <3> QED
      BY <2>2, <3>4, <3>5
  <2>5. PICK S \in SUBSET Nat : log' = [Cut(log) EXCEPT !.finishes = f, !.av = S]
    BY <2>2, <2>3
  <2>6. log' \in LogType
    BY <1>1, <2>4, <2>5, LogWritten
  <2>7. log'.finishes = f
    BY <1>1, <2>5 DEF LogType
  <2> QED
    BY <2>4, <2>6, <2>7
<1>5. CASE (log' = log \/ log' = Cut(log)) /\ nextId' = nextId
  BY <1>0, <1>1, <1>5
<1>6. CASE /\ nextId' = nextId
           /\ log' = Silenced \/ \E b \in BOOLEAN : log' = [Silenced EXCEPT !.quiet = b]
  <2>1. Silenced = [Cut(log) EXCEPT !.stopped = log.stopped \cup Ids]
    BY <1>1 DEF Silenced
  <2>2. log.stopped \cup Ids \in SUBSET Nat
    BY <1>0
  <2>3. Silenced \in LogType /\ Silenced.finishes = log.finishes
    BY <1>1, <2>1, <2>2, LogWritten DEF LogType
  <2>4. \A b \in BOOLEAN : /\ [Silenced EXCEPT !.quiet = b] \in LogType
                           /\ [Silenced EXCEPT !.quiet = b].finishes = log.finishes
    BY <2>3 DEF LogType
  <2> QED
    BY <1>0, <1>6, <2>3, <2>4
<1>7. CASE FinishAudioHalf \/ FinishCue
  <2>1. task.id \in Nat
    <3>1. task.id \in 0 .. nextId - 1
      BY <1>7, TaskTypes DEF FinishAudioHalf, FinishCue, Doing, Calls
    <3> QED
      BY <1>0, <3>1
  <2>2. CASE FinishAudioHalf
    <3>1. nextId' = nextId /\ log' = [log EXCEPT !.audioEnded = log.audioEnded \cup {task.id}]
      BY <2>2 DEF FinishAudioHalf
    <3>2. log.audioEnded \cup {task.id} \in SUBSET Nat
      BY <1>0, <2>1
    <3>3. log' \in LogType /\ log'.finishes = log.finishes
      BY <1>0, <3>1, <3>2, LogWritten DEF LogType
    <3> QED
      BY <1>0, <3>1, <3>3
  <2>3. CASE FinishCue
    <3> DEFINE r == Finished(log, task.id)
    <3>1. r \in LogType /\ Len(r.finishes) = Len(log.finishes)
      BY <1>0, <2>1, FinishWritten
    <3>2. nextId' = nextId /\ log' = [r EXCEPT !.audioEnded = @ \cup {task.id},
                             !.chained = IF task.follow THEN @ \cup {task.id} ELSE @]
      BY <2>3 DEF FinishCue
    <3> HIDE DEF r
    <3>3. r.audioEnded \cup {task.id} \in SUBSET Nat /\ r.chained \in SUBSET Nat
          /\ r.chained \cup {task.id} \in SUBSET Nat
      BY <2>1, <3>1 DEF LogType
    <3>4. \A A, C \in SUBSET Nat : /\ [r EXCEPT !.audioEnded = A, !.chained = C] \in LogType
                                   /\ [r EXCEPT !.audioEnded = A, !.chained = C].finishes = r.finishes
      BY <3>1 DEF LogType
    <3>5. \E A, C \in SUBSET Nat : log' = [r EXCEPT !.audioEnded = A, !.chained = C]
      BY <3>2, <3>3
    <3>6. log' \in LogType /\ log'.finishes = r.finishes
      <4>1. PICK A \in SUBSET Nat, C \in SUBSET Nat :
                log' = [r EXCEPT !.audioEnded = A, !.chained = C]
        BY <3>5
      <4> QED
        BY <3>4, <4>1
    <3> QED
      BY <1>0, <3>1, <3>2, <3>6
  <2> QED
    BY <1>7, <2>2, <2>3
<1>8. CASE \E s \in streams : VideoEofEnds(s) \/ VideoFailed(s)
  <2> DEFINE r == Finished(log, video.id)
  <2>1. /\ r \in LogType /\ Len(r.finishes) = Len(log.finishes)
    BY <1>0, FinishWritten
  <2>2. PICK s \in streams : VideoEofEnds(s) \/ VideoFailed(s)
    BY <1>8
  <2>3. nextId' = nextId
    BY <2>2 DEF VideoEofEnds, VideoFailed, playing
  <2>4. \/ log' = log
        \/ log' = [log EXCEPT !.pictureEnded = @ \cup {video.id}]
        \/ log' = [r EXCEPT !.pictureEnded = @ \cup {video.id}]
    BY <2>2 DEF VideoEofEnds, VideoFailed
  <2> HIDE DEF r
  <2>5. log.pictureEnded \cup {video.id} \in SUBSET Nat /\ r.pictureEnded \cup {video.id} \in SUBSET Nat
    BY <1>0, <2>1 DEF LogType
  <2>6. \A R \in LogType, S \in SUBSET Nat :
            [R EXCEPT !.pictureEnded = S] \in LogType /\ [R EXCEPT !.pictureEnded = S].finishes = R.finishes
    BY DEF LogType
  <2>7. CASE log' = [r EXCEPT !.pictureEnded = @ \cup {video.id}]
    BY <1>0, <2>1, <2>3, <2>5, <2>6, <2>7
  <2>8. CASE log' = [log EXCEPT !.pictureEnded = @ \cup {video.id}]
    BY <1>0, <2>3, <2>5, <2>6, <2>8
  <2> QED
    BY <1>0, <2>3, <2>4, <2>7, <2>8
<1>9. CASE /\ nextId' = nextId + 1
           /\ \E quiet \in {log.quiet, FALSE} :
                 log' = [log EXCEPT !.finishes = Append(@, 0), !.quiet = quiet]
  <2>1. Append(log.finishes, 0) \in Seq(Nat) /\ Len(Append(log.finishes, 0)) = nextId
    BY <1>0
  <2>2. PICK quiet \in BOOLEAN : log' = [log EXCEPT !.finishes = Append(@, 0), !.quiet = quiet]
    BY <1>0, <1>9
  <2>3. \A f \in Seq(Nat), b \in BOOLEAN : /\ [log EXCEPT !.finishes = f, !.quiet = b] \in LogType
                                           /\ [log EXCEPT !.finishes = f, !.quiet = b].finishes = f
    BY <1>0 DEF LogType
  <2>4. log' \in LogType /\ log'.finishes = Append(log.finishes, 0)
    BY <2>1, <2>2, <2>3
  <2> QED
    BY <1>0, <1>9, <2>1, <2>4
<1>10. PlayImage \/ PlayStopTarget =>
            (log' = log \/ log' = Cut(log)) /\ nextId' = nextId
  BY DEF PlayImage, PlayStopTarget, StopTarget, playing
<1>11. PlayStopAll \/ Stop \/ ChangeProject =>
            /\ nextId' = nextId
            /\ log' = Silenced \/ \E b \in BOOLEAN : log' = [Silenced EXCEPT !.quiet = b]
  BY DEF PlayStopAll, Stop, ChangeProject, StopAll, FadeAll, ClearAllButAudio
<1> QED
  BY <1>2, <1>3, <1>4, <1>5, <1>6, <1>7, <1>8, <1>9, <1>10, <1>11, LogTouched

\* More calls can be made when more ids have been given out.
LEMMA MoreCalls ==
  ASSUME NEW list, NEW m \in Nat, NEW n \in Nat, n >= m
  PROVE  Calls(list, m) \subseteq Calls(list, n)
<1>1. 0 .. m - 1 \subseteq 0 .. n - 1
  BY MoreIds
<1> QED
  BY <1>1 DEF Calls

\* A call of a cue of the list is a call that there may be.
LEMMA TaskIsCall ==
  ASSUME NEW list \in Seq(Cue), NEW n \in Nat \ {0}
  PROVE  /\ \A op \in CallOps \ {"finish"}, q \in Qids(list) : Task(op, q) \in Calls(list, n)
         /\ \A op \in {"fadeOuts", "pendingStops", "finished", "videoLoops", "delayed",
                       "timecodes"} : Task(op, 0) \in Calls(list, n)
         /\ \A t \in Int : [Task("expire", 0) EXCEPT !.at = t] \in Calls(list, n)
         /\ \A q \in Qids(list), id \in 1 .. n - 1, follow \in BOOLEAN :
                [Task("finish", q) EXCEPT !.id = id, !.follow = follow] \in Calls(list, n)
<1>1. Len(list) \in Nat
  OBVIOUS
<1>2. 0 \in 0 .. n - 1 /\ 0 \in 0 .. Len(list) /\ 0 \in Int /\ FALSE \in BOOLEAN
  <2>1. 0 \in 0 .. n - 1
    BY NoneGivenOut
  <2>2. 0 \in 0 .. Len(list)
    <3>1. Len(list) + 1 \in Nat \ {0} /\ Len(list) + 1 - 1 = Len(list)
      BY <1>1
    <3> QED
      BY <3>1, NoneGivenOut
  <2> QED
    BY <2>1, <2>2
<1>3. \A q \in Qids(list) : q \in 0 .. Len(list) /\ q # 0
  BY <1>1 DEF Qids
<1>4. \A op \in CallOps \ {"finish"}, q \in Qids(list) : Task(op, q) \in Calls(list, n)
  BY <1>2, <1>3 DEF Task, Calls, CallOps
<1>5. \A op \in {"fadeOuts", "pendingStops", "finished", "videoLoops", "delayed",
                 "timecodes"} : Task(op, 0) \in Calls(list, n)
  BY <1>2 DEF Task, Calls, CallOps
<1>6. \A t \in Int : [Task("expire", 0) EXCEPT !.at = t] \in Calls(list, n)
  BY <1>2 DEF Task, Calls, CallOps
<1>7. \A q \in Qids(list), id \in 1 .. n - 1, follow \in BOOLEAN :
         [Task("finish", q) EXCEPT !.id = id, !.follow = follow] \in Calls(list, n)
  <2> TAKE q \in Qids(list), id \in 1 .. n - 1, follow \in BOOLEAN
  <2>1. id \in 0 .. n - 1 /\ id # 0
    OBVIOUS
  <2> QED
    BY <1>2, <1>3, <2>1 DEF Task, Calls, CallOps
<1> QED
  BY <1>4, <1>5, <1>6, <1>7

\* The calls of several cues.
LEMMA TasksAreCalls ==
  ASSUME NEW list \in Seq(Cue), NEW n \in Nat \ {0},
         NEW op \in CallOps \ {"finish"}, NEW qids \in Seq(Qids(list))
  PROVE  Tasks(op, qids) \in Seq(Calls(list, n))
<1>1. \A i \in 1 .. Len(qids) : Task(op, qids[i]) \in Calls(list, n)
  <2>1. \A i \in 1 .. Len(qids) : qids[i] \in Qids(list)
    OBVIOUS
  <2>2. \A q \in Qids(list) : Task(op, q) \in Calls(list, n)
    BY TaskIsCall
  <2> QED
    BY <2>1, <2>2
<1>2. Len(qids) \in Nat /\ DOMAIN qids = 1 .. Len(qids)
  OBVIOUS
<1>3. Tasks(op, qids) \in [1 .. Len(qids) -> Calls(list, n)]
  BY <1>1, <1>2 DEF Tasks
<1> QED
  BY <1>2, <1>3

\* A sequence over a set is one over a larger set.
LEMMA WiderSeq ==
  ASSUME NEW S, NEW T, S \subseteq T, NEW s \in Seq(S)
  PROVE  s \in Seq(T)
<1>1. s \in [1 .. Len(s) -> S] /\ Len(s) \in Nat
  OBVIOUS
<1>2. s \in [1 .. Len(s) -> T]
  BY <1>1
<1> QED
  BY <1>1, <1>2

\* A set of Q#s, in order.
LEMMA QidsInOrder ==
  ASSUME NEW list \in Seq(Cue), NEW S \in SUBSET Qids(list)
  PROVE  /\ IsFiniteSet(S) /\ S \subseteq Nat
         /\ InOrder(S) \in Seq(S) /\ InOrder(S) \in Seq(Qids(list))
<1>1. Len(list) \in Nat
  OBVIOUS
<1>2. IsFiniteSet(1 .. Len(list)) /\ 1 .. Len(list) \subseteq Nat
  BY <1>1, FS_Interval
<1>3. IsFiniteSet(S) /\ S \subseteq Nat
  BY <1>2, FS_Subset DEF Qids
<1>4. InOrder(S) \in Seq(S)
  BY <1>3, InOrderLists
<1>5. InOrder(S) \in Seq(Qids(list))
  BY <1>4, WiderSeq
<1> QED
  BY <1>3, <1>4, <1>5

\* The agenda after a call that has been done.
LEMMA ContinueIsSeq ==
  ASSUME ListPart, ActivePart, AgendaPart, ~Idle, nextId' \in Nat, nextId' >= nextId,
         cues' = cues, NEW calls \in Seq(Calls(cues, nextId)), Continue(calls)
  PROVE  AgendaPart'
<1>1. Tail(agenda) \in Seq(Calls(cues, nextId))
  BY TaskTypes
<1>2. agenda' \in Seq(Calls(cues, nextId))
  BY <1>1 DEF Continue
<1>3. Calls(cues, nextId) \subseteq Calls(cues, nextId')
  BY MoreCalls DEF ActivePart
<1>4. agenda' \in Seq(Calls(cues', nextId'))
  BY <1>2, <1>3
<1> QED
  BY <1>4 DEF AgendaPart

\* What stays on the agenda stays right.
LEMMA AgendaKept ==
  ASSUME ListPart, ActivePart, AgendaPart, nextId' \in Nat, nextId' >= nextId,
         (cues' = cues /\ agenda' = agenda) \/ agenda' = <<>>
  PROVE  AgendaPart'
<1>1. Calls(cues, nextId) \subseteq Calls(cues, nextId')
  BY MoreCalls DEF ActivePart
<1>2. CASE cues' = cues /\ agenda' = agenda
  BY <1>1, <1>2 DEF AgendaPart
<1>3. CASE agenda' = <<>>
  BY <1>3 DEF AgendaPart
<1> QED
  BY <1>2, <1>3

\* Calls that only play cues or look for what follows.
Plain(calls) == \A n \in DOMAIN calls : calls[n].op \in {"play", "start", "afterLast"}

\* The calls that finish the cues that have ended.
FinishCalls(calls) ==
    /\ \A n \in DOMAIN calls :
        /\ calls[n].op = "finish" /\ calls[n].id \in Ids
        /\ calls[n].follow = active[calls[n].id].follow
    /\ \A m, n \in DOMAIN calls : calls[m].id = calls[n].id => m = n

\* The calls that trigger the TimeCode cues that are due.
TriggerCalls(calls) ==
    \/ clock.start = None /\ calls = <<>>
    \/ /\ clock.start # None
       /\ calls # <<>> /\ calls[Len(calls)].op = "expire"
       /\ \A n \in 1 .. Len(calls) - 1 :
            calls[n].op = "trigger" /\ calls[n].q \in DueTimecodes \ clock.triggered
       /\ \A m, n \in 1 .. Len(calls) - 1 : calls[m].q = calls[n].q => m = n
       /\ \A q \in DueTimecodes \ clock.triggered :
            \E n \in 1 .. Len(calls) - 1 : calls[n].q = q

\* play_cue and what it calls.
LEMMA PlayAgenda ==
  ASSUME ListPart, ActivePart, AgendaPart, PlayCue, [Next]_vars
  PROVE  /\ ~Idle /\ cues' = cues
         /\ \E calls \in Seq(Calls(cues, nextId)) : Continue(calls) /\ Plain(calls)
<1>0. /\ cues \in Seq(Cue) /\ nextId \in Nat \ {0} /\ nextId' \in Nat /\ nextId' >= nextId
  BY ShowsAssumption, NextActive DEF ListPart, ActivePart
<1>1. Playing
  BY DEF PlayCue, PlayRefused, PlayRemote, PlayDelayed, PlayReady, PlaySound,
     PlayVideo, PlayImage, PlayExternal, PlayDmxShow, PlayVolume, PlayGroup,
     PlayTimeCode, PlayGoto, PlayStopAll, PlayStopTarget, Plays, PlaysStop
<1>2. task.q \in Qids(cues) /\ ~Idle
  BY <1>1, PlayedCue DEF Playing, Doing
<1>3. cues' = cues
  <2>1. ~ChangeProject
    BY <1>2 DEF ChangeProject, Command
  <2> QED
    BY <2>1, Touched
<1>4. CASE Return
  <2>1. <<>> \in Seq(Calls(cues, nextId)) /\ Continue(<<>>) /\ Plain(<<>>)
    BY <1>4 DEF Return, Plain
  <2> QED
    BY <1>2, <1>3, <2>1
<1>5. CASE Continue(<<Task("afterLast", task.q)>>)
  <2>1. Task("afterLast", task.q) \in Calls(cues, nextId)
    BY <1>0, <1>2, TaskIsCall DEF CallOps
  <2>2. <<Task("afterLast", task.q)>> \in Seq(Calls(cues, nextId))
    BY <2>1
  <2>3. Plain(<<Task("afterLast", task.q)>>)
    BY DEF Plain, Task
  <2> QED
    BY <1>2, <1>3, <1>5, <2>2, <2>3
<1>6. CASE PlayGroup
  <2>1. GroupMembers(cues, task.q) \subseteq Qids(cues)
    BY DEF GroupMembers
  <2>2. InOrder(GroupMembers(cues, task.q)) \in Seq(Qids(cues))
    BY <1>0, <2>1, QidsInOrder
  <2>3. Tasks("play", InOrder(GroupMembers(cues, task.q))) \in Seq(Calls(cues, nextId))
    BY <1>0, <2>2, TasksAreCalls DEF CallOps
  <2>4. Plain(Tasks("play", InOrder(GroupMembers(cues, task.q))))
    BY DEF Plain, Tasks, Task
  <2> QED
    BY <1>2, <1>3, <1>6, <2>3, <2>4 DEF PlayGroup
<1> QED
  BY <1>4, <1>5, <1>6 DEF PlayCue, PlayRefused, PlayRemote, PlayDelayed, PlayReady, PlaySound,
     PlayVideo, PlayImage, PlayExternal, PlayDmxShow, PlayVolume,
     PlayTimeCode, PlayGoto, PlayStopAll, PlayStopTarget

\* The rest of a call.
LEMMA WorkAgenda ==
  ASSUME ClockInv, ListPart, ActivePart, WaitPart, AgendaPart, Work, ~PlayCue, [Next]_vars
  PROVE  /\ ~Idle /\ cues' = cues
         /\ \E calls \in Seq(Calls(cues, nextId)) :
                /\ Continue(calls)
                /\ \/ Plain(calls) /\ ~CheckTimecodes
                   \/ CheckFinishedCues /\ FinishCalls(calls)
                   \/ CheckTimecodes /\ TriggerCalls(calls)
<1>0. /\ cues \in Seq(Cue) /\ nextId \in Nat \ {0} /\ nextId' \in Nat /\ nextId' >= nextId
  BY ShowsAssumption, NextActive DEF ListPart, ActivePart
<1>1. ~Idle
  BY DEF Work, Doing, PlayAfterLast, EndGo, CheckFadeOuts, CheckPendingStops, AudioPhase,
     CheckFinishedCues, FinishAudioHalf, FinishCue, CheckVideoLoops, CheckDelayedCues,
     CheckTimecodes, TriggerTimecode, ExpireTimecodes
<1>2. cues' = cues
  <2>1. ~ChangeProject
    BY <1>1 DEF ChangeProject, Command
  <2> QED
    BY <2>1, Touched
<1> DEFINE Made(calls) == \/ Plain(calls) /\ ~CheckTimecodes
                          \/ CheckFinishedCues /\ FinishCalls(calls)
                          \/ CheckTimecodes /\ TriggerCalls(calls)
<1> SUFFICES \E calls \in Seq(Calls(cues, nextId)) : Continue(calls) /\ Made(calls)
  BY <1>1, <1>2
<1>3. \/ EndGo \/ CheckFadeOuts \/ CheckPendingStops \/ FinishAudioHalf \/ CheckVideoLoops
      \/ PlayAfterLast \/ FinishCue \/ CheckDelayedCues \/ ExpireTimecodes \/ TriggerTimecode
      => ~CheckTimecodes
  BY DEF Doing, PlayAfterLast, EndGo, CheckFadeOuts, CheckPendingStops, AudioPhase,
     FinishAudioHalf, FinishCue, CheckVideoLoops, CheckDelayedCues,
     CheckTimecodes, TriggerTimecode, ExpireTimecodes
<1>4. CASE EndGo \/ CheckFadeOuts \/ CheckPendingStops \/ FinishAudioHalf \/ CheckVideoLoops
  <2>1. Continue(<<>>) /\ <<>> \in Seq(Calls(cues, nextId))
    BY <1>4 DEF Return, EndGo, CheckFadeOuts, CheckPendingStops, AudioPhase, FinishAudioHalf,
       CheckVideoLoops
  <2>2. Plain(<<>>)
    BY DEF Plain
  <2> QED
    BY <1>3, <1>4, <2>1, <2>2
<1>5. CASE PlayAfterLast
  <2>1. task.q \in Qids(cues)
    BY <1>1, <1>5, TaskTypes DEF PlayAfterLast, Doing, task
  <2> DEFINE q == NextAfterLast(cues, task.q)
  <2>2. q = 0 \/ q \in Qids(cues)
    BY <1>0, <2>1, NextAfterLastIsQid
  <2>3. Continue(IF q = 0 THEN <<>> ELSE <<Task("play", q)>>)
    BY <1>5 DEF PlayAfterLast
  <2> HIDE DEF q
  <2>4. q # 0 => Task("play", q) \in Calls(cues, nextId)
    BY <1>0, <2>2, TaskIsCall DEF CallOps
  <2>5. (IF q = 0 THEN <<>> ELSE <<Task("play", q)>>) \in Seq(Calls(cues, nextId))
    BY <2>4
  <2>6. Plain(IF q = 0 THEN <<>> ELSE <<Task("play", q)>>)
    BY DEF Plain, Task
  <2> QED
    BY <1>3, <1>5, <2>3, <2>5, <2>6
<1>6. CASE FinishCue
  <2>1. task.q \in Qids(cues)
    BY <1>1, <1>6, TaskTypes DEF FinishCue, Doing, task
  <2>2. Task("afterLast", task.q) \in Calls(cues, nextId)
    BY <1>0, <2>1, TaskIsCall DEF CallOps
  <2>3. (IF task.follow THEN <<Task("afterLast", task.q)>> ELSE <<>>) \in Seq(Calls(cues, nextId))
    BY <2>2
  <2>4. Plain(IF task.follow THEN <<Task("afterLast", task.q)>> ELSE <<>>)
    BY DEF Plain, Task
  <2> QED
    BY <1>3, <1>6, <2>3, <2>4 DEF FinishCue
<1>7. CASE CheckFinishedCues
  <2> DEFINE S == {i \in Ids : Ended(active[i])}
             ended == InOrder(S)
             call(id) == [Task("finish", active[id].q) EXCEPT
                            !.id = id, !.follow = active[id].follow]
  <2>1. S \subseteq Ids /\ Ids \subseteq 1 .. nextId - 1
    BY DEF ActivePart
  <2>2. IsFiniteSet(1 .. nextId - 1) /\ 1 .. nextId - 1 \subseteq Nat
    <3>1. nextId - 1 \in Int /\ 1 \in Int
      BY <1>0
    <3>2. IsFiniteSet(1 .. nextId - 1)
      BY <3>1, FS_Interval
    <3> QED
      BY <1>0, <3>2
  <2>3. Continue([n \in DOMAIN ended |-> call(ended[n])])
    BY <1>7 DEF CheckFinishedCues
  <2>4. \A id \in Ids : call(id) \in Calls(cues, nextId)
    <3> TAKE id \in Ids
    <3>1. id \in 1 .. nextId - 1 /\ active[id].q \in Qids(cues) /\ active[id].follow \in BOOLEAN
      BY <2>1 DEF ActivePart, Sounding, Instance
    <3> QED
      BY <1>0, <3>1, TaskIsCall
  <2>4a. \A id \in Ids : /\ call(id).op = "finish" /\ call(id).id = id
                          /\ call(id).follow = active[id].follow
    BY DEF Task
  <2> HIDE DEF S, call
  <2>5. ended \in Seq(S) /\ \A m, n \in DOMAIN ended : ended[m] = ended[n] => m = n
    BY <2>1, <2>2, FS_Subset, InOrderLists
  <2> HIDE DEF ended
  <2>6. [n \in DOMAIN ended |-> call(ended[n])] \in Seq(Calls(cues, nextId))
    <3>1. DOMAIN ended = 1 .. Len(ended) /\ Len(ended) \in Nat
      BY <2>5
    <3>2. \A n \in 1 .. Len(ended) : call(ended[n]) \in Calls(cues, nextId)
      <4>1. \A n \in 1 .. Len(ended) : ended[n] \in S
        BY <2>5
      <4> QED
        BY <2>1, <2>4, <4>1
    <3>3. [n \in DOMAIN ended |-> call(ended[n])] \in [1 .. Len(ended) -> Calls(cues, nextId)]
      BY <3>1, <3>2
    <3> QED
      BY <3>1, <3>3
  <2>7. FinishCalls([n \in DOMAIN ended |-> call(ended[n])])
    <3>1. \A n \in DOMAIN ended : ended[n] \in Ids
      <4>1. \A n \in DOMAIN ended : ended[n] \in S
        BY <2>5
      <4> QED
        BY <2>1, <4>1
    <3> DEFINE c == [n \in DOMAIN ended |-> call(ended[n])]
    <3>2. /\ DOMAIN c = DOMAIN ended
          /\ \A n \in DOMAIN c : /\ c[n].op = "finish" /\ c[n].id = ended[n]
                                 /\ c[n].follow = active[ended[n]].follow
      BY <2>4a, <3>1
    <3> HIDE DEF c
    <3>3. FinishCalls(c)
      BY <2>5, <3>1, <3>2 DEF FinishCalls
    <3> QED
      BY <3>3 DEF c
  <2> QED
    BY <1>7, <2>3, <2>6, <2>7
<1>8. ASSUME NEW s \in Seq(Waiting(cues)), NEW op \in {"start", "afterLast"},
             NEW I \in SUBSET DOMAIN s
      PROVE  /\ [i \in DOMAIN Picked(s, I) |-> Task(op, Picked(s, I)[i].q)] \in Seq(Calls(cues, nextId))
             /\ Plain([i \in DOMAIN Picked(s, I) |-> Task(op, Picked(s, I)[i].q)])
  <2> DEFINE p == Picked(s, I)
  <2>1. p \in Seq(Waiting(cues))
    BY PickedIsSeq
  <2> HIDE DEF p
  <2>2. DOMAIN p = 1 .. Len(p) /\ Len(p) \in Nat /\ \A i \in 1 .. Len(p) : p[i].q \in Qids(cues)
    <3>1. Len(p) \in Nat /\ \A i \in 1 .. Len(p) : p[i] \in Waiting(cues)
      BY <2>1
    <3>2. \A w \in Waiting(cues) : w.q \in Qids(cues)
      BY DEF Waiting
    <3> QED
      BY <2>1, <3>1, <3>2
  <2>3. \A i \in 1 .. Len(p) : Task(op, p[i].q) \in Calls(cues, nextId)
    BY <1>0, <2>2, TaskIsCall DEF CallOps
  <2>4. [i \in DOMAIN p |-> Task(op, p[i].q)] \in [1 .. Len(p) -> Calls(cues, nextId)]
    BY <2>2, <2>3
  <2>5. [i \in DOMAIN p |-> Task(op, p[i].q)] \in Seq(Calls(cues, nextId))
    BY <2>2, <2>4
  <2>6. Plain([i \in DOMAIN p |-> Task(op, p[i].q)])
    BY DEF Plain, Task
  <2> QED
    BY <2>5, <2>6 DEF p
<1>9. CASE CheckDelayedCues
  <2>1. PICK I \in SUBSET DOMAIN delayed :
            Continue([i \in DOMAIN Picked(delayed, I) |-> Task("start", Picked(delayed, I)[i].q)])
    BY <1>9 DEF CheckDelayedCues
  <2> QED
    BY <1>3, <1>8, <1>9, <2>1 DEF WaitPart
<1>10. CASE ExpireTimecodes
  <2>1. PICK I \in SUBSET DOMAIN timecodes :
            Continue([i \in DOMAIN Picked(timecodes, I) |-> Task("afterLast", Picked(timecodes, I)[i].q)])
    BY <1>10 DEF ExpireTimecodes
  <2> QED
    BY <1>3, <1>8, <1>10, <2>1 DEF WaitPart
<1>11. CASE CheckTimecodes
  <2> DEFINE S == DueTimecodes \ clock.triggered
             last == [Task("expire", 0) EXCEPT !.at = Elapsed]
  <2>1. Continue(IF clock.start = None THEN <<>> ELSE Tasks("trigger", InOrder(S)) \o <<last>>)
    BY <1>11 DEF CheckTimecodes
  <2>2. S \in SUBSET Qids(cues)
    BY DEF DueTimecodes
  <2> HIDE DEF S
  <2>3. Tasks("trigger", InOrder(S)) \in Seq(Calls(cues, nextId))
    BY <1>0, <2>2, QidsInOrder, TasksAreCalls DEF CallOps
  <2>4. clock.start # None => last \in Calls(cues, nextId)
    <3>1. clock.start # None => Elapsed \in Int
      <4>1. clock.start # None => Elapsed = GreaterOf(ran + clock.adjustment, 0)
        BY PartsGiveElapsed DEF ClockShowsTimeRun
      <4>2. ran \in Int /\ clock.adjustment \in Int
        BY DEF ClockInv, ClockPart, IsClock
      <4> QED
        BY <4>1, <4>2 DEF GreaterOf
    <3> QED
      BY <1>0, <3>1, TaskIsCall
  <2>4a. last.op = "expire"
    BY DEF Task
  <2> HIDE DEF last
  <2>5. (IF clock.start = None THEN <<>> ELSE Tasks("trigger", InOrder(S)) \o <<last>>)
            \in Seq(Calls(cues, nextId))
    <3>1. clock.start # None => Tasks("trigger", InOrder(S)) \o <<last>> \in Seq(Calls(cues, nextId))
      BY <2>3, <2>4
    <3> QED
      BY <3>1
  <2>6. TriggerCalls(IF clock.start = None THEN <<>> ELSE Tasks("trigger", InOrder(S)) \o <<last>>)
    <3> SUFFICES ASSUME clock.start # None
                 PROVE  TriggerCalls(Tasks("trigger", InOrder(S)) \o <<last>>)
      BY DEF TriggerCalls
    <3> DEFINE o == InOrder(S)
               r == Tasks("trigger", o)
               c == r \o <<last>>
    <3>1. /\ o \in Seq(S) /\ \A m, n \in DOMAIN o : o[m] = o[n] => m = n
          /\ \A x \in S : \E n \in DOMAIN o : o[n] = x
      BY <1>0, <2>2, QidsInOrder, InOrderLists
    <3> HIDE DEF o
    <3>2. DOMAIN r = DOMAIN o /\ DOMAIN o = 1 .. Len(o) /\ Len(o) \in Nat /\ Len(r) = Len(o)
      <4>1. DOMAIN o = 1 .. Len(o) /\ Len(o) \in Nat
        BY <3>1
      <4> QED
        BY <2>3, <4>1 DEF Tasks, o
    <3>3. \A n \in 1 .. Len(o) : r[n].op = "trigger" /\ r[n].q = o[n]
      BY <3>2 DEF Tasks, Task
    <3>4. r \in Seq(Calls(cues, nextId))
      BY <2>3 DEF o
    <3> HIDE DEF r
    <3>5. /\ c # <<>> /\ Len(c) = Len(o) + 1 /\ c[Len(c)] = last
          /\ \A n \in 1 .. Len(o) : c[n] = r[n]
      <4>1. last \in Calls(cues, nextId)
        BY <2>4
      <4>2. <<last>> \in Seq(Calls(cues, nextId)) /\ Len(<<last>>) = 1 /\ <<last>>[1] = last
        BY <4>1
      <4> HIDE DEF last
      <4> QED
        BY <3>2, <3>4, <4>2
    <3> HIDE DEF c
    <3>6. Len(c) - 1 = Len(o)
      BY <3>2, <3>5
    <3>7. \A n \in 1 .. Len(o) : o[n] \in S
      BY <3>1
    <3>8. TriggerCalls(c)
      BY <2>4a, <3>1, <3>2, <3>3, <3>5, <3>6, <3>7, SMTT(30) DEF TriggerCalls, S
    <3> QED
      BY <3>8 DEF c, r, o
  <2> QED
    BY <1>11, <2>1, <2>5, <2>6
<1>12. CASE TriggerTimecode
  <2>1. task.q \in Qids(cues)
    BY <1>1, <1>12, TaskTypes DEF TriggerTimecode, Doing, task
  <2>2. Task("play", task.q) \in Calls(cues, nextId)
    BY <1>0, <2>1, TaskIsCall DEF CallOps
  <2>3. <<Task("play", task.q)>> \in Seq(Calls(cues, nextId))
    BY <2>2
  <2>4. Plain(<<Task("play", task.q)>>)
    BY DEF Plain, Task
  <2> QED
    BY <1>3, <1>12, <2>3, <2>4 DEF TriggerTimecode
<1> QED
  BY <1>4, <1>5, <1>6, <1>7, <1>9, <1>10, <1>11, <1>12 DEF Work

\* A list of n elements is a sequence.
LEMMA ListIsSeq ==
  ASSUME NEW S, NEW n \in Nat, NEW s \in [1 .. n -> S]
  PROVE  s \in Seq(S)
  OBVIOUS

\* The cues that start with a cue are cues of the list.
LEMMA RunIsSeq ==
  ASSUME NEW list \in Seq(Cue), NEW q \in Qids(list)
  PROVE  WithLastRun(list, q) \in Seq(Qids(list))
<1>1. PICK S \in SUBSET (q .. Len(list)) :
        WithLastRun(list, q) = IF list[q].enabled THEN InOrder(S) ELSE <<>>
  BY DEF WithLastRun
<1>2. S \in SUBSET Qids(list)
  BY DEF Qids
<1>3. InOrder(S) \in Seq(Qids(list))
  BY <1>2, QidsInOrder
<1> QED
  BY <1>1, <1>3

LEMMA NextAgenda ==
  ASSUME ClockInv, ListPart, ActivePart, WaitPart, DmxPart, PicturePart, AgendaPart, [Next]_vars
  PROVE  AgendaPart'
<1>0. /\ cues \in Seq(Cue) /\ nextId \in Nat \ {0} /\ nextId' \in Nat /\ nextId' >= nextId
  BY ShowsAssumption, NextActive DEF ListPart, ActivePart
<1>1. ASSUME cues' = cues, agenda' \in Seq(Calls(cues, nextId)) PROVE AgendaPart'
  <2>1. Calls(cues, nextId) \subseteq Calls(cues, nextId')
    BY <1>0, MoreCalls
  <2>2. agenda' \in Seq(Calls(cues, nextId'))
    BY <1>1, <2>1, WiderSeq
  <2> QED
    BY <1>1, <2>2 DEF AgendaPart
<1>2. CASE Operator
  <2>1. CASE ChangeProject
    <3>1. agenda' = <<>>
      BY <2>1 DEF ChangeProject, Command, Idle
    <3> QED
      BY <1>0, <3>1, AgendaKept
  <2>2. CASE Go /\ agenda' # agenda
    <3>1. /\ selected \in Qids(cues)
          /\ agenda' = Tasks("play", WithLastRun(cues, selected)) \o <<Task("endGo", selected)>>
      BY <2>2 DEF Go
    <3>2. Tasks("play", WithLastRun(cues, selected)) \in Seq(Calls(cues, nextId))
      BY <1>0, <3>1, RunIsSeq, TasksAreCalls DEF CallOps
    <3>3. Task("endGo", selected) \in Calls(cues, nextId)
      BY <1>0, <3>1, TaskIsCall DEF CallOps
    <3>4. agenda' \in Seq(Calls(cues, nextId)) /\ cues' = cues
      BY <2>2, <3>1, <3>2, <3>3 DEF Go
    <3> QED
      BY <1>1, <3>4
  <2>3. CASE Fire
    <3>1. PICK q \in Qids(cues) : agenda' = Tasks("play", WithLastRun(cues, q))
      BY <2>3 DEF Fire
    <3>2. agenda' \in Seq(Calls(cues, nextId)) /\ cues' = cues
      BY <1>0, <2>3, <3>1, RunIsSeq, TasksAreCalls DEF CallOps, Fire, fixed
    <3> QED
      BY <1>1, <3>2
  <2>4. CASE agenda' = agenda /\ ~ChangeProject
    BY <1>0, <2>4, Touched, AgendaKept
  <2> QED
    BY <1>2, <2>1, <2>2, <2>3, <2>4 DEF Operator, Select, Preload, Stop, Pause, Resume,
       SeekAudio, SeekVideo, AdjustShowTime, ChangeProject
<1>3. CASE PlayCue
  BY <1>0, <1>3, PlayAgenda, ContinueIsSeq
<1>4. CASE Work /\ ~PlayCue
  BY <1>0, <1>4, WorkAgenda, ContinueIsSeq
<1>5. CASE TickAgain \/ TimePasses
  <2>1. cues' = cues /\ agenda' = [i \in DOMAIN Phases |-> Task(Phases[i], 0)]
    BY <1>5 DEF TickAgain, TimePasses, Tick
  <2>2. DOMAIN Phases = 1 .. 6 /\ \A i \in 1 .. 6 : Phases[i] \in
            {"fadeOuts", "pendingStops", "finished", "videoLoops", "delayed", "timecodes"}
    BY DEF Phases
  <2>3. \A i \in 1 .. 6 : Task(Phases[i], 0) \in Calls(cues, nextId)
    BY <1>0, <2>2, TaskIsCall
  <2>4. agenda' \in [1 .. 6 -> Calls(cues, nextId)]
    BY <2>1, <2>2, <2>3
  <2>5. agenda' \in Seq(Calls(cues, nextId))
    BY <2>4, ListIsSeq
  <2> QED
    BY <1>1, <2>1, <2>5
<1>6. CASE Environment
  <2>0. cues' = cues
    BY <1>6 DEF Environment, VideoEof, VideoEofIgnored, VideoEofLoops, VideoEofEnds,
       VideoFailed, DmxShowEnds, ExternalFinished, Render, fixed
  <2>1. ASSUME NEW q \in Qids(cues), agenda' = <<Task("afterLast", q)>> PROVE AgendaPart'
    <3>1. Task("afterLast", q) \in Calls(cues, nextId)
      BY <1>0, TaskIsCall DEF CallOps
    <3>2. agenda' \in Seq(Calls(cues, nextId))
      BY <2>1, <3>1
    <3> QED
      BY <1>1, <2>0, <3>2
  <2>2. CASE \E s \in streams : VideoEofEnds(s)
    <3>1. agenda' = <<Task("afterLast", video.q)>> \/ agenda' = <<>>
      BY <2>2 DEF VideoEofEnds
    <3>2. video.q \in Qids(cues)
      BY <2>2 DEF VideoEofEnds, IsCurrent, PicturePart
    <3> QED
      BY <1>0, <2>1, <3>1, <3>2, AgendaKept
  <2>3. CASE \E q \in doneShows : ExternalFinished(q)
    BY <2>1, <2>3 DEF ExternalFinished, DmxPart
  <2>4. CASE agenda' = agenda
    BY <1>0, <2>0, <2>4, AgendaKept
  <2> QED
    BY <1>6, <2>2, <2>3, <2>4 DEF Environment, VideoEof, VideoEofIgnored, VideoEofLoops,
       VideoFailed, DmxShowEnds, Render
<1>7. CASE UNCHANGED vars
  BY <1>0, <1>7, AgendaKept DEF vars, fixed
<1> QED
  BY <1>2, <1>3, <1>4, <1>5, <1>6, <1>7 DEF Next

LEMMA NextTypes == TypeInv /\ [Next]_vars => TypeInv'
  BY NextClock, NextList, NextActive, NextWait, NextCode, NextPicture, NextDmx, NextLog,
     NextAgenda DEF TypeInv

\* What TypeCorrect needs holds throughout.
THEOREM TypeInvariance == Spec => []TypeInv
  BY InitTypes, NextTypes, PTL DEF Spec

\* Whatever the cue lists and the bounds, every field of the engine holds what
\* it is declared to hold: a Q# of the open project, an id that was given out,
\* a call that names a cue.
THEOREM TypeCorrect == Spec => []TypeOK
  BY TypeInvariance, TypeInvGivesTypeOK, PTL

-----------------------------------------------------------------------------
(* One live instance of a cue *)

\* No step but play_cue for a video cue shows another picture.
LEMMA SamePicture ==
  ASSUME ClockInv, ActivePart, PicturePart, [Next]_vars, ~PlayVideo
  PROVE  video'.q = 0 \/ (video'.q = video.q /\ video'.id = video.id)
  BY VideoTouched DEF Goes, GoesOn, NoVideo

\* An instance that plays has no rival that does.
LEMMA Rivals ==
  ASSUME NEW q, ~CueIsActive(q)
  PROVE  video.q # q /\ \A i \in Ids : active[i].q = q => ~Live(active[i])
  BY DEF CueIsActive

LEMMA NextOneLive ==
  ASSUME TypeInv, OneLiveInstance, [Next]_vars
  PROVE  OneLiveInstance'
<1>0. /\ ClockInv /\ ListPart /\ ActivePart /\ PicturePart /\ AgendaPart
      /\ \A i \in Ids : active[i].q \in Qids(cues) /\ active[i].q # 0
  BY DEF TypeInv, ActivePart, Sounding, Qids
<1>1. CASE PlayVideo
  <2>1. PICK id \in {nextId, nextId + 1} :
            /\ cues' = cues /\ task.q \in Qids(cues)
            /\ video'.q = task.q /\ video'.id = id
            /\ active' = IF video'.audio THEN Started(id, task.q, FALSE) ELSE active
    BY <1>0, <1>1, NewPicture
  <2>2. id \notin Ids
    BY <1>0 DEF ActivePart
  <2>3. cues[task.q].retriggerable \/ ~CueIsActive(task.q)
    BY <1>1 DEF PlayVideo, Plays, Refused, cue
  <2>4. \A i \in Ids' : \/ i \in Ids /\ active'[i] = active[i]
                        \/ i = id /\ active'[i].q = task.q
    BY <2>1, <2>2 DEF Started, Ids, InstanceOf
  <2>5. \A i \in Ids : active[i].q = task.q /\ ~cues[task.q].retriggerable => ~Live(active[i])
    BY <2>3, Rivals
  <2>6. ASSUME NEW i \in Ids', NEW j \in Ids', active'[i].q = active'[j].q,
               ~cues[active'[i].q].retriggerable, Live(active'[i]), Live(active'[j])
        PROVE  i = j /\ (video'.q = active'[i].q => video'.id = i)
    <3>1. CASE active'[i].q = task.q
      <4>1. i = id /\ j = id
        BY <2>4, <2>5, <2>6, <3>1
      <4> QED
        BY <2>1, <4>1
    <3>2. CASE active'[i].q # task.q
      <4>1. i \in Ids /\ j \in Ids /\ active'[i] = active[i] /\ active'[j] = active[j]
        BY <2>4, <2>6, <3>2
      <4> QED
        BY <2>1, <2>6, <3>2, <4>1 DEF OneLiveInstance
    <3> QED
      BY <3>1, <3>2
  <2> QED
    BY <2>1, <2>6 DEF OneLiveInstance
<1>2. CASE ~PlayVideo
  <2>0. video'.q = 0 \/ (video'.q = video.q /\ video'.id = video.id)
    BY <1>0, <1>2, SamePicture
  <2>1. CASE Dwindles
    <3>1. CASE Ids' = {}
      BY <3>1 DEF OneLiveInstance
    <3>2. CASE cues' = cues
      <4>1. \A i \in Ids' : /\ i \in Ids /\ active'[i].q = active[i].q
                            /\ Live(active'[i]) => Live(active[i])
        BY <2>1 DEF Dwindles, Follows
      <4> QED
        BY <1>0, <2>0, <3>2, <4>1 DEF OneLiveInstance
    <3> QED
      BY <2>1, <3>1, <3>2 DEF Dwindles
  <2>2. CASE \E i, q, ready : Begins(i, q, ready)
    <3>1. PICK i, q, ready : Begins(i, q, ready)
      BY <2>2
    <3>2. cues' = cues /\ i \notin Ids /\ q \in Qids(cues) /\ q # 0
      BY <1>0, <3>1 DEF Begins, ActivePart, Qids
    <3>3. \A j \in Ids' : \/ j \in Ids /\ active'[j] = active[j]
                          \/ j = i /\ active'[j] = InstanceOf(q, ready)
      BY <3>1, <3>2 DEF Begins, Started, Ids
    <3>4. InstanceOf(q, ready).q = q /\ (ready => ~Live(InstanceOf(q, ready)))
      BY DEF InstanceOf, Live
    <3>5. ready \/ cues[q].retriggerable \/ ~CueIsActive(q)
      BY <3>1 DEF Begins
    <3>6. ~ready /\ ~cues[q].retriggerable =>
            video.q # q /\ \A j \in Ids : active[j].q = q => ~Live(active[j])
      BY <3>5, Rivals
    <3> QED
      BY <1>0, <2>0, <3>2, <3>3, <3>4, <3>6 DEF OneLiveInstance
  <2>3. CASE \E i : Revives(i)
    <3>1. PICK i : Revives(i)
      BY <2>3
    <3>2. ~cues[active[i].q].retriggerable =>
            video.q # active[i].q
            /\ \A j \in Ids : active[j].q = active[i].q => ~Live(active[j])
      BY <3>1, Rivals DEF Revives
    <3>3. /\ cues' = cues /\ Ids' = Ids /\ i \in Ids /\ active'[i].q = active[i].q
          /\ \A j \in Ids : j # i => active'[j] = active[j]
      BY <3>1 DEF Revives
    <3> QED
      BY <1>0, <2>0, <3>2, <3>3 DEF OneLiveInstance
  <2> QED
    BY <1>0, <2>1, <2>2, <2>3, InstanceSteps
<1> QED
  BY <1>1, <1>2

\* However a cue that is not retriggerable is triggered, and whatever is
\* stopped, preloaded or paused in between, it sounds once at a time, and its
\* picture belongs to the instance that sounds.
THEOREM OneLiveCorrect == Spec => []OneLiveInstance
<1>1. Init => OneLiveInstance
  BY DEF Init, OneLiveInstance, Ids, NoInstances
<1>2. TypeInv /\ OneLiveInstance /\ [Next]_vars => OneLiveInstance'
  BY NextOneLive
<1> QED
  BY <1>1, <1>2, TypeInvariance, PTL DEF Spec

-----------------------------------------------------------------------------
(* The calls in progress *)

\* Where the tasks of a continued call come from.
LEMMA ContinueParts ==
  ASSUME NEW T, agenda \in Seq(T), ~Idle, NEW calls \in Seq(T), Continue(calls)
  PROVE  /\ agenda' \in Seq(T)
         /\ Len(agenda) \in Nat \ {0} /\ Len(calls) \in Nat
         /\ DOMAIN agenda = 1 .. Len(agenda) /\ DOMAIN agenda' = 1 .. Len(agenda')
         /\ DOMAIN calls = 1 .. Len(calls)
         /\ Len(agenda') = Len(calls) + Len(agenda) - 1
         /\ task = agenda[1]
         /\ \A n \in 1 .. Len(agenda') :
                \/ n \in 1 .. Len(calls) /\ agenda'[n] = calls[n]
                \/ /\ n > Len(calls)
                   /\ n - Len(calls) + 1 \in 2 .. Len(agenda)
                   /\ agenda'[n] = agenda[n - Len(calls) + 1]
<1>1. agenda # <<>> /\ Len(agenda) \in Nat /\ Len(calls) \in Nat
  BY DEF Idle
<1>2. Len(agenda) # 0
  BY <1>1
<1> DEFINE t == Tail(agenda)
<1>3. t \in Seq(T) /\ Len(t) = Len(agenda) - 1 /\ \A n \in 1 .. Len(t) : t[n] = agenda[n + 1]
  BY <1>1, HeadTailProperties
<1>4. agenda' = calls \o t
  BY DEF Continue
<1> HIDE DEF t
<1>5. /\ agenda' \in Seq(T) /\ Len(agenda') = Len(calls) + Len(t)
      /\ \A n \in 1 .. Len(calls) + Len(t) :
            agenda'[n] = IF n <= Len(calls) THEN calls[n] ELSE t[n - Len(calls)]
  BY <1>3, <1>4, ConcatProperties
<1>6. ASSUME NEW n \in 1 .. Len(agenda')
      PROVE  \/ n \in 1 .. Len(calls) /\ agenda'[n] = calls[n]
             \/ /\ n > Len(calls)
                /\ n - Len(calls) + 1 \in 2 .. Len(agenda)
                /\ agenda'[n] = agenda[n - Len(calls) + 1]
  <2>1. CASE n <= Len(calls)
    BY <1>1, <1>2, <1>3, <1>5, <2>1
  <2>2. CASE n > Len(calls)
    <3>0. n \in 1 .. Len(calls) + Len(t) /\ n \in Int /\ ~(n <= Len(calls)) /\ Len(t) \in Nat
      BY <1>1, <1>3, <1>5, <2>2
    <3>1. n - Len(calls) \in 1 .. Len(t)
      BY <1>1, <2>2, <3>0
    <3>2. agenda'[n] = t[n - Len(calls)]
      BY <1>5, <3>0
    <3> DEFINE k == n - Len(calls)
    <3>3. k \in 1 .. Len(t) /\ agenda'[n] = t[k]
      BY <3>1, <3>2
    <3>4. n - Len(calls) + 1 = k + 1
      OBVIOUS
    <3> HIDE DEF k
    <3>5. agenda'[n] = agenda[k + 1] /\ k + 1 \in 2 .. Len(agenda)
      BY <1>1, <1>3, <3>3
    <3> QED
      BY <2>2, <3>4, <3>5
  <2> QED
    BY <1>1, <2>1, <2>2
<1>8. task = agenda[1]
  BY <1>1 DEF task
<1>9. Len(agenda) \in Nat \ {0} /\ Len(agenda') = Len(calls) + Len(agenda) - 1
  BY <1>1, <1>2, <1>3, <1>5
<1>10. DOMAIN agenda = 1 .. Len(agenda) /\ DOMAIN agenda' = 1 .. Len(agenda') /\ DOMAIN calls = 1 .. Len(calls)
  BY <1>5
<1> QED
  BY <1>1, <1>5, <1>6, <1>8, <1>9, <1>10

\* What a call, a command or an event makes of the agenda.
LEMMA AgendaTouched ==
  ASSUME TypeInv, [Next]_vars
  PROVE  \/ agenda' = agenda /\ arming' = arming
         \/ Idle /\ (Go \/ TickAgain \/ TimePasses)
         \/ Idle /\ Plain(agenda') /\ arming' = arming
         \/ /\ ~Idle /\ cues' = cues
            /\ \E calls \in Seq(Calls(cues, nextId)) :
                /\ Continue(calls)
                /\ \/ Plain(calls)
                   \/ CheckFinishedCues /\ FinishCalls(calls)
                   \/ CheckTimecodes /\ TriggerCalls(calls)
<1>0. /\ ClockInv /\ ListPart /\ ActivePart /\ WaitPart /\ AgendaPart
  BY DEF TypeInv
<1>1. CASE Operator /\ ~Go
  <2>1. CASE Fire
    <3>1. PICK qids : agenda' = Tasks("play", qids)
      BY <2>1 DEF Fire
    <3>2. Plain(agenda')
      BY <3>1 DEF Plain, Tasks, Task
    <3> QED
      BY <2>1, <3>2 DEF Fire, Command, fixed
  <2> QED
    BY <1>1, <2>1 DEF Operator, Select, Preload, Stop, Pause, Resume,
       SeekAudio, SeekVideo, AdjustShowTime, ChangeProject, fixed
<1>2. CASE Go
  BY <1>2 DEF Go, Command
<1>3. CASE TickAgain \/ TimePasses
  BY <1>3 DEF TickAgain, TimePasses, Tick
<1>4. CASE Work
  BY <1>0, <1>4, PlayAgenda, WorkAgenda
<1>5. CASE Environment
  <2>1. /\ \A q : Plain(<<Task("afterLast", q)>>)
        /\ Plain(<<>>)
    BY DEF Plain, Task
  <2> QED
    BY <1>5, <2>1 DEF Environment, VideoEof, VideoEofIgnored, VideoEofLoops, VideoEofEnds,
       VideoFailed, DmxShowEnds, ExternalFinished, Render, Reports, fixed
<1>6. CASE UNCHANGED vars
  BY <1>6 DEF vars, fixed
<1> QED
  BY <1>1, <1>2, <1>3, <1>4, <1>5, <1>6 DEF Next

\* The agenda's shape: the timecode phase is the last of a tick, a GO plays
\* and follows until it ends, and the finished cues and the triggered ones are
\* listed once each.
ShapeInv ==
    /\ \A n \in DOMAIN agenda :
        agenda[n].op \in {"timecodes", "expire"} => n = Len(agenda)
    /\ arming =>
        /\ agenda # <<>> /\ agenda[Len(agenda)].op = "endGo"
        /\ \A n \in DOMAIN agenda : agenda[n].op \in {"play", "start", "afterLast", "endGo"}
    /\ \A m, n \in DOMAIN agenda :
        agenda[m].op = "finished" /\ agenda[n].op \in {"finished", "finish"} => m = n
    /\ \A m, n \in DOMAIN agenda :
        agenda[m].op = "finish" /\ agenda[n].op = "finish" /\ agenda[m].id = agenda[n].id => m = n
    /\ \A m, n \in DOMAIN agenda :
        agenda[m].op = "trigger" /\ agenda[n].op = "trigger" /\ agenda[m].q = agenda[n].q => m = n

\* During a GO only its own tasks run.
LEMMA ArmingSteps ==
  ASSUME TypeInv, ShapeInv, [Next]_vars, arming
  PROVE  \/ agenda' = agenda /\ arming' = arming
         \/ ~Idle /\ \/ EndGo
                     \/ /\ Len(agenda) > 1 /\ arming' = arming
                        /\ \E calls \in Seq(Calls(cues, nextId)) : Continue(calls) /\ Plain(calls)
<1>1. /\ ~Idle /\ agenda \in Seq(Calls(cues, nextId)) /\ agenda[Len(agenda)].op = "endGo"
      /\ \A n \in DOMAIN agenda : agenda[n].op \in {"play", "start", "afterLast", "endGo"}
  BY DEF ShapeInv, Idle, TypeInv, AgendaPart
<1>2. task = agenda[1] /\ Len(agenda) \in Nat \ {0} /\ DOMAIN agenda = 1 .. Len(agenda)
  <2>1. <<>> \in Seq(Calls(cues, nextId)) /\ agenda # <<>>
    BY <1>1 DEF Idle
  <2>2. Len(agenda) \in Nat /\ Len(agenda) # 0
    BY <1>1, <2>1
  <2> QED
    BY <1>1, <2>2 DEF task
<1>3. ~Go /\ ~EndGo => arming' = arming
  BY Touched
<1>4. ~Go
  BY <1>1 DEF Go, Command
<1>5. CheckFinishedCues \/ CheckTimecodes => FALSE
  <2>1. task.op \in {"play", "start", "afterLast", "endGo"}
    BY <1>1, <1>2
  <2> QED
    BY <2>1 DEF CheckFinishedCues, CheckTimecodes, Doing, task
<1>6. CASE Len(agenda) = 1
  <2>1. task.op = "endGo"
    BY <1>1, <1>2, <1>6
  <2>2. Work => EndGo
    BY <2>1 DEF Work, PlayCue, PlayRefused, PlayRemote, PlayDelayed, PlayReady, PlaySound,
     PlayVideo, PlayImage, PlayExternal, PlayDmxShow, PlayVolume, PlayGroup,
     PlayTimeCode, PlayGoto, PlayStopAll, PlayStopTarget, Plays, PlaysStop, Playing,
     PlayAfterLast, CheckFadeOuts, CheckPendingStops, AudioPhase,
     CheckFinishedCues, FinishAudioHalf, FinishCue, CheckVideoLoops, CheckDelayedCues,
     CheckTimecodes, TriggerTimecode, ExpireTimecodes, Doing, task
  <2>3. ~Work => agenda' = agenda /\ arming' = arming
    <3>1. CASE Operator
      BY <1>1, <3>1 DEF Operator, Go, Fire, Select, Preload, Stop, Pause, Resume, SeekAudio,
         SeekVideo, AdjustShowTime, ChangeProject, Command, fixed
    <3>2. CASE TickAgain \/ TimePasses
      BY <1>1, <3>2 DEF TickAgain, TimePasses, Tick
    <3>3. CASE Environment
      BY <1>1, <3>3 DEF Environment, VideoEof, VideoEofIgnored, VideoEofLoops, VideoEofEnds,
         VideoFailed, DmxShowEnds, ExternalFinished, Render, Reports, fixed
    <3>4. CASE UNCHANGED vars
      BY <3>4 DEF vars, fixed
    <3> QED
      BY <3>1, <3>2, <3>3, <3>4 DEF Next
  <2> QED
    BY <1>1, <2>2, <2>3
<1>7. CASE Len(agenda) > 1
  <2>1. \/ agenda' = agenda /\ arming' = arming
        \/ \E calls \in Seq(Calls(cues, nextId)) : Continue(calls) /\ Plain(calls)
    BY <1>1, <1>5, AgendaTouched
  <2> QED
    BY <1>1, <1>3, <1>4, <1>7, <2>1
<1>8. Len(agenda) = 1 \/ Len(agenda) > 1
  BY <1>2
<1> QED
  BY <1>6, <1>7, <1>8
LEMMA NextShape ==
  ASSUME TypeInv, ShapeInv, [Next]_vars
  PROVE  ShapeInv'
<1>0. /\ ListPart /\ AgendaPart /\ ActivePart /\ agenda \in Seq(Calls(cues, nextId))
      /\ cues \in Seq(Cue) /\ nextId \in Nat \ {0} /\ arming \in BOOLEAN
  BY ShowsAssumption DEF TypeInv, AgendaPart, ListPart, ActivePart
<1>1. CASE agenda' = agenda /\ arming' = arming
  BY <1>1 DEF ShapeInv
<1>2. Idle => ~arming
  BY DEF ShapeInv, Idle
<1>3. CASE Idle /\ Go
  <2>1. CASE selected \notin Qids(cues)
    BY <1>1, <1>3, <2>1 DEF Go
  <2>2. CASE selected \in Qids(cues)
    <3> DEFINE T == Calls(cues, nextId)
               r == Tasks("play", WithLastRun(cues, selected))
               e == Task("endGo", selected)
    <3>1. agenda' = r \o <<e>>
      BY <1>3, <2>2 DEF Go
    <3>2. r \in Seq(T) /\ e \in T
      BY <1>0, <2>2, RunIsSeq, TasksAreCalls, TaskIsCall DEF CallOps
    <3>3. e.op = "endGo" /\ \A n \in DOMAIN r : r[n].op = "play"
      BY DEF Task, Tasks
    <3> HIDE DEF r, e, T
    <3>4. <<e>> \in Seq(T) /\ Len(<<e>>) = 1 /\ <<e>>[1] = e
      BY <3>2
    <3>5. /\ Len(agenda') = Len(r) + 1 /\ Len(r) \in Nat /\ DOMAIN r = 1 .. Len(r)
          /\ DOMAIN agenda' = 1 .. Len(agenda')
          /\ \A n \in 1 .. Len(r) + 1 :
                agenda'[n] = IF n <= Len(r) THEN r[n] ELSE <<e>>[n - Len(r)]
      BY <3>1, <3>2, <3>4, ConcatProperties
    <3>6. agenda'[Len(agenda')] = e
      BY <3>4, <3>5
    <3>7. \A n \in DOMAIN agenda' : agenda'[n].op \in {"play", "endGo"}
      BY <3>3, <3>4, <3>5, <3>6
    <3>8. agenda' # <<>>
      BY <3>5
    <3> QED
      BY <3>3, <3>6, <3>7, <3>8 DEF ShapeInv
  <2> QED
    BY <2>1, <2>2
<1>4. CASE Idle /\ (TickAgain \/ TimePasses)
  <2>1. arming' = FALSE /\ agenda' = [i \in DOMAIN Phases |-> Task(Phases[i], 0)]
    BY <1>0, <1>2, <1>4 DEF TickAgain, TimePasses, Tick
  <2>2. /\ DOMAIN Phases = 1 .. 6 /\ Phases[1] = "fadeOuts" /\ Phases[2] = "pendingStops"
        /\ Phases[3] = "finished" /\ Phases[4] = "videoLoops" /\ Phases[5] = "delayed"
        /\ Phases[6] = "timecodes"
    BY DEF Phases
  <2>3. DOMAIN agenda' = 1 .. 6 /\ \A n \in 1 .. 6 : agenda'[n].op = Phases[n]
    BY <2>1, <2>2 DEF Task
  <2>4. Len(agenda') = 6
    BY <2>1, <2>2
  <2>5. \A n \in 1 .. 6 : /\ Phases[n] = "timecodes" => n = 6
                          /\ Phases[n] = "finished" => n = 3
                          /\ Phases[n] \notin {"finish", "trigger", "expire"}
    BY <2>2
  <2> QED
    BY <2>1, <2>3, <2>4, <2>5 DEF ShapeInv
<1>5. CASE Idle /\ Plain(agenda') /\ arming' = arming
  BY <1>2, <1>5 DEF ShapeInv, Plain
<1>6. CASE ~Idle /\ \E calls \in Seq(Calls(cues, nextId)) :
                /\ Continue(calls)
                /\ \/ Plain(calls)
                   \/ CheckFinishedCues /\ FinishCalls(calls)
                   \/ CheckTimecodes /\ TriggerCalls(calls)
  <2>0. PICK calls \in Seq(Calls(cues, nextId)) :
                /\ Continue(calls)
                /\ \/ Plain(calls)
                   \/ CheckFinishedCues /\ FinishCalls(calls)
                   \/ CheckTimecodes /\ TriggerCalls(calls)
    BY <1>6
  <2> DEFINE c == Len(calls)
             Old(n) == n - Len(calls) + 1
  <2>1. /\ Len(agenda) \in Nat \ {0} /\ c \in Nat
        /\ DOMAIN agenda = 1 .. Len(agenda) /\ DOMAIN agenda' = 1 .. Len(agenda')
        /\ DOMAIN calls = 1 .. c
        /\ Len(agenda') = c + Len(agenda) - 1
        /\ task = agenda[1]
    BY <1>0, <1>6, <2>0, ContinueParts
  <2>2. \A n \in 1 .. Len(agenda') :
                \/ n \in 1 .. c /\ agenda'[n] = calls[n]
                \/ n > c /\ Old(n) \in 2 .. Len(agenda) /\ agenda'[n] = agenda[Old(n)]
    BY <1>0, <1>6, <2>0, ContinueParts
  <2>3. \A m, n \in 1 .. Len(agenda') : /\ Old(m) = Old(n) => m = n
                                        /\ Old(n) = Len(agenda) => n = Len(agenda')
                                        /\ Old(Len(agenda')) = Len(agenda)
    BY <2>1
  <2> HIDE DEF Old
  <2>4. CASE Plain(calls)
    <3>1. \A n \in 1 .. Len(agenda') :
            \/ agenda'[n].op \in {"play", "start", "afterLast"}
            \/ Old(n) \in DOMAIN agenda /\ agenda'[n] = agenda[Old(n)]
      BY <2>1, <2>2, <2>4 DEF Plain
    <3>2. \A n \in DOMAIN agenda' :
            agenda'[n].op \in {"timecodes", "expire"} => n = Len(agenda')
      BY <2>1, <2>3, <3>1 DEF ShapeInv
    <3>3. arming' =>
            /\ agenda' # <<>> /\ agenda'[Len(agenda')].op = "endGo"
            /\ \A n \in DOMAIN agenda' : agenda'[n].op \in {"play", "start", "afterLast", "endGo"}
      <4> SUFFICES ASSUME arming'
                   PROVE  /\ agenda' # <<>> /\ agenda'[Len(agenda')].op = "endGo"
                          /\ \A n \in DOMAIN agenda' :
                                agenda'[n].op \in {"play", "start", "afterLast", "endGo"}
        OBVIOUS
      <4>1. arming
        <5>1. ~Go
          BY <1>6 DEF Go, Command
        <5>2. ~EndGo
          BY DEF EndGo
        <5> QED
          BY <5>1, <5>2, Touched
      <4>2. ~EndGo
        BY DEF EndGo
      <4>3. Len(agenda) > 1
        <5>1. CASE agenda' = agenda
          <6>1. c = 1
            <7>1. Len(agenda') = Len(agenda)
              BY <5>1
            <7> QED
              BY <2>1, <7>1
          <6>2. 1 \in 1 .. Len(agenda') /\ 1 \in DOMAIN calls
            BY <2>1, <6>1
          <6>3. agenda'[1] = calls[1]
            BY <2>2, <6>1, <6>2
          <6>4. calls[1].op \in {"play", "start", "afterLast"}
            BY <2>4, <6>2 DEF Plain
          <6>5. agenda'[1] = agenda[1]
            BY <5>1
          <6>6. agenda[Len(agenda)].op = "endGo"
            BY <4>1 DEF ShapeInv
          <6>7. Len(agenda) # 1
            BY <6>3, <6>4, <6>5, <6>6
          <6> QED
            BY <2>1, <6>7
        <5>2. CASE agenda' # agenda
          BY <4>1, <4>2, <5>2, ArmingSteps
        <5> QED
          BY <5>1, <5>2
      <4>4. Len(agenda') \in DOMAIN agenda' /\ Len(agenda') > c
        BY <2>1, <4>3
      <4>5. agenda'[Len(agenda')] = agenda[Len(agenda)]
        BY <2>1, <2>2, <2>3, <4>4
      <4>6. agenda' # <<>>
        BY <2>1, <4>4
      <4> QED
        BY <2>1, <3>1, <4>1, <4>5, <4>6 DEF ShapeInv
    <3>4. ASSUME NEW m \in DOMAIN agenda', NEW n \in DOMAIN agenda',
                 agenda'[m].op = "finished", agenda'[n].op \in {"finished", "finish"}
          PROVE  m = n
      <4>1. m \in 1 .. Len(agenda') /\ n \in 1 .. Len(agenda')
        BY <2>1
      <4>2. Old(m) \in DOMAIN agenda /\ agenda'[m] = agenda[Old(m)]
        BY <3>1, <3>4, <4>1
      <4>3. Old(n) \in DOMAIN agenda /\ agenda'[n] = agenda[Old(n)]
        BY <3>1, <3>4, <4>1
      <4>4. Old(m) = Old(n)
        BY <3>4, <4>2, <4>3 DEF ShapeInv
      <4> QED
        BY <2>3, <4>1, <4>4
    <3>5. ASSUME NEW m \in DOMAIN agenda', NEW n \in DOMAIN agenda',
                 agenda'[m].op = "finish", agenda'[n].op = "finish", agenda'[m].id = agenda'[n].id
          PROVE  m = n
      <4>1. m \in 1 .. Len(agenda') /\ n \in 1 .. Len(agenda')
        BY <2>1
      <4>2. Old(m) \in DOMAIN agenda /\ agenda'[m] = agenda[Old(m)]
        BY <3>1, <3>5, <4>1
      <4>3. Old(n) \in DOMAIN agenda /\ agenda'[n] = agenda[Old(n)]
        BY <3>1, <3>5, <4>1
      <4>4. Old(m) = Old(n)
        BY <3>5, <4>2, <4>3 DEF ShapeInv
      <4> QED
        BY <2>3, <4>1, <4>4
    <3>6. ASSUME NEW m \in DOMAIN agenda', NEW n \in DOMAIN agenda',
                 agenda'[m].op = "trigger", agenda'[n].op = "trigger", agenda'[m].q = agenda'[n].q
          PROVE  m = n
      <4>1. m \in 1 .. Len(agenda') /\ n \in 1 .. Len(agenda')
        BY <2>1
      <4>2. Old(m) \in DOMAIN agenda /\ agenda'[m] = agenda[Old(m)]
        BY <3>1, <3>6, <4>1
      <4>3. Old(n) \in DOMAIN agenda /\ agenda'[n] = agenda[Old(n)]
        BY <3>1, <3>6, <4>1
      <4>4. Old(m) = Old(n)
        BY <3>6, <4>2, <4>3 DEF ShapeInv
      <4> QED
        BY <2>3, <4>1, <4>4
    <3> QED
      BY <3>2, <3>3, <3>4, <3>5, <3>6 DEF ShapeInv
  <2>5. CASE CheckFinishedCues /\ FinishCalls(calls)
    <3>0. 1 \in DOMAIN agenda
      BY <2>1
    <3>1. agenda[1].op = "finished" /\ 1 \in DOMAIN agenda
      BY <2>1, <2>5, <3>0 DEF CheckFinishedCues, Doing, task
    <3>2. ~arming'
      <4>1. arming' = arming
        BY <2>5 DEF CheckFinishedCues, fixed
      <4> QED
        BY <3>1, <4>1 DEF ShapeInv
    <3>3. \A n \in 2 .. Len(agenda) : agenda[n].op \notin {"finished", "finish"}
      BY <2>1, <3>1 DEF ShapeInv
    <3>4. ASSUME NEW n \in 1 .. Len(agenda')
          PROVE  \/ n \in DOMAIN calls /\ agenda'[n] = calls[n] /\ agenda'[n].op = "finish"
                 \/ /\ Old(n) \in DOMAIN agenda /\ agenda'[n] = agenda[Old(n)]
                    /\ agenda'[n].op \notin {"finished", "finish"}
      <4>1. CASE n \in 1 .. c /\ agenda'[n] = calls[n]
        BY <2>1, <2>5, <4>1 DEF FinishCalls
      <4>2. CASE Old(n) \in 2 .. Len(agenda) /\ agenda'[n] = agenda[Old(n)]
        <5>1. Old(n) \in DOMAIN agenda
          BY <2>1, <4>2
        <5> QED
          BY <3>3, <4>2, <5>1
      <4> QED
        BY <2>2, <4>1, <4>2
    <3>5. \A m, n \in DOMAIN agenda' :
            agenda'[m].op = "finish" /\ agenda'[n].op = "finish" /\ agenda'[m].id = agenda'[n].id => m = n
      BY <2>1, <2>5, <3>4 DEF FinishCalls
    <3>6. ASSUME NEW m \in DOMAIN agenda', NEW n \in DOMAIN agenda',
                 agenda'[m].op = "trigger", agenda'[n].op = "trigger", agenda'[m].q = agenda'[n].q
          PROVE  m = n
      <4>1. m \in 1 .. Len(agenda') /\ n \in 1 .. Len(agenda')
        BY <2>1
      <4>2. Old(m) \in DOMAIN agenda /\ agenda'[m] = agenda[Old(m)]
        BY <3>4, <3>6, <4>1
      <4>3. Old(n) \in DOMAIN agenda /\ agenda'[n] = agenda[Old(n)]
        BY <3>4, <3>6, <4>1
      <4>4. Old(m) = Old(n)
        BY <3>6, <4>2, <4>3 DEF ShapeInv
      <4> QED
        BY <2>3, <4>1, <4>4
    <3>7. \A n \in DOMAIN agenda' :
            agenda'[n].op \in {"timecodes", "expire"} => n = Len(agenda')
      BY <2>1, <2>3, <3>4 DEF ShapeInv
    <3>8. \A n \in DOMAIN agenda' : agenda'[n].op # "finished"
      BY <2>1, <3>4
    <3> QED
      BY <3>2, <3>5, <3>6, <3>7, <3>8 DEF ShapeInv
  <2>6. CASE CheckTimecodes /\ TriggerCalls(calls)
    <3>0. 1 \in DOMAIN agenda
      BY <2>1
    <3>1. agenda[1].op = "timecodes" /\ 1 \in DOMAIN agenda
      BY <2>1, <2>6, <3>0 DEF CheckTimecodes, Doing, task
    <3>2. ~arming'
      <4>1. arming' = arming
        BY <2>6 DEF CheckTimecodes, fixed
      <4> QED
        BY <3>1, <4>1 DEF ShapeInv
    <3>3. Len(agenda) = 1
      BY <2>1, <3>1 DEF ShapeInv
    <3>4. Len(agenda') = c /\ \A n \in 1 .. c : agenda'[n] = calls[n]
      BY <2>1, <2>2, <3>3
    <3>5. CASE calls = <<>>
      <4>1. c = 0
        BY <3>5
      <4>2. DOMAIN agenda' = {}
        BY <2>1, <3>4, <4>1
      <4> QED
        BY <3>2, <4>2 DEF ShapeInv
    <3>6. CASE calls # <<>>
      <4>1. /\ calls[c].op = "expire" /\ c # 0
            /\ \A n \in 1 .. c - 1 : calls[n].op = "trigger"
            /\ \A m, n \in 1 .. c - 1 : calls[m].q = calls[n].q => m = n
        BY <2>1, <2>6, <3>6 DEF TriggerCalls
      <4> DEFINE d == c - 1
      <4>2. \A n \in 1 .. c : n \in 1 .. d \/ n = c
        <5>1. c \in Nat /\ d = c - 1
          BY <2>1
        <5> HIDE DEF c, d
        <5> QED
          BY <5>1
      <4>3. /\ agenda'[c].op = "expire"
            /\ \A n \in 1 .. d : agenda'[n].op = "trigger" /\ agenda'[n].q = calls[n].q
        BY <2>1, <3>4, <4>1
      <4>4. \A m, n \in 1 .. d : agenda'[m].q = agenda'[n].q => m = n
        BY <4>1, <4>3
      <4>5. DOMAIN agenda' = 1 .. c /\ Len(agenda') = c
        BY <2>1, <3>4
      <4> HIDE DEF d, c
      <4>6. \A n \in DOMAIN agenda' : agenda'[n].op \in {"timecodes", "expire"} => n = Len(agenda')
        BY <4>2, <4>3, <4>5
      <4>7. \A n \in DOMAIN agenda' : agenda'[n].op \notin {"finished", "finish"}
        BY <4>2, <4>3, <4>5
      <4>8. \A m, n \in DOMAIN agenda' :
              agenda'[m].op = "trigger" /\ agenda'[n].op = "trigger" /\ agenda'[m].q = agenda'[n].q => m = n
        BY <4>2, <4>3, <4>4, <4>5
      <4> QED
        BY <3>2, <4>6, <4>7, <4>8 DEF ShapeInv
    <3> QED
      BY <3>5, <3>6
  <2> QED
    BY <2>0, <2>4, <2>5, <2>6
<1> QED
  BY <1>1, <1>3, <1>4, <1>5, <1>6, AgendaTouched

LEMMA InitShape == Init => ShapeInv
  BY DEF Init, ShapeInv

-----------------------------------------------------------------------------
(* The timecodes that fire *)

\* During a call that does not stop the show clock, what is due stays due.
LEMMA DueInCall ==
  ASSUME TypeInv, ~Idle, clock.start # None, [Next]_vars
  PROVE  clock'.start = None \/ (clock'.start # None /\ DueTimecodes' = DueTimecodes)
<1>0. IsClock(clock)
  BY DEF TypeInv, ClockInv, ClockPart
<1>1. CASE clock' = clock /\ now' = now /\ cues' = cues
  <2>1. Elapsed' = Elapsed
    BY <1>1 DEF Elapsed
  <2> QED
    BY <1>1, <2>1 DEF DueTimecodes
<1>2. CASE TriggerTimecode
  <2>1. /\ now' = now /\ cues' = cues
        /\ clock'.start = clock.start /\ clock'.pausedAt = clock.pausedAt
        /\ clock'.offset = clock.offset /\ clock'.adjustment = clock.adjustment
    BY <1>0, <1>2 DEF TriggerTimecode, IsClock, fixed
  <2>2. Elapsed' = Elapsed
    BY <2>1 DEF Elapsed
  <2> QED
    BY <2>1, <2>2 DEF DueTimecodes
<1>3. CASE PlayStopAll
  BY <1>3 DEF PlayStopAll, ResetShowClock, StoppedClock
<1>4. CASE ArmShowClock(task.q) /\ now' = now /\ cues' = cues
  BY <1>1, <1>4 DEF ArmShowClock, clockVars
<1>5. CASE Operator
  BY <1>5 DEF Operator, Go, Fire, Select, Preload, Stop, Pause, Resume, SeekAudio,
     SeekVideo, AdjustShowTime, ChangeProject, Command
<1>6. CASE PlayCue
  BY <1>1, <1>3, <1>4, <1>6 DEF PlayCue, PlayRefused, PlayRemote, PlayDelayed, PlayReady,
     PlaySound, PlayVideo, PlayImage, PlayExternal, PlayDmxShow, PlayVolume, PlayGroup,
     PlayTimeCode, PlayGoto, PlayStopTarget, Plays, clockVars, fixed
<1>7. CASE Work /\ ~PlayCue
  BY <1>1, <1>2, <1>7 DEF Work, PlayAfterLast, EndGo, CheckFadeOuts, CheckPendingStops,
     AudioPhase, CheckFinishedCues, FinishAudioHalf, FinishCue, CheckVideoLoops,
     CheckDelayedCues, CheckTimecodes, ExpireTimecodes, clockVars, fixed
<1>8. CASE TickAgain \/ TimePasses
  BY <1>8 DEF TickAgain, TimePasses, Tick
<1>9. CASE Environment
  BY <1>1, <1>9 DEF Environment, VideoEof, VideoEofIgnored, VideoEofLoops, VideoEofEnds,
     VideoFailed, DmxShowEnds, ExternalFinished, Render, clockVars, fixed
<1>10. CASE UNCHANGED vars
  BY <1>1, <1>10 DEF vars, clockVars, fixed
<1> QED
  BY <1>5, <1>6, <1>7, <1>8, <1>9, <1>10 DEF Next

\* The end of the timecode phase is reached only through its triggers, and a
\* trigger is taken from the agenda only to fire.
LEMMA TriggerTaken ==
  ASSUME TypeInv, [Next]_vars, Doing("trigger"), agenda' # agenda
  PROVE  TriggerTimecode
<1>1. ~Idle /\ task.op = "trigger"
  BY DEF Doing, task
<1>2. CASE Operator \/ TickAgain \/ TimePasses
  BY <1>1, <1>2 DEF Operator, Go, Fire, Select, Preload, Stop, Pause, Resume, SeekAudio,
     SeekVideo, AdjustShowTime, ChangeProject, Command, TickAgain, TimePasses, Tick
<1>3. CASE Work
  BY <1>1, <1>3 DEF Work, PlayCue, PlayRefused, PlayRemote, PlayDelayed, PlayReady, PlaySound,
     PlayVideo, PlayImage, PlayExternal, PlayDmxShow, PlayVolume, PlayGroup,
     PlayTimeCode, PlayGoto, PlayStopAll, PlayStopTarget, Plays, PlaysStop, Playing,
     PlayAfterLast, EndGo, CheckFadeOuts, CheckPendingStops, AudioPhase,
     CheckFinishedCues, FinishAudioHalf, FinishCue, CheckVideoLoops, CheckDelayedCues,
     CheckTimecodes, ExpireTimecodes, Doing, task
<1>4. CASE Environment
  BY <1>1, <1>4 DEF Environment, VideoEof, VideoEofIgnored, VideoEofLoops, VideoEofEnds,
     VideoFailed, DmxShowEnds, ExternalFinished, Render, Reports
<1>5. CASE UNCHANGED vars
  BY <1>5 DEF vars
<1> QED
  BY <1>2, <1>3, <1>4, <1>5 DEF Next

\* In a run of the clock the cues fired are those marked as triggered, once
\* each; a trigger on the agenda is still to be taken, and when the phase comes
\* to its end nothing that is due is left out.
CodesFired ==
    clock.start # None =>
        \A q \in Qids(cues) : fired[q] = IF q \in clock.triggered THEN 1 ELSE 0
CodesFresh == arming /\ clock.start = None => clock.triggered = {}
CodesLeft ==
    \A n \in DOMAIN agenda :
        agenda[n].op = "trigger" => agenda[n].q \notin clock.triggered
CodesTaken ==
    clock.start # None /\ (\E n \in DOMAIN agenda : agenda[n].op = "expire") =>
        \A q \in DueTimecodes :
            \/ q \in clock.triggered
            \/ \E m \in DOMAIN agenda : agenda[m].op = "trigger" /\ agenda[m].q = q
CodesInv == CodesFired /\ CodesFresh /\ CodesLeft /\ CodesTaken

LEMMA CodesOnce == TypeInv /\ ShapeInv /\ CodesInv => TimeCodesFireOnce
<1> SUFFICES ASSUME TypeInv, ShapeInv, CodesInv, clock.start # None
             PROVE  /\ \A q \in Qids(cues) : fired[q] <= 1
                    /\ Doing("expire") => \A q \in DueTimecodes : fired[q] = 1
  BY DEF TimeCodesFireOnce
<1>1. \A q \in Qids(cues) : fired[q] <= 1
  BY DEF CodesInv, CodesFired
<1>2. ASSUME Doing("expire"), NEW q \in DueTimecodes
      PROVE  fired[q] = 1
  <2>1. agenda \in Seq(Calls(cues, nextId)) /\ agenda # <<>>
    BY <1>2 DEF TypeInv, AgendaPart, Doing, Idle
  <2>2. Len(agenda) \in Nat \ {0} /\ DOMAIN agenda = 1 .. Len(agenda) /\ Head(agenda) = agenda[1]
    BY <2>1
  <2>3. 1 \in DOMAIN agenda /\ agenda[1].op = "expire"
    BY <1>2, <2>2 DEF Doing
  <2>4. Len(agenda) = 1
    BY <2>3 DEF ShapeInv
  <2>5. \A m \in DOMAIN agenda : agenda[m].op # "trigger"
    BY <2>2, <2>3, <2>4
  <2>6. q \in clock.triggered
    BY <2>3, <2>5 DEF CodesInv, CodesTaken
  <2>7. q \in Qids(cues)
    BY DEF DueTimecodes
  <2> QED
    BY <2>6, <2>7 DEF CodesInv, CodesFired
<1> QED
  BY <1>1, <1>2

LEMMA NextFired ==
  ASSUME TypeInv, ShapeInv, CodesInv, [Next]_vars
  PROVE  CodesFired' /\ CodesFresh'
<1>0. /\ IsClock(clock) /\ ClockInv /\ clock.triggered \subseteq Qids(cues)
      /\ fired \in [Qids(cues) -> Nat] /\ AgendaPart /\ ListPart /\ ActivePart
  BY DEF TypeInv, ClockInv, ClockPart, CodePart
<1>1. CASE PlayStopAll \/ Stop \/ ChangeProject
  <2>1. clock' = StoppedClock
    BY <1>1 DEF PlayStopAll, Stop, ChangeProject, ResetShowClock
  <2> QED
    BY <2>1 DEF CodesFired, CodesFresh, StoppedClock
<1>2. CASE Go
  <2>1. fired' = fired /\ cues' = cues
    BY <1>2 DEF Go
  <2>2. CASE clock.start = None
    <3>1. clock' = [clock EXCEPT !.triggered = {}]
      BY <1>2, <2>2 DEF Go, GoClears
    <3>2. clock'.start = None /\ clock'.triggered = {}
      BY <1>0, <2>2, <3>1 DEF IsClock
    <3> QED
      BY <3>2 DEF CodesFired, CodesFresh
  <2>3. CASE clock.start # None
    <3>1. clock' = clock
      BY <1>2, <2>3 DEF Go, GoClears
    <3> QED
      BY <2>1, <2>3, <3>1 DEF CodesInv, CodesFired, CodesFresh
  <2> QED
    BY <2>2, <2>3
<1>3. CASE TriggerTimecode
  <2>1. task.q \in Qids(cues) /\ ~Idle
    BY <1>0, <1>3, TaskTypes DEF TriggerTimecode, Doing, task
  <2>2. /\ clock'.triggered = clock.triggered \cup {task.q} /\ clock'.start = clock.start
        /\ fired' = [fired EXCEPT ![task.q] = @ + 1] /\ cues' = cues /\ arming' = arming
    BY <1>0, <1>3 DEF TriggerTimecode, IsClock, fixed
  <2>3. /\ agenda \in Seq(Calls(cues, nextId)) /\ Len(agenda) \in Nat \ {0}
        /\ 1 \in DOMAIN agenda /\ agenda[1].op = "trigger" /\ task = agenda[1]
    <3>1. agenda \in Seq(Calls(cues, nextId)) /\ agenda # <<>>
      BY <1>0, <2>1 DEF AgendaPart, Idle
    <3>2. Len(agenda) \in Nat /\ Len(agenda) # 0 /\ DOMAIN agenda = 1 .. Len(agenda)
      BY <3>1
    <3>3. task = agenda[1]
      BY <3>1 DEF task
    <3> QED
      BY <1>3, <3>1, <3>2, <3>3 DEF TriggerTimecode, Doing, task
  <2>4. task.q \notin clock.triggered
    BY <2>3 DEF CodesInv, CodesLeft
  <2>5. ~arming
    BY <2>3 DEF ShapeInv
  <2>6. CodesFired'
    <3> SUFFICES ASSUME clock.start # None, NEW q \in Qids(cues)
                 PROVE  fired'[q] = IF q \in clock'.triggered THEN 1 ELSE 0
      BY <2>2 DEF CodesFired
    <3>1. fired[q] = IF q \in clock.triggered THEN 1 ELSE 0
      BY DEF CodesInv, CodesFired
    <3>2. CASE q = task.q
      BY <1>0, <2>1, <2>2, <2>4, <3>1, <3>2
    <3>3. CASE q # task.q
      BY <1>0, <2>2, <3>1, <3>3
    <3> QED
      BY <3>2, <3>3
  <2> QED
    BY <2>2, <2>5, <2>6 DEF CodesFresh
<1>4. CASE ~(PlayStopAll \/ Stop \/ ChangeProject \/ Go \/ TriggerTimecode)
  <2>1. cues' = cues /\ (arming' = arming \/ EndGo)
    BY <1>4, Touched
  <2>2. arming' => arming
    BY <2>1 DEF EndGo
  <2>3. CASE /\ clock'.triggered = clock.triggered /\ fired' = fired
             /\ clock'.start = clock.start
    BY <2>1, <2>2, <2>3 DEF CodesInv, CodesFired, CodesFresh
  <2>4. CASE /\ clock'.triggered = clock.triggered /\ fired' = NothingFired
             /\ clock.start = None /\ arming /\ clock'.start # None
    BY <2>1, <2>4 DEF CodesInv, CodesFired, CodesFresh, NothingFired
  <2> QED
    BY <1>0, <1>4, <2>3, <2>4, CodesTouched
<1> QED
  BY <1>1, <1>2, <1>3, <1>4

\* What a call leaves on the agenda below it stays there.
LEMMA TailStays ==
  ASSUME NEW T, agenda \in Seq(T), ~Idle, NEW calls \in Seq(T), Continue(calls),
         NEW m \in DOMAIN agenda, m # 1
  PROVE  \E n \in DOMAIN agenda' : agenda'[n] = agenda[m]
<1>1. /\ Len(agenda) \in Nat \ {0} /\ Len(calls) \in Nat
      /\ DOMAIN agenda = 1 .. Len(agenda) /\ DOMAIN agenda' = 1 .. Len(agenda')
      /\ Len(agenda') = Len(calls) + Len(agenda) - 1
      /\ \A n \in 1 .. Len(agenda') :
            \/ n \in 1 .. Len(calls) /\ agenda'[n] = calls[n]
            \/ /\ n > Len(calls)
               /\ n - Len(calls) + 1 \in 2 .. Len(agenda)
               /\ agenda'[n] = agenda[n - Len(calls) + 1]
  BY ContinueParts
<1> DEFINE n == m + Len(calls) - 1
<1>2. n \in 1 .. Len(agenda') /\ n > Len(calls) /\ n - Len(calls) + 1 = m
  <2>1. ASSUME NEW a \in Nat, NEW k \in Nat, m \in 1 .. a
        PROVE  m + k - 1 \in 1 .. k + a - 1 /\ m + k - 1 > k /\ m + k - 1 - k + 1 = m
    <3>1. m \in Int /\ m >= 1 /\ m <= a /\ m # 1
      BY <2>1
    <3> QED
      BY <3>1
  <2>2. m \in 1 .. Len(agenda) /\ Len(agenda) \in Nat
    BY <1>1
  <2> QED
    BY <1>1, <2>1, <2>2
<1> HIDE DEF n
<1>3. agenda'[n] = agenda[m]
  <2>1. ~(n \in 1 .. Len(calls))
    BY <1>1, <1>2
  <2>2. agenda'[n] = agenda[n - Len(calls) + 1]
    BY <1>1, <1>2, <2>1
  <2> QED
    BY <1>2, <2>2
<1> QED
  BY <1>1, <1>2, <1>3

\* The triggers and the end of the timecode phase are put on the agenda by
\* check_timecodes alone.
LEMMA TriggersFrom ==
  ASSUME TypeInv, [Next]_vars, NEW n \in DOMAIN agenda',
         agenda'[n].op \in {"trigger", "expire"}
  PROVE  ~Idle /\ \/ CheckTimecodes
                  \/ \E m \in DOMAIN agenda : agenda[m] = agenda'[n]
<1>0. agenda \in Seq(Calls(cues, nextId))
  BY DEF TypeInv, AgendaPart
<1>1. CASE agenda' = agenda
  <2>1. ~Idle
    BY <1>1 DEF Idle
  <2> QED
    BY <1>1, <2>1
<1>2. ~Go
  <2>1. ASSUME Go, agenda' # agenda PROVE FALSE
    <3> DEFINE T == Calls(cues, nextId)
               r == Tasks("play", WithLastRun(cues, selected))
               e == Task("endGo", selected)
    <3>1. selected \in Qids(cues) /\ agenda' = r \o <<e>>
      BY <2>1 DEF Go
    <3>2. cues \in Seq(Cue) /\ nextId \in Nat \ {0}
      BY ShowsAssumption DEF TypeInv, ListPart, ActivePart
    <3>3. r \in Seq(T) /\ e \in T
      BY <3>1, <3>2, RunIsSeq, TasksAreCalls, TaskIsCall DEF CallOps
    <3>4. e.op = "endGo" /\ \A i \in DOMAIN r : r[i].op = "play"
      BY DEF Task, Tasks
    <3> HIDE DEF r, e, T
    <3>5. <<e>> \in Seq(T) /\ Len(<<e>>) = 1 /\ <<e>>[1] = e
      BY <3>3
    <3>6. /\ Len(agenda') = Len(r) + 1 /\ Len(r) \in Nat /\ DOMAIN r = 1 .. Len(r)
          /\ DOMAIN agenda' = 1 .. Len(agenda')
          /\ \A i \in 1 .. Len(r) + 1 :
                agenda'[i] = IF i <= Len(r) THEN r[i] ELSE <<e>>[i - Len(r)]
      BY <3>1, <3>3, <3>5, ConcatProperties
    <3>7. agenda'[n].op \in {"play", "endGo"}
      BY <3>4, <3>5, <3>6
    <3> QED
      BY <3>7
  <2>2. Go => Idle
    BY DEF Go, Command
  <2> QED
    BY <1>1, <2>1, <2>2
<1>3. ~(TickAgain \/ TimePasses)
  <2>1. ASSUME TickAgain \/ TimePasses PROVE FALSE
    <3>1. agenda' = [i \in DOMAIN Phases |-> Task(Phases[i], 0)]
      BY <2>1 DEF TickAgain, TimePasses, Tick
    <3>2. agenda'[n].op = Phases[n] /\ n \in DOMAIN Phases
      BY <3>1 DEF Task
    <3>3. \A i \in DOMAIN Phases : Phases[i] \notin {"trigger", "expire"}
      BY DEF Phases
    <3> QED
      BY <3>2, <3>3
  <2> QED
    BY <2>1
<1>4. ~(Idle /\ Plain(agenda'))
  BY DEF Plain
<1>5. CASE ~Idle /\ \E calls \in Seq(Calls(cues, nextId)) :
                /\ Continue(calls)
                /\ \/ Plain(calls)
                   \/ CheckFinishedCues /\ FinishCalls(calls)
                   \/ CheckTimecodes /\ TriggerCalls(calls)
  <2>1. PICK calls \in Seq(Calls(cues, nextId)) :
                /\ Continue(calls)
                /\ \/ Plain(calls)
                   \/ CheckFinishedCues /\ FinishCalls(calls)
                   \/ CheckTimecodes /\ TriggerCalls(calls)
    BY <1>5
  <2>2. /\ DOMAIN agenda' = 1 .. Len(agenda') /\ DOMAIN calls = 1 .. Len(calls)
        /\ DOMAIN agenda = 1 .. Len(agenda) /\ Len(agenda) \in Nat
        /\ \/ n \in 1 .. Len(calls) /\ agenda'[n] = calls[n]
           \/ /\ n - Len(calls) + 1 \in 2 .. Len(agenda)
              /\ agenda'[n] = agenda[n - Len(calls) + 1]
    BY <1>0, <1>5, <2>1, ContinueParts
  <2>3. CASE n \in 1 .. Len(calls) /\ agenda'[n] = calls[n]
    <3>1. ~Plain(calls) /\ ~FinishCalls(calls)
      BY <2>2, <2>3 DEF Plain, FinishCalls
    <3> QED
      BY <1>5, <2>1, <3>1
  <2>4. CASE n - Len(calls) + 1 \in 2 .. Len(agenda) /\ agenda'[n] = agenda[n - Len(calls) + 1]
    <3>1. n - Len(calls) + 1 \in DOMAIN agenda
      BY <2>2, <2>4
    <3> QED
      BY <1>5, <2>4, <3>1
  <2> QED
    BY <2>2, <2>3, <2>4
<1> QED
  BY <1>1, <1>2, <1>3, <1>4, <1>5, AgendaTouched

\* check_timecodes is the last phase: its triggers are the whole agenda.
LEMMA TriggersMade ==
  ASSUME TypeInv, ShapeInv, CheckTimecodes, [Next]_vars
  PROVE  /\ clock' = clock
         /\ \A n \in DOMAIN agenda' :
                agenda'[n].op = "trigger" => agenda'[n].q \in DueTimecodes \ clock.triggered
         /\ clock.start # None =>
            \A q \in DueTimecodes \ clock.triggered :
                \E n \in DOMAIN agenda' : agenda'[n].op = "trigger" /\ agenda'[n].q = q
<1>0. /\ agenda \in Seq(Calls(cues, nextId)) /\ ~Idle
      /\ ClockInv /\ ListPart /\ ActivePart /\ WaitPart /\ AgendaPart
  BY DEF TypeInv, AgendaPart, CheckTimecodes, Doing
<1>1. Work /\ ~PlayCue
  <2>1. task.op = "timecodes"
    BY DEF CheckTimecodes, Doing, task
  <2>2. ~PlayCue
    BY <2>1 DEF PlayCue, PlayRefused, PlayRemote, PlayDelayed, PlayReady, PlaySound,
     PlayVideo, PlayImage, PlayExternal, PlayDmxShow, PlayVolume, PlayGroup,
     PlayTimeCode, PlayGoto, PlayStopAll, PlayStopTarget, Plays, PlaysStop, Playing, Doing, task
  <2> QED
    BY <2>2 DEF Work
<1>2. PICK calls \in Seq(Calls(cues, nextId)) :
                /\ Continue(calls)
                /\ \/ Plain(calls) /\ ~CheckTimecodes
                   \/ CheckFinishedCues /\ FinishCalls(calls)
                   \/ CheckTimecodes /\ TriggerCalls(calls)
  BY <1>0, <1>1, WorkAgenda
<1>3. TriggerCalls(calls)
  BY <1>2 DEF CheckFinishedCues, CheckTimecodes, Doing
<1>4. clock' = clock
  BY DEF CheckTimecodes, clockVars
<1>5. /\ Len(agenda) \in Nat \ {0} /\ DOMAIN agenda = 1 .. Len(agenda) /\ task = agenda[1]
      /\ DOMAIN calls = 1 .. Len(calls) /\ Len(calls) \in Nat
      /\ DOMAIN agenda' = 1 .. Len(agenda') /\ Len(agenda') = Len(calls) + Len(agenda) - 1
  BY <1>0, <1>2, ContinueParts
<1>6. Len(agenda) = 1
  <2>1. 1 \in DOMAIN agenda /\ agenda[1].op = "timecodes"
    BY <1>5 DEF CheckTimecodes, Doing, task
  <2> QED
    BY <2>1 DEF ShapeInv
<1> DEFINE c == Len(calls)
<1>7. DOMAIN agenda' = 1 .. c /\ c \in Nat /\ \A n \in 1 .. c : agenda'[n] = calls[n]
  <2>1. Len(agenda') = c
    BY <1>5, <1>6
  <2>2. \A n \in 1 .. Len(agenda') :
                \/ n \in 1 .. c /\ agenda'[n] = calls[n]
                \/ n - Len(calls) + 1 \in 2 .. Len(agenda)
    BY <1>0, <1>2, ContinueParts
  <2> QED
    BY <1>5, <1>6, <2>1, <2>2
<1>8. CASE clock.start = None /\ calls = <<>>
  <2>1. DOMAIN agenda' = {}
    BY <1>7, <1>8
  <2> QED
    BY <1>4, <1>8, <2>1
<1>9. CASE ~(clock.start = None /\ calls = <<>>)
  <2> DEFINE d == c - 1
  <2>1. /\ calls[c].op = "expire" /\ calls # <<>>
        /\ \A n \in 1 .. d : calls[n].op = "trigger" /\ calls[n].q \in DueTimecodes \ clock.triggered
        /\ \A q \in DueTimecodes \ clock.triggered : \E n \in 1 .. d : calls[n].q = q
    BY <1>3, <1>9 DEF TriggerCalls
  <2>2. \A n \in 1 .. c : n \in 1 .. d \/ n = c
    <3>1. c \in Nat /\ d = c - 1
      BY <1>7
    <3> HIDE DEF c, d
    <3> QED
      BY <3>1
  <2>3. \A n \in 1 .. d : n \in 1 .. c
    <3>1. c \in Nat /\ d = c - 1
      BY <1>7
    <3> HIDE DEF c, d
    <3> QED
      BY <3>1
  <2> HIDE DEF c, d
  <2>4. \A n \in DOMAIN agenda' :
          agenda'[n].op = "trigger" => agenda'[n].q \in DueTimecodes \ clock.triggered
    BY <1>7, <2>1, <2>2
  <2>5. \A q \in DueTimecodes \ clock.triggered :
          \E n \in DOMAIN agenda' : agenda'[n].op = "trigger" /\ agenda'[n].q = q
    BY <1>7, <2>1, <2>3
  <2> QED
    BY <1>4, <2>4, <2>5
<1> QED
  BY <1>8, <1>9
LEMMA NextLeft ==
  ASSUME TypeInv, ShapeInv, CodesInv, [Next]_vars
  PROVE  CodesLeft'
<1>0. /\ IsClock(clock) /\ ClockInv /\ ListPart /\ ActivePart /\ AgendaPart
      /\ agenda \in Seq(Calls(cues, nextId))
  BY DEF TypeInv, ClockInv, ClockPart, AgendaPart
<1> SUFFICES ASSUME NEW n \in DOMAIN agenda', agenda'[n].op = "trigger"
             PROVE  agenda'[n].q \notin clock'.triggered
  BY DEF CodesLeft
<1>1. ~Idle
  BY TriggersFrom
<1>2. CASE CheckTimecodes
  BY <1>2, TriggersMade
<1>3. CASE TriggerTimecode
  <2> DEFINE calls == <<Task("play", task.q)>>
  <2>1. task.q \in Qids(cues)
    BY <1>0, <1>1, <1>3, TaskTypes DEF TriggerTimecode, Doing, task
  <2>2. calls \in Seq(Calls(cues, nextId)) /\ Continue(calls)
    <3>1. cues \in Seq(Cue) /\ nextId \in Nat \ {0}
      BY <1>0, ShowsAssumption DEF ListPart, ActivePart
    <3>2. Task("play", task.q) \in Calls(cues, nextId)
      BY <2>1, <3>1, TaskIsCall DEF CallOps
    <3> QED
      BY <1>3, <3>2 DEF TriggerTimecode
  <2>3. Len(calls) = 1 /\ calls[1].op = "play"
    BY DEF Task
  <2> HIDE DEF calls
  <2>4. /\ Len(agenda) \in Nat \ {0} /\ DOMAIN agenda = 1 .. Len(agenda) /\ task = agenda[1]
        /\ DOMAIN agenda' = 1 .. Len(agenda')
    BY <1>0, <1>1, <2>2, ContinueParts
  <2>5. \/ n \in 1 .. 1 /\ agenda'[n] = calls[n]
        \/ n - 1 + 1 \in 2 .. Len(agenda) /\ agenda'[n] = agenda[n - 1 + 1]
    BY <1>0, <1>1, <2>2, <2>3, <2>4, ContinueParts
  <2>6. n \in Nat
    BY <2>4
  <2>7. n # 1 /\ n \in DOMAIN agenda /\ agenda'[n] = agenda[n]
    <3>1. n - 1 + 1 = n
      BY <2>6
    <3>2. ~(n \in 1 .. 1 /\ agenda'[n] = calls[n])
      BY <2>3
    <3>3. n \in 2 .. Len(agenda) /\ agenda'[n] = agenda[n]
      BY <2>5, <3>1, <3>2
    <3> QED
      BY <2>4, <3>3
  <2>8. 1 \in DOMAIN agenda /\ agenda[1].op = "trigger"
    BY <1>3, <2>4 DEF TriggerTimecode, Doing, task
  <2>9. agenda[n].q # agenda[1].q
    BY <2>7, <2>8 DEF ShapeInv
  <2>10. agenda[n].q \notin clock.triggered
    BY <2>7 DEF CodesInv, CodesLeft
  <2>11. clock'.triggered = clock.triggered \cup {task.q}
    BY <1>0, <1>3 DEF TriggerTimecode, IsClock
  <2> QED
    BY <2>4, <2>7, <2>9, <2>10, <2>11
<1>4. CASE ~CheckTimecodes /\ ~TriggerTimecode
  <2>1. PICK m \in DOMAIN agenda : agenda[m] = agenda'[n]
    BY <1>4, TriggersFrom
  <2>2. agenda'[n].q \notin clock.triggered
    BY <2>1 DEF CodesInv, CodesLeft
  <2>3. clock'.triggered \subseteq clock.triggered
    <3>1. CASE PlayStopAll \/ Stop \/ ChangeProject
      BY <3>1 DEF PlayStopAll, Stop, ChangeProject, ResetShowClock, StoppedClock
    <3>2. ~Go
      BY <1>1 DEF Go, Command
    <3> QED
      BY <1>0, <1>4, <3>1, <3>2, CodesTouched
  <2> QED
    BY <2>2, <2>3
<1> QED
  BY <1>2, <1>3, <1>4

LEMMA NextTaken ==
  ASSUME TypeInv, ShapeInv, CodesInv, [Next]_vars
  PROVE  CodesTaken'
<1>0. /\ IsClock(clock) /\ ClockInv /\ ListPart /\ ActivePart /\ AgendaPart
      /\ agenda \in Seq(Calls(cues, nextId))
  BY DEF TypeInv, ClockInv, ClockPart, AgendaPart
<1> SUFFICES ASSUME clock'.start # None, NEW n \in DOMAIN agenda', agenda'[n].op = "expire",
                    NEW q \in DueTimecodes', q \notin clock'.triggered
             PROVE  \E m \in DOMAIN agenda' : agenda'[m].op = "trigger" /\ agenda'[m].q = q
  BY DEF CodesTaken
<1>1. ~Idle
  BY TriggersFrom
<1>2. ~arming'
  BY NextShape DEF ShapeInv
<1>3. ~(PlayStopAll \/ Stop \/ ChangeProject \/ Go)
  <2>1. ~(PlayStopAll \/ Stop \/ ChangeProject)
    BY DEF PlayStopAll, Stop, ChangeProject, ResetShowClock, StoppedClock
  <2> QED
    BY <1>1, <2>1 DEF Go, Command
<1>4. clock.start # None
  <2>1. CASE TriggerTimecode
    BY <1>0, <2>1 DEF TriggerTimecode, IsClock
  <2>2. CASE arming /\ PlayCue
    <3>1. task.op \in {"play", "start"}
      BY <2>2 DEF PlayCue, PlayRefused, PlayRemote, PlayDelayed, PlayReady, PlaySound,
       PlayVideo, PlayImage, PlayExternal, PlayDmxShow, PlayVolume, PlayGroup,
       PlayTimeCode, PlayGoto, PlayStopAll, PlayStopTarget, Plays, PlaysStop, Playing, Doing, task
    <3>2. ~EndGo
      BY <3>1 DEF EndGo, Doing, task
    <3>3. arming' = arming
      BY <1>3, <3>2, Touched
    <3> QED
      BY <1>2, <2>2, <3>3
  <2> QED
    BY <1>0, <1>3, <2>1, <2>2, CodesTouched
<1>5. DueTimecodes' = DueTimecodes
  BY <1>1, <1>4, DueInCall
<1>6. CASE CheckTimecodes
  BY <1>4, <1>5, <1>6, TriggersMade
<1>7. CASE ~CheckTimecodes
  <2>1. PICK k \in DOMAIN agenda : agenda[k] = agenda'[n]
    BY <1>7, TriggersFrom
  <2>2. q \notin clock.triggered
    <3>1. TriggerTimecode => clock.triggered \subseteq clock'.triggered
      BY <1>0 DEF TriggerTimecode, IsClock
    <3> QED
      BY <1>0, <1>3, <1>4, <3>1, CodesTouched
  <2>3. PICK m \in DOMAIN agenda : agenda[m].op = "trigger" /\ agenda[m].q = q
    BY <1>4, <1>5, <2>1, <2>2 DEF CodesInv, CodesTaken
  <2>4. CASE agenda' = agenda
    BY <2>3, <2>4
  <2>5. CASE agenda' # agenda
    <3>1. PICK calls \in Seq(Calls(cues, nextId)) : Continue(calls)
      BY <1>1, <2>5, AgendaTouched
    <3>2. m # 1
      <4>1. ASSUME m = 1 PROVE FALSE
        <5>1. task = agenda[1]
          BY <1>0, <1>1, <3>1, ContinueParts
        <5>2. Doing("trigger") /\ task.q = q
          BY <1>1, <2>3, <4>1, <5>1 DEF Doing, task
        <5>3. TriggerTimecode
          BY <2>5, <5>2, TriggerTaken
        <5>4. clock'.triggered = clock.triggered \cup {task.q}
          BY <1>0, <5>3 DEF TriggerTimecode, IsClock
        <5> QED
          BY <5>2, <5>4
      <4> QED
        BY <4>1
    <3>3. PICK p \in DOMAIN agenda' : agenda'[p] = agenda[m]
      BY <1>0, <1>1, <3>1, <3>2, TailStays
    <3> QED
      BY <2>3, <3>3
  <2> QED
    BY <2>4, <2>5
<1> QED
  BY <1>6, <1>7

LEMMA NextCodes == TypeInv /\ ShapeInv /\ CodesInv /\ [Next]_vars => CodesInv'
  BY NextFired, NextLeft, NextTaken DEF CodesInv

LEMMA InitCodes == Init => CodesInv
  BY DEF Init, CodesInv, CodesFired, CodesFresh, CodesLeft, CodesTaken, StoppedClock

-----------------------------------------------------------------------------
(* The cues that finish *)

\* The instances listed to be finished, those that may still finish, and those
\* whose picture has been taken away.
ToFinish == {agenda[n].id : n \in {k \in DOMAIN agenda : agenda[k].op = "finish"}}
Unfinished == Ids \cup ToFinish
Gone == log.pictureEnded \cup log.pictureCut

\* An instance has finished at most once, and not while it sounds, is listed,
\* is a half that waits for the other, or has the picture that ends it.  What
\* the one half waits for, the other one still has to do.
FinishInv ==
    /\ \A id \in 1 .. nextId - 1 : log.finishes[id] <= 1
    /\ \A id \in Unfinished : log.finishes[id] = 0
    /\ half # 0 => log.finishes[half] = 0
    /\ video.id # 0 /\ (video.audio => PictureEndsOnItsOwn(video)) => log.finishes[video.id] = 0
    /\ video.id # 0 /\ ~video.audio => video.id \notin Unfinished /\ half # video.id
    /\ video.id # 0 /\ half = video.id => half \notin Unfinished /\ half \in log.audioEnded
BothInv ==
    /\ log.av \subseteq 1 .. nextId - 1
    /\ \A id \in log.av : log.finishes[id] = 1 => id \in log.audioEnded \cap Gone
    /\ \A id \in log.av : video.id = id \/ id \in Gone
    /\ video.id \in log.av => video.audio /\ PictureEndsOnItsOwn(video)

LEMMA FinishedOnce == TypeInv /\ FinishInv /\ BothInv => FinishesOnce
<1> SUFFICES ASSUME TypeInv, FinishInv, BothInv, NEW id \in DOMAIN log.finishes
             PROVE  /\ log.finishes[id] <= 1
                    /\ id \in log.av /\ log.finishes[id] = 1 => id \in log.audioEnded \cap Gone
  BY DEF FinishesOnce, Gone
<1>1. DOMAIN log.finishes = 1 .. nextId - 1
  BY DEF TypeInv, LogPart
<1> QED
  BY <1>1 DEF FinishInv, BothInv

LEMMA ToFinishAreIds ==
  ASSUME TypeInv
  PROVE  ToFinish \subseteq 1 .. nextId - 1
<1> SUFFICES ASSUME NEW n \in DOMAIN agenda, agenda[n].op = "finish"
             PROVE  agenda[n].id \in 1 .. nextId - 1
  BY DEF ToFinish
<1>1. agenda \in Seq(Calls(cues, nextId)) /\ nextId \in Nat
  BY DEF TypeInv, AgendaPart, ActivePart
<1>2. agenda[n] \in Calls(cues, nextId)
  BY <1>1
<1>3. agenda[n].id \in 0 .. nextId - 1 /\ agenda[n].id # 0
  BY <1>2 DEF Calls
<1> QED
  BY <1>1, <1>3

\* Only check_finished_cues lists instances to be finished, each with its follow.
LEMMA FinishTasksFrom ==
  ASSUME TypeInv, [Next]_vars, NEW n \in DOMAIN agenda', agenda'[n].op = "finish"
  PROVE  \/ \E m \in DOMAIN agenda : agenda[m] = agenda'[n]
         \/ /\ CheckFinishedCues /\ agenda'[n].id \in Ids
            /\ agenda'[n].follow = active[agenda'[n].id].follow
<1>0. agenda \in Seq(Calls(cues, nextId))
  BY DEF TypeInv, AgendaPart
<1>1. CASE \E m \in DOMAIN agenda : agenda[m] = agenda'[n]
  BY <1>1
<1>2. CASE Go /\ agenda' # agenda
  <2> DEFINE T == Calls(cues, nextId)
             r == Tasks("play", WithLastRun(cues, selected))
             e == Task("endGo", selected)
  <2>1. selected \in Qids(cues) /\ agenda' = r \o <<e>>
    BY <1>2 DEF Go
  <2>2. cues \in Seq(Cue) /\ nextId \in Nat \ {0}
    BY ShowsAssumption DEF TypeInv, ListPart, ActivePart
  <2>3. r \in Seq(T) /\ e \in T
    BY <2>1, <2>2, RunIsSeq, TasksAreCalls, TaskIsCall DEF CallOps
  <2>4. e.op = "endGo" /\ \A i \in DOMAIN r : r[i].op = "play"
    BY DEF Task, Tasks
  <2> HIDE DEF r, e, T
  <2>5. <<e>> \in Seq(T) /\ Len(<<e>>) = 1 /\ <<e>>[1] = e
    BY <2>3
  <2>6. /\ Len(agenda') = Len(r) + 1 /\ Len(r) \in Nat /\ DOMAIN r = 1 .. Len(r)
        /\ DOMAIN agenda' = 1 .. Len(agenda')
        /\ \A i \in 1 .. Len(r) + 1 :
              agenda'[i] = IF i <= Len(r) THEN r[i] ELSE <<e>>[i - Len(r)]
    BY <2>1, <2>3, <2>5, ConcatProperties
  <2>7. agenda'[n].op \in {"play", "endGo"}
    BY <2>4, <2>5, <2>6
  <2> QED
    BY <2>7
<1>3. CASE TickAgain \/ TimePasses
  <2>1. agenda' = [i \in DOMAIN Phases |-> Task(Phases[i], 0)]
    BY <1>3 DEF TickAgain, TimePasses, Tick
  <2>2. agenda'[n].op = Phases[n] /\ n \in DOMAIN Phases
    BY <2>1 DEF Task
  <2>3. \A i \in DOMAIN Phases : Phases[i] # "finish"
    BY DEF Phases
  <2> QED
    BY <2>2, <2>3
<1>4. CASE ~Idle /\ \E calls \in Seq(Calls(cues, nextId)) :
                /\ Continue(calls)
                /\ \/ Plain(calls)
                   \/ CheckFinishedCues /\ FinishCalls(calls)
                   \/ CheckTimecodes /\ TriggerCalls(calls)
  <2>1. PICK calls \in Seq(Calls(cues, nextId)) :
                /\ Continue(calls)
                /\ \/ Plain(calls)
                   \/ CheckFinishedCues /\ FinishCalls(calls)
                   \/ CheckTimecodes /\ TriggerCalls(calls)
    BY <1>4
  <2>2. /\ DOMAIN agenda' = 1 .. Len(agenda') /\ DOMAIN calls = 1 .. Len(calls)
        /\ DOMAIN agenda = 1 .. Len(agenda) /\ Len(agenda) \in Nat /\ Len(calls) \in Nat
        /\ \/ n \in 1 .. Len(calls) /\ agenda'[n] = calls[n]
           \/ /\ n - Len(calls) + 1 \in 2 .. Len(agenda)
              /\ agenda'[n] = agenda[n - Len(calls) + 1]
    BY <1>0, <1>4, <2>1, ContinueParts
  <2>3. CASE n \in 1 .. Len(calls) /\ agenda'[n] = calls[n]
    <3>1. ~Plain(calls)
      BY <2>2, <2>3 DEF Plain
    <3>2. CASE CheckFinishedCues /\ FinishCalls(calls)
      BY <2>2, <2>3, <3>2 DEF FinishCalls
    <3>3. ~TriggerCalls(calls)
      <4>1. ASSUME TriggerCalls(calls), calls # <<>> PROVE FALSE
        <5> DEFINE c == Len(calls)
                   d == c - 1
        <5>1. n \in 1 .. d \/ n = c
          <6>1. c \in Nat /\ d = c - 1 /\ n \in 1 .. c
            BY <2>2, <2>3
          <6> HIDE DEF c, d
          <6> QED
            BY <6>1
        <5>2. calls[c].op = "expire" /\ \A i \in 1 .. d : calls[i].op = "trigger"
          BY <4>1 DEF TriggerCalls
        <5> HIDE DEF c, d
        <5> QED
          BY <2>3, <5>1, <5>2
      <4>2. calls # <<>>
        BY <2>2, <2>3
      <4> QED
        BY <4>1, <4>2
    <3> QED
      BY <2>1, <3>1, <3>2, <3>3
  <2>4. CASE n - Len(calls) + 1 \in 2 .. Len(agenda) /\ agenda'[n] = agenda[n - Len(calls) + 1]
    <3>1. n - Len(calls) + 1 \in DOMAIN agenda
      BY <2>2, <2>4
    <3> QED
      BY <1>1, <2>4, <3>1
  <2> QED
    BY <2>2, <2>3, <2>4
<1>5. ~(Idle /\ Plain(agenda'))
  BY DEF Plain
<1> QED
  BY <1>1, <1>2, <1>3, <1>4, <1>5, AgendaTouched

\* Only instances are listed to be finished.
LEMMA ToFinishFrom ==
  ASSUME TypeInv, [Next]_vars
  PROVE  ToFinish' \subseteq ToFinish \cup Ids
<1> SUFFICES ASSUME NEW n \in DOMAIN agenda', agenda'[n].op = "finish"
             PROVE  agenda'[n].id \in ToFinish \cup Ids
  BY DEF ToFinish
<1> QED
  BY FinishTasksFrom DEF ToFinish

\* An instance is handled once: it leaves the list and the cues that play.
LEMMA HandledOnce ==
  ASSUME TypeInv, ShapeInv, [Next]_vars, FinishCue \/ FinishAudioHalf
  PROVE  /\ task.id \in ToFinish /\ task.id \notin ToFinish' /\ ToFinish' \subseteq ToFinish
         /\ Ids' = Ids \ {task.id} /\ task.id \in 1 .. nextId - 1
         /\ nextId' = nextId /\ cues' = cues /\ video' = video
<1>0. agenda \in Seq(Calls(cues, nextId)) /\ ~Idle /\ AgendaPart /\ ListPart /\ ActivePart
  BY DEF TypeInv, AgendaPart, FinishCue, FinishAudioHalf, Doing
<1>1. Ids' = Ids \ {task.id} /\ nextId' = nextId /\ cues' = cues /\ video' = video
  BY DEF FinishCue, FinishAudioHalf, Without, Ids, fixed
<1>2. PICK calls \in {<<Task("afterLast", task.q)>>, <<>>} : Continue(calls)
  BY DEF FinishCue, FinishAudioHalf, Return
<1>2a. calls \in Seq(Calls(cues, nextId))
  <2>1. task.q \in Qids(cues)
    BY <1>0, TaskTypes DEF FinishCue, FinishAudioHalf, Doing, task
  <2>2. cues \in Seq(Cue) /\ nextId \in Nat \ {0}
    BY <1>0, ShowsAssumption DEF ListPart, ActivePart
  <2>3. Task("afterLast", task.q) \in Calls(cues, nextId)
    BY <2>1, <2>2, TaskIsCall DEF CallOps
  <2> DEFINE t == Task("afterLast", task.q)
  <2>4. t \in Calls(cues, nextId)
    BY <2>3
  <2>5. calls = <<t>> \/ calls = <<>>
    BY <1>2
  <2> HIDE DEF t
  <2>6. <<t>> \in Seq(Calls(cues, nextId)) /\ <<>> \in Seq(Calls(cues, nextId))
    BY <2>4
  <2> QED
    BY <2>5, <2>6
<1>3. DOMAIN calls \subseteq {1} /\ \A n \in DOMAIN calls : calls[n].op = "afterLast"
  BY <1>2 DEF Task
<1>4. /\ Len(agenda) \in Nat \ {0} /\ DOMAIN agenda = 1 .. Len(agenda) /\ task = agenda[1]
      /\ DOMAIN agenda' = 1 .. Len(agenda') /\ DOMAIN calls = 1 .. Len(calls)
      /\ \A n \in 1 .. Len(agenda') :
            \/ n \in 1 .. Len(calls) /\ agenda'[n] = calls[n]
            \/ /\ n - Len(calls) + 1 \in 2 .. Len(agenda)
               /\ agenda'[n] = agenda[n - Len(calls) + 1]
  BY <1>0, <1>2, <1>2a, ContinueParts
<1>5. 1 \in DOMAIN agenda /\ agenda[1].op = "finish"
  BY <1>4 DEF FinishCue, FinishAudioHalf, Doing, task
<1>6. task.id \in ToFinish
  BY <1>4, <1>5 DEF ToFinish
<1>7. ASSUME NEW n \in DOMAIN agenda', agenda'[n].op = "finish"
      PROVE  agenda'[n].id \in ToFinish \ {task.id}
  <2>1. ~(n \in 1 .. Len(calls) /\ agenda'[n] = calls[n])
    BY <1>3, <1>4, <1>7
  <2>2. PICK m \in 2 .. Len(agenda) : agenda'[n] = agenda[m]
    BY <1>4, <2>1
  <2>3. m \in DOMAIN agenda /\ m # 1
    BY <1>4, <2>2
  <2>4. agenda[m].id # agenda[1].id
    BY <1>5, <1>7, <2>2, <2>3 DEF ShapeInv
  <2> QED
    BY <1>4, <1>7, <2>2, <2>3, <2>4 DEF ToFinish
<1>8. ToFinish' \subseteq ToFinish \ {task.id}
  BY <1>7 DEF ToFinish
<1> QED
  BY <1>1, <1>6, <1>8, ToFinishAreIds

\* What is listed or sounds after a step.
LEMMA UnfinishedFrom ==
  ASSUME TypeInv, [Next]_vars
  PROVE  \/ Unfinished' \subseteq Unfinished
         \/ /\ nextId' > nextId /\ cues' = cues
            /\ \E i \in 1 .. nextId' - 1 :
                 /\ i >= nextId /\ nextId' = i + 1
                 /\ Unfinished' \subseteq Unfinished \cup {i}
<1>1. ToFinish' \subseteq ToFinish \cup Ids
  BY ToFinishFrom
<1>2. ListPart /\ AgendaPart /\ ActivePart /\ nextId \in Nat
  BY DEF TypeInv, ActivePart
<1>3. CASE Dwindles
  BY <1>1, <1>3 DEF Dwindles, Unfinished
<1>4. CASE \E i, q, ready : Begins(i, q, ready)
  <2>1. PICK i, q, ready : Begins(i, q, ready)
    BY <1>4
  <2>2. Ids' = Ids \cup {i}
    BY <2>1 DEF Begins, Started, Ids
  <2>3. Unfinished' \subseteq Unfinished \cup {i}
    BY <1>1, <2>2 DEF Unfinished
  <2>4. i \in Nat /\ i >= nextId /\ nextId' = i + 1 /\ cues' = cues
    BY <2>1 DEF Begins
  <2>5. i >= 1
    BY <1>2, <2>4 DEF ActivePart
  <2>6. i \in 1 .. nextId' - 1
    BY <2>4, <2>5
  <2>7. nextId' > nextId
    BY <1>2, <2>4
  <2> QED
    BY <2>3, <2>4, <2>6, <2>7
<1>5. CASE \E i : Revives(i)
  <2>1. Ids' = Ids
    BY <1>5 DEF Revives
  <2> QED
    BY <1>1, <2>1 DEF Unfinished
<1> QED
  BY <1>2, <1>3, <1>4, <1>5, InstanceSteps

\* What the history says of a record of it after a cut.
LEMMA CutWritten ==
  ASSUME log \in LogType, video.id \in Nat
  PROVE  /\ Cut(log) \in LogType /\ Cut(log).finishes = log.finishes /\ Cut(log).av = log.av
         /\ Cut(log).audioEnded = log.audioEnded /\ Cut(log).pictureEnded = log.pictureEnded
         /\ Cut(log).stopped = log.stopped
         /\ Cut(log).pictureCut = log.pictureCut \cup ({video.id} \ {0})
<1>1. Cut(log) = [log EXCEPT !.pictureCut = log.pictureCut \cup ({video.id} \ {0})]
  BY DEF Cut
<1>2. log.pictureCut \cup ({video.id} \ {0}) \in SUBSET Nat
  BY DEF LogType
<1>3. Cut(log) \in LogType
  BY <1>1, <1>2, LogWritten
<1> QED
  BY <1>1, <1>3 DEF LogType

LEMMA TypedLog ==
  ASSUME TypeInv
  PROVE  /\ log \in LogType /\ Len(log.finishes) = nextId - 1 /\ nextId \in Nat \ {0}
         /\ log.finishes \in [1 .. nextId - 1 -> Nat] /\ log.finishes \in Seq(Nat)
         /\ video.id \in 0 .. nextId - 1 /\ half \in 0 .. nextId - 1 /\ video.id \in Nat
         /\ video.audio \in BOOLEAN /\ (video # NoVideo <=> video.id # 0)
         /\ Ids \subseteq 1 .. nextId - 1 /\ Unfinished \subseteq 1 .. nextId - 1
<1>1. /\ log \in LogType /\ Len(log.finishes) = nextId - 1 /\ nextId \in Nat \ {0}
      /\ video.id \in 0 .. nextId - 1 /\ half \in 0 .. nextId - 1
      /\ video.audio \in BOOLEAN /\ (video # NoVideo => video.id # 0)
      /\ Ids \subseteq 1 .. nextId - 1
  BY DEF TypeInv, LogPart, LogType, ActivePart, PicturePart
<1>2. video.id # 0 => video # NoVideo
  BY DEF NoVideo
<1>3. log.finishes \in Seq(Nat)
  BY <1>1 DEF LogType
<1>4. video.id \in Nat
  BY <1>1
<1>5. Unfinished \subseteq 1 .. nextId - 1
  BY <1>1, ToFinishAreIds DEF Unfinished
<1>6. log.finishes \in [1 .. nextId - 1 -> Nat]
  BY <1>1, <1>3
<1> QED
  BY <1>1, <1>2, <1>3, <1>4, <1>5, <1>6

\* A step that finishes nothing, records no end and starts nothing.
Usual ==
    /\ nextId' = nextId
    /\ log'.finishes = log.finishes /\ log'.av = log.av
    /\ log'.audioEnded = log.audioEnded /\ log'.pictureEnded = log.pictureEnded
    /\ Gone \subseteq Gone'
    /\ \/ cues' = cues /\ video'.q = video.q /\ video'.id = video.id /\ video'.audio = video.audio
       \/ video'.id = 0 /\ (video.id # 0 => video.id \in Gone')
    /\ half' = half \/ (half' = 0 /\ video'.id = 0)
    /\ Unfinished' \subseteq Unfinished

LEMMA UsualKeeps ==
  ASSUME TypeInv, FinishInv, BothInv, Usual
  PROVE  FinishInv' /\ BothInv'
<1>0. /\ half' = half \/ half' = 0
      /\ log'.finishes = log.finishes /\ log'.av = log.av /\ nextId' = nextId
      /\ log'.audioEnded = log.audioEnded /\ Gone \subseteq Gone'
      /\ Unfinished' \subseteq Unfinished
  BY DEF Usual
<1>1. CASE cues' = cues /\ video'.q = video.q /\ video'.id = video.id /\ video'.audio = video.audio
  <2>1. PictureEndsOnItsOwn(video)' <=> PictureEndsOnItsOwn(video)
    BY <1>1 DEF PictureEndsOnItsOwn
  <2>2. FinishInv'
    BY <1>0, <1>1, <2>1 DEF FinishInv
  <2>3. BothInv'
    BY <1>0, <1>1, <2>1 DEF BothInv
  <2> QED
    BY <2>2, <2>3
<1>2. CASE video'.id = 0 /\ (video.id # 0 => video.id \in Gone')
  <2>0. nextId \in Nat
    BY TypedLog
  <2>1. 0 \notin log.av
    BY <2>0 DEF BothInv
  <2>2. FinishInv'
    BY <1>0, <1>2 DEF FinishInv
  <2>3. BothInv'
    BY <1>0, <1>2, <2>1 DEF BothInv
  <2> QED
    BY <2>2, <2>3
<1> QED
  BY <1>1, <1>2 DEF Usual

\* The steps of which there is more to say.
Unusual ==
    \/ nextId' # nextId
    \/ FinishAudioHalf \/ FinishCue
    \/ \E s \in streams : VideoEofEnds(s) \/ VideoFailed(s)

LEMMA UsualSteps ==
  ASSUME TypeInv, [Next]_vars, ~Unusual
  PROVE  Usual
<1>0. /\ log \in LogType /\ video.id \in Nat /\ nextId \in Nat
      /\ log.audioEnded \in SUBSET Nat /\ log.stopped \in SUBSET Nat
      /\ Ids \subseteq 1 .. nextId - 1 /\ (video # NoVideo <=> video.id # 0)
      /\ ClockInv /\ ActivePart /\ PicturePart /\ ListPart /\ AgendaPart
  BY TypedLog DEF TypeInv, LogType
<1>1. nextId' = nextId /\ Unfinished' \subseteq Unfinished
  BY <1>0, UnfinishedFrom DEF Unusual
<1>2. ~PlayVideo
  <2>1. ASSUME PlayVideo PROVE FALSE
    <3>1. \E id \in {nextId, nextId + 1} : nextId' = id + 1
      BY <1>0, <2>1, NewPicture
    <3> QED
      BY <1>0, <1>1, <3>1
  <2> QED
    BY <2>1
<1> DEFINE Same(r) == /\ r.finishes = log.finishes /\ r.av = log.av
                      /\ r.audioEnded = log.audioEnded
                      /\ r.pictureEnded = log.pictureEnded
             Kept == Same(log') /\ log'.pictureCut = log.pictureCut
             Lost == Same(log') /\ log'.pictureCut = log.pictureCut \cup ({video.id} \ {0})
<1>3. log' = log \/ log' = [log EXCEPT !.quiet = FALSE] => Kept
  BY <1>0 DEF LogType
<1>4. log' = Cut(log) => Lost
  BY <1>0, CutWritten
<1>5. PlayStopAll \/ Stop \/ ChangeProject => Lost
  <2>1. /\ Silenced = [Cut(log) EXCEPT !.stopped = log.stopped \cup Ids]
    BY <1>0, CutWritten DEF Silenced
  <2>2. /\ Same(Silenced) /\ Silenced.pictureCut = log.pictureCut \cup ({video.id} \ {0})
        /\ Same([Silenced EXCEPT !.quiet = TRUE])
        /\ [Silenced EXCEPT !.quiet = TRUE].pictureCut = log.pictureCut \cup ({video.id} \ {0})
    BY <1>0, <2>1, CutWritten DEF LogType
  <2> QED
    BY <2>2 DEF PlayStopAll, Stop, ChangeProject
<1>6. PlayImage => Lost
  BY <1>4 DEF PlayImage
<1>7. PlayStopTarget => Lost \/ (Kept /\ video' = video)
  BY <1>3, <1>4 DEF PlayStopTarget, StopTarget
<1>8. Kept \/ (PlayImage \/ PlayStopTarget \/ PlayStopAll \/ Stop \/ ChangeProject)
  <2>1. ~\E quiet \in {log.quiet, FALSE} : nextId' = nextId + 1
    BY <1>0, <1>1
  <2> QED
    BY <1>1, <1>2, <1>3, <2>1, LogTouched DEF Unusual
<1> HIDE DEF Kept, Lost
<1>9. Kept \/ Lost
  BY <1>5, <1>6, <1>7, <1>8
<1>10. \/ (video' = video \/ GoesOn) /\ cues' = cues
       \/ video' = NoVideo /\ (Lost \/ video = NoVideo)
  <2>1. CASE Goes
    <3>1. video' = NoVideo /\ (PlayImage \/ PlayStopTarget \/ PlayStopAll \/ Stop \/ ChangeProject)
      BY <2>1 DEF Goes, Unusual
    <3> QED
      BY <1>5, <1>6, <1>7, <3>1
  <2>2. CASE ChangeProject
    <3>1. video' = NoVideo
      BY <2>2 DEF ChangeProject, StopAll, ClearAllButAudio
    <3> QED
      BY <1>5, <2>2, <3>1
  <2>3. CASE ~Goes /\ ~ChangeProject
    <3>1. cues' = cues
      BY <2>3, Touched
    <3>2. video' = video \/ GoesOn
      BY <1>0, <1>2, <2>3, VideoTouched
    <3> QED
      BY <3>1, <3>2
  <2> QED
    BY <2>1, <2>2, <2>3
<1>11. half' = half \/ (half' = 0 /\ video' = NoVideo)
  BY Touched DEF Unusual, PlayStopTarget, StopTarget, PlayStopAll, Stop, ChangeProject,
     StopAll, FadeAll, ClearAllButAudio
<1>12. /\ log'.finishes = log.finishes /\ log'.av = log.av
       /\ log'.audioEnded = log.audioEnded /\ log'.pictureEnded = log.pictureEnded
       /\ Gone \subseteq Gone'
  BY <1>9 DEF Kept, Lost, Gone
<1>13. Lost => (video.id # 0 => video.id \in Gone')
  BY DEF Lost, Gone
<1>14. NoVideo.id = 0
  BY DEF NoVideo
<1> QED
  BY <1>0, <1>1, <1>10, <1>11, <1>12, <1>13, <1>14 DEF Usual, GoesOn

\* The history of an instance that finishes.
LEMMA FinishedLog ==
  ASSUME TypeInv, NEW id \in 1 .. nextId - 1
  PROVE  /\ Finished(log, id) \in LogType
         /\ Finished(log, id).finishes \in [1 .. nextId - 1 -> Nat]
         /\ Finished(log, id).finishes[id] = log.finishes[id] + 1
         /\ \A i \in 1 .. nextId - 1 : i # id => Finished(log, id).finishes[i] = log.finishes[i]
         /\ Finished(log, id).av = log.av /\ Finished(log, id).audioEnded = log.audioEnded
         /\ Finished(log, id).pictureEnded = log.pictureEnded
         /\ Finished(log, id).pictureCut = log.pictureCut
         /\ Finished(log, id).chained = log.chained
<1>0. /\ log \in LogType /\ nextId \in Nat /\ log.finishes \in [1 .. nextId - 1 -> Nat] /\ id \in Nat
  BY TypedLog
<1>1. Finished(log, id) \in LogType
      /\ Finished(log, id) = [log EXCEPT !.finishes = [log.finishes EXCEPT ![id] = @ + 1]]
  BY <1>0, FinishWritten
<1>2. /\ Finished(log, id).finishes = [log.finishes EXCEPT ![id] = @ + 1]
      /\ Finished(log, id).av = log.av /\ Finished(log, id).audioEnded = log.audioEnded
      /\ Finished(log, id).pictureEnded = log.pictureEnded
      /\ Finished(log, id).pictureCut = log.pictureCut
      /\ Finished(log, id).chained = log.chained
  BY <1>0, <1>1 DEF LogType
<1> QED
  BY <1>0, <1>1, <1>2

\* The audio of a video cue ends before its picture.
LEMMA AudioHalfStep ==
  ASSUME TypeInv, ShapeInv, FinishInv, BothInv, [Next]_vars, FinishAudioHalf
  PROVE  FinishInv' /\ BothInv'
<1> DEFINE id == task.id
<1>0. /\ id \in ToFinish /\ id \notin ToFinish' /\ ToFinish' \subseteq ToFinish
      /\ Ids' = Ids \ {id} /\ id \in 1 .. nextId - 1
      /\ nextId' = nextId /\ cues' = cues /\ video' = video
  BY HandledOnce
<1>1. video.id = id /\ video.audio /\ PictureEndsOnItsOwn(video) /\ half' = id
  BY DEF FinishAudioHalf, IsAudioHalf
<1>2. /\ log'.finishes = log.finishes /\ log'.av = log.av /\ Gone' = Gone
      /\ log'.audioEnded = log.audioEnded \cup {id}
  BY TypedLog DEF FinishAudioHalf, LogType, Gone
<1> HIDE DEF id
<1>3. Unfinished' \subseteq Unfinished /\ id \notin Unfinished' /\ id \in Unfinished
  BY <1>0 DEF Unfinished
<1>4. PictureEndsOnItsOwn(video)'
  BY <1>0, <1>1 DEF PictureEndsOnItsOwn
<1>5. log.finishes[id] = 0
  BY <1>3 DEF FinishInv
<1>6. FinishInv'
  BY <1>0, <1>1, <1>2, <1>3, <1>5 DEF FinishInv
<1>7. BothInv'
  BY <1>0, <1>1, <1>2, <1>4 DEF BothInv
<1> QED
  BY <1>6, <1>7

\* A cue finishes with its audio.
LEMMA FinishStep ==
  ASSUME TypeInv, ShapeInv, FinishInv, BothInv, [Next]_vars, FinishCue
  PROVE  FinishInv' /\ BothInv'
<1> DEFINE id == task.id
<1>0. /\ id \in ToFinish /\ id \notin ToFinish' /\ ToFinish' \subseteq ToFinish
      /\ Ids' = Ids \ {id} /\ id \in 1 .. nextId - 1
      /\ nextId' = nextId /\ cues' = cues /\ video' = video
  BY HandledOnce
<1>1. /\ IsAudioHalf(id) => half = id
      /\ half' = IF half = id THEN 0 ELSE half
  BY DEF FinishCue
<1>2. /\ log'.finishes = Finished(log, id).finishes /\ log'.av = log.av /\ Gone' = Gone
      /\ log'.audioEnded = log.audioEnded \cup {id}
  <2> DEFINE r == Finished(log, id)
  <2>1. /\ r \in LogType /\ r.av = log.av /\ r.audioEnded = log.audioEnded
        /\ r.pictureEnded = log.pictureEnded /\ r.pictureCut = log.pictureCut
    BY <1>0, FinishedLog
  <2>2. log' = [r EXCEPT !.audioEnded = @ \cup {id},
                         !.chained = IF task.follow THEN @ \cup {id} ELSE @]
    BY DEF FinishCue
  <2> HIDE DEF r, id
  <2>3. /\ log'.finishes = r.finishes /\ log'.av = r.av /\ log'.audioEnded = r.audioEnded \cup {id}
        /\ log'.pictureEnded = r.pictureEnded /\ log'.pictureCut = r.pictureCut
    BY <2>1, <2>2 DEF LogType
  <2> QED
    BY <2>1, <2>3 DEF Gone, r
<1> HIDE DEF id
<1>3. Unfinished' \subseteq Unfinished /\ id \notin Unfinished' /\ id \in Unfinished
  BY <1>0 DEF Unfinished
<1>4. PictureEndsOnItsOwn(video)' <=> PictureEndsOnItsOwn(video)
  BY <1>0 DEF PictureEndsOnItsOwn
<1>5. log.finishes[id] = 0
  BY <1>3 DEF FinishInv
<1> DEFINE f == Finished(log, id).finishes
<1>6. f[id] = 1 /\ \A i \in 1 .. nextId - 1 : i # id => f[i] = log.finishes[i]
  BY <1>0, <1>5, FinishedLog
<1>7. /\ half \in 0 .. nextId - 1 /\ video.id \in 0 .. nextId - 1 /\ id # 0 /\ nextId \in Nat
      /\ Unfinished \subseteq 1 .. nextId - 1 /\ video.audio \in BOOLEAN
  BY <1>0, TypedLog
<1>8. video.id = id => video.audio /\ ~PictureEndsOnItsOwn(video)
  <2>1. video.id = id => half # id
    BY <1>3, <1>7 DEF FinishInv
  <2>2. video.id = id => video.audio
    BY <1>3, <1>7 DEF FinishInv
  <2> QED
    BY <1>1, <2>1, <2>2 DEF IsAudioHalf
<1> HIDE DEF f
<1>9. log'.finishes = f
  BY <1>2 DEF f
<1>10. FinishInv'
  <2>1. \A i \in 1 .. nextId - 1 : f[i] <= 1
    BY <1>6 DEF FinishInv
  <2>2. \A i \in Unfinished' : f[i] = 0
    BY <1>3, <1>6, <1>7 DEF FinishInv
  <2>3. half' # 0 => f[half'] = 0
    <3>1. half' # 0 => half' = half /\ half # id /\ half \in 1 .. nextId - 1
      BY <1>1, <1>7
    <3> QED
      BY <1>6, <3>1 DEF FinishInv
  <2>4. video.id # 0 /\ (video.audio => PictureEndsOnItsOwn(video)) => f[video.id] = 0
    <3>1. video.id # 0 => video.id \in 1 .. nextId - 1
      BY <1>7
    <3> QED
      BY <1>6, <1>8, <3>1 DEF FinishInv
  <2>5. video.id # 0 /\ ~video.audio => video.id \notin Unfinished' /\ half' # video.id
    BY <1>1, <1>3 DEF FinishInv
  <2>6. video.id # 0 /\ half' = video.id => half' \notin Unfinished' /\ half' \in log'.audioEnded
    BY <1>1, <1>2, <1>3 DEF FinishInv
  <2> QED
    BY <1>0, <1>4, <1>9, <2>1, <2>2, <2>3, <2>4, <2>5, <2>6 DEF FinishInv
<1>11. BothInv'
  <2>1. \A i \in log.av : f[i] = 1 => i \in log'.audioEnded \cap Gone
    <3> SUFFICES ASSUME NEW i \in log.av, f[i] = 1 PROVE i \in log'.audioEnded \cap Gone
      OBVIOUS
    <3>1. i \in 1 .. nextId - 1
      BY DEF BothInv
    <3>2. CASE i # id
      BY <1>2, <1>6, <3>1, <3>2 DEF BothInv
    <3>3. CASE i = id
      <4>1. video.id # id
        BY <1>8, <3>3 DEF BothInv
      <4>2. id \in Gone
        BY <3>3, <4>1 DEF BothInv
      <4> QED
        BY <1>2, <3>3, <4>2
    <3> QED
      BY <3>2, <3>3
  <2> QED
    BY <1>0, <1>2, <1>4, <1>9, <2>1 DEF BothInv
<1> QED
  BY <1>10, <1>11

\* A picture that ends on its own, or fails, is gone; the cue finishes with it
\* when its audio has ended before or it has none.
LEMMA PictureStep ==
  ASSUME TypeInv, ShapeInv, FinishInv, BothInv, [Next]_vars,
         NEW s \in streams, VideoEofEnds(s) \/ VideoFailed(s)
  PROVE  FinishInv' /\ BothInv'
<1> DEFINE id == video.id
           ends == ~video.audio \/ (VideoEofEnds(s) /\ half = id)
<1>0. /\ log \in LogType /\ nextId \in Nat /\ id \in 0 .. nextId - 1 /\ half \in 0 .. nextId - 1
      /\ video.audio \in BOOLEAN /\ (video # NoVideo <=> id # 0)
      /\ Unfinished \subseteq 1 .. nextId - 1
      /\ log.finishes \in [1 .. nextId - 1 -> Nat]
  BY TypedLog
<1>1. nextId' = nextId /\ cues' = cues /\ Ids' = Ids
  BY DEF VideoEofEnds, VideoFailed, playing, fixed, Ids
<1>2. Unfinished' \subseteq Unfinished
  BY <1>1, ToFinishFrom DEF Unfinished
<1>3. CASE VideoFailed(s) /\ ~IsCurrent(s)
  <2>1. video' = video /\ log' = log /\ half' = half
    BY <1>3 DEF VideoFailed
  <2>2. Usual
    BY <1>1, <1>2, <2>1 DEF Usual, Gone
  <2> QED
    BY <2>2, UsualKeeps
<1>4. CASE ~(VideoFailed(s) /\ ~IsCurrent(s))
  <2>1. /\ video' = NoVideo /\ video # NoVideo /\ id # 0
        /\ VideoEofEnds(s) => PictureEndsOnItsOwn(video)
    BY <1>0, <1>4 DEF VideoEofEnds, VideoFailed, IsCurrent
  <2>2. id \in 1 .. nextId - 1
    BY <1>0, <2>1
  <2> DEFINE r == IF ends THEN Finished(log, id) ELSE log
  <2>3. log' = [r EXCEPT !.pictureEnded = @ \cup {id}]
    <3>1. CASE VideoFailed(s)
      <4>1. CASE VideoEofEnds(s)
        \* Both are steps of the same report, and write the same.
        <5>1. log' = [(IF video.audio => half = video.id THEN Finished(log, video.id) ELSE log) EXCEPT
                        !.pictureEnded = @ \cup {video.id}]
          BY <4>1 DEF VideoEofEnds
        <5>2. ends <=> (video.audio => half = video.id)
          BY <1>0, <4>1
        <5> QED
          BY <5>1, <5>2, Zenon
      <4>2. CASE ~VideoEofEnds(s)
        <5>1. log' = [(IF video.audio THEN log ELSE Finished(log, video.id)) EXCEPT
                        !.pictureEnded = @ \cup {video.id}]
          BY <1>4, <3>1 DEF VideoFailed
        <5>2. ends <=> ~video.audio
          BY <4>2
        <5> QED
          BY <5>1, <5>2, Zenon
      <4> QED
        BY <4>1, <4>2
    <3>2. CASE VideoEofEnds(s)
      <4>1. log' = [(IF video.audio => half = video.id THEN Finished(log, video.id) ELSE log) EXCEPT
                        !.pictureEnded = @ \cup {video.id}]
        BY <3>2 DEF VideoEofEnds
      <4>2. ends <=> (video.audio => half = video.id)
        BY <1>0, <3>2
      <4> QED
        BY <4>1, <4>2, Zenon
    <3> QED
      BY <3>1, <3>2
  <2>4. half' = IF VideoEofEnds(s) /\ video.audio THEN (IF half = id THEN 0 ELSE id) ELSE half
    <3>1. CASE VideoEofEnds(s)
      <4>1. half' = IF ~video.audio THEN half
                    ELSE IF video.audio => half = video.id THEN 0 ELSE video.id
        BY <3>1 DEF VideoEofEnds
      <4> QED
        BY <1>0, <3>1, <4>1
    <3>2. CASE ~VideoEofEnds(s)
      BY <3>2 DEF VideoFailed
    <3> QED
      BY <3>1, <3>2
  <2>5. /\ r \in LogType /\ r.av = log.av /\ r.audioEnded = log.audioEnded
        /\ r.pictureEnded = log.pictureEnded /\ r.pictureCut = log.pictureCut
        /\ \A i \in 1 .. nextId - 1 : i # id => r.finishes[i] = log.finishes[i]
        /\ r.finishes[id] = IF ends THEN log.finishes[id] + 1 ELSE log.finishes[id]
    <3>1. CASE ends
      <4>1. r = Finished(log, id)
        BY <3>1, Zenon
      <4> HIDE DEF ends, r
      <4> QED
        BY <2>2, <3>1, <4>1, FinishedLog
    <3>2. CASE ~ends
      <4>1. r = log
        BY <3>2, Zenon
      <4> HIDE DEF ends, r
      <4> QED
        BY <1>0, <3>2, <4>1
    <3> QED
      BY <3>1, <3>2
  <2> HIDE DEF r
  <2>6. /\ log'.finishes = r.finishes /\ log'.av = log.av /\ log'.audioEnded = log.audioEnded
        /\ Gone' = Gone \cup {id}
    <3>1. /\ log'.finishes = r.finishes /\ log'.av = r.av /\ log'.audioEnded = r.audioEnded
          /\ log'.pictureEnded = r.pictureEnded \cup {id} /\ log'.pictureCut = r.pictureCut
      BY <2>3, <2>5 DEF LogType
    <3> QED
      BY <2>5, <3>1 DEF Gone
  <2>7. ends => /\ log.finishes[id] = 0 /\ id \notin Unfinished /\ half' # id
    BY <2>1, <2>4 DEF FinishInv
  <2>8. ends /\ id \in log.av => id \in log.audioEnded
    <3>1. id \in log.av => video.audio
      BY DEF BothInv
    <3> QED
      BY <2>1, <3>1 DEF FinishInv
  <2>9. ~ends => log.finishes[id] <= 1 /\ (half' # half => half' = id /\ log.finishes[id] = 0)
    BY <2>1, <2>2, <2>4 DEF FinishInv
  <2> HIDE DEF ends
  <2>10. video'.id = 0
    BY <2>1 DEF NoVideo
  <2>11. FinishInv'
    <3>1. \A i \in 1 .. nextId - 1 : r.finishes[i] <= 1
      BY <2>5, <2>7, <2>9 DEF FinishInv
    <3>2. \A i \in Unfinished' : r.finishes[i] = 0
      <4> SUFFICES ASSUME NEW i \in Unfinished' PROVE r.finishes[i] = 0
        OBVIOUS
      <4>1. i \in Unfinished /\ i \in 1 .. nextId - 1 /\ log.finishes[i] = 0
        BY <1>0, <1>2 DEF FinishInv
      <4> QED
        BY <2>5, <2>7, <4>1
    <3>3. half' # 0 => r.finishes[half'] = 0
      <4>1. CASE half' = id
        <5>1. ~ends
          BY <2>7, <4>1
        <5>2. log.finishes[id] = 0
          BY <1>0, <2>1, <2>9, <4>1, <5>1 DEF FinishInv
        <5> QED
          BY <2>5, <4>1, <5>1, <5>2
      <4>2. CASE half' # id /\ half' # 0
        <5>1. half' = half /\ half \in 1 .. nextId - 1
          BY <1>0, <2>4, <4>2
        <5> QED
          BY <2>5, <4>2, <5>1 DEF FinishInv
      <4> QED
        BY <4>1, <4>2
    <3> QED
      BY <1>1, <2>6, <2>10, <3>1, <3>2, <3>3 DEF FinishInv
  <2>12. BothInv'
    <3>1. 0 \notin log.av
      BY <1>0 DEF BothInv
    <3>2. \A i \in log.av : i \in Gone \cup {id}
      BY DEF BothInv
    <3>3. \A i \in log.av : r.finishes[i] = 1 => i \in log.audioEnded
      <4> SUFFICES ASSUME NEW i \in log.av, r.finishes[i] = 1 PROVE i \in log.audioEnded
        OBVIOUS
      <4>1. i \in 1 .. nextId - 1
        BY DEF BothInv
      <4>2. CASE i # id
        BY <2>5, <4>1, <4>2 DEF BothInv
      <4>3. CASE i = id /\ ends
        BY <2>8, <4>3
      <4>4. CASE i = id /\ ~ends
        BY <2>5, <4>4 DEF BothInv
      <4> QED
        BY <4>2, <4>3, <4>4
    <3> QED
      BY <1>1, <2>6, <2>10, <3>1, <3>2, <3>3 DEF BothInv
  <2> QED
    BY <2>11, <2>12
<1> QED
  BY <1>3, <1>4

\* A step that starts an instance, a picture or both under the new id i.
Starting(i) ==
    /\ i \in Nat /\ i >= nextId /\ nextId' = i + 1 /\ cues' = cues /\ half' = half
    /\ \A id \in 1 .. i :
         log'.finishes[id] = IF id < nextId THEN log.finishes[id] ELSE 0
    /\ log'.audioEnded = log.audioEnded /\ log'.pictureEnded = log.pictureEnded
    /\ Gone \subseteq Gone'
    /\ Unfinished' \subseteq Unfinished \cup {i}
    /\ \/ video' = video /\ log'.av = log.av
       \/ /\ video'.id = i /\ (video.id # 0 => video.id \in Gone')
          /\ video'.audio \in BOOLEAN
          /\ ~video'.audio => Unfinished' \subseteq Unfinished
          /\ log'.av \subseteq log.av \cup {i}
          /\ i \in log'.av => video'.audio /\ PictureEndsOnItsOwn(video')

LEMMA StartingKeeps ==
  ASSUME TypeInv, FinishInv, BothInv, NEW i, Starting(i)
  PROVE  FinishInv' /\ BothInv'
<1>0. /\ nextId \in Nat \ {0} /\ half \in 0 .. nextId - 1 /\ video.id \in 0 .. nextId - 1
      /\ Unfinished \subseteq 1 .. nextId - 1
  BY TypedLog
<1>1. /\ i \in Nat /\ i >= nextId /\ nextId' = i + 1 /\ cues' = cues /\ half' = half
      /\ nextId' - 1 = i /\ i # 0
      /\ log'.audioEnded = log.audioEnded /\ Gone \subseteq Gone'
      /\ Unfinished' \subseteq Unfinished \cup {i}
  BY <1>0 DEF Starting
<1> DEFINE f == log'.finishes
<1>2. \A id \in 1 .. i : f[id] = IF id < nextId THEN log.finishes[id] ELSE 0
  BY DEF Starting
<1>3. \A id \in 1 .. nextId - 1 : id \in 1 .. i /\ id < nextId /\ id # i
  BY <1>0, <1>1
<1>4. i \in 1 .. i /\ ~(i < nextId)
  BY <1>0, <1>1
<1> HIDE DEF f
<1>5. f[i] = 0 /\ \A id \in 1 .. nextId - 1 : f[id] = log.finishes[id]
  BY <1>2, <1>3, <1>4
<1>6. \A id \in 1 .. i : f[id] <= 1
  <2> TAKE id \in 1 .. i
  <2>1. CASE id < nextId
    <3>1. id \in 1 .. nextId - 1
      BY <1>0, <2>1
    <3> QED
      BY <1>5, <3>1 DEF FinishInv
  <2>2. CASE ~(id < nextId)
    BY <1>2, <2>2
  <2> QED
    BY <2>1, <2>2
<1>7. \A id \in Unfinished' : f[id] = 0
  <2> SUFFICES ASSUME NEW id \in Unfinished' PROVE f[id] = 0
    OBVIOUS
  <2>1. CASE id = i
    BY <1>5, <2>1
  <2>2. CASE id # i
    <3>1. id \in Unfinished /\ id \in 1 .. nextId - 1
      BY <1>0, <1>1, <2>2
    <3> QED
      BY <1>5, <3>1 DEF FinishInv
  <2> QED
    BY <2>1, <2>2
<1>8. half # i /\ (half # 0 => f[half] = 0)
  <2>1. half # 0 => half \in 1 .. nextId - 1
    BY <1>0
  <2>2. half # i
    BY <1>0, <1>1
  <2> QED
    BY <1>5, <2>1, <2>2 DEF FinishInv
<1>9. \A id \in log.av : id \in 1 .. nextId - 1 /\ id \in 1 .. i /\ id # i
  BY <1>3 DEF BothInv
<1>10. \A id \in log.av : f[id] = 1 => id \in log.audioEnded \cap Gone
  BY <1>5, <1>9 DEF BothInv
<1>11. log'.finishes = f
  BY DEF f
<1>12. CASE video' = video /\ log'.av = log.av
  <2>1. PictureEndsOnItsOwn(video)' <=> PictureEndsOnItsOwn(video)
    BY <1>1, <1>12 DEF PictureEndsOnItsOwn
  <2>2. video.id # i /\ (video.id # 0 => video.id \in 1 .. nextId - 1)
    BY <1>0, <1>1
  <2>3. video.id # 0 => f[video.id] = log.finishes[video.id]
    BY <1>5, <2>2
  <2>4. FinishInv'
    <3>1. video.id # 0 /\ (video.audio => PictureEndsOnItsOwn(video)) => f[video.id] = 0
      BY <2>3 DEF FinishInv
    <3>2. video.id # 0 /\ ~video.audio => video.id \notin Unfinished' /\ half # video.id
      BY <1>1, <2>2 DEF FinishInv
    <3>3. video.id # 0 /\ half = video.id => half \notin Unfinished' /\ half \in log.audioEnded
      BY <1>1, <2>2 DEF FinishInv
    <3> QED
      BY <1>1, <1>6, <1>7, <1>8, <1>11, <1>12, <2>1, <3>1, <3>2, <3>3 DEF FinishInv
  <2>5. BothInv'
    <3>1. \A id \in log.av : video.id = id \/ id \in Gone
      BY DEF BothInv
    <3>2. video.id \in log.av => video.audio /\ PictureEndsOnItsOwn(video)
      BY DEF BothInv
    <3>3. log.av \subseteq 1 .. i
      BY <1>9
    <3> QED
      BY <1>1, <1>10, <1>11, <1>12, <2>1, <3>1, <3>2, <3>3 DEF BothInv
  <2> QED
    BY <2>4, <2>5
<1>13. CASE /\ video'.id = i /\ (video.id # 0 => video.id \in Gone')
            /\ video'.audio \in BOOLEAN
            /\ ~video'.audio => Unfinished' \subseteq Unfinished
            /\ log'.av \subseteq log.av \cup {i}
            /\ i \in log'.av => video'.audio /\ PictureEndsOnItsOwn(video')
  <2>1. i \notin Unfinished
    BY <1>0, <1>1
  <2>2. PictureEndsOnItsOwn(video') <=> PictureEndsOnItsOwn(video)'
    BY <1>1 DEF PictureEndsOnItsOwn
  <2>3. FinishInv'
    BY <1>1, <1>5, <1>6, <1>7, <1>8, <1>11, <1>13, <2>1 DEF FinishInv
  <2>4. BothInv'
    <3>1. log'.av \subseteq 1 .. i
      BY <1>4, <1>9, <1>13
    <3>2. \A id \in log'.av : f[id] = 1 => id \in log.audioEnded \cap Gone'
      BY <1>1, <1>5, <1>10, <1>13
    <3>3. \A id \in log'.av : i = id \/ id \in Gone'
      <4> SUFFICES ASSUME NEW id \in log'.av, id # i PROVE id \in Gone'
        OBVIOUS
      <4>1. id \in log.av /\ id \in 1 .. nextId - 1
        BY <1>9, <1>13
      <4>2. video.id = id \/ id \in Gone
        BY <4>1 DEF BothInv
      <4>3. id # 0
        BY <4>1
      <4> QED
        BY <1>1, <1>13, <4>2, <4>3
    <3> QED
      BY <1>1, <1>11, <1>13, <2>2, <3>1, <3>2, <3>3 DEF BothInv
  <2> QED
    BY <2>3, <2>4
<1> QED
  BY <1>12, <1>13 DEF Starting

LEMMA SoundStarting ==
  ASSUME TypeInv, [Next]_vars, Preload \/ PlaySound, nextId' # nextId
  PROVE  Starting(nextId)
<1>0. /\ log \in LogType /\ nextId \in Nat \ {0} /\ log.finishes \in Seq(Nat)
      /\ Len(log.finishes) = nextId - 1 /\ log.quiet \in BOOLEAN
  BY TypedLog DEF LogType
<1>1. /\ video' = video /\ half' = half /\ cues' = cues /\ nextId' = nextId + 1
      /\ \E quiet \in BOOLEAN : log' = [log EXCEPT !.finishes = Append(@, 0), !.quiet = quiet]
  <2>1. CASE Preload
    BY <2>1 DEF Preload, pictures, fixed
  <2>2. CASE PlaySound
    <3>1. log' = [log EXCEPT !.finishes = Append(@, 0)]
      BY <2>2 DEF PlaySound
    <3>2. log' = [log EXCEPT !.finishes = Append(@, 0), !.quiet = log.quiet]
      BY <1>0, <3>1 DEF LogType
    <3> QED
      BY <1>0, <2>2, <3>2 DEF PlaySound, pictures, fixed
  <2> QED
    BY <2>1, <2>2
<1>2. /\ log'.finishes = Append(log.finishes, 0) /\ log'.av = log.av
      /\ log'.audioEnded = log.audioEnded /\ log'.pictureEnded = log.pictureEnded
      /\ Gone' = Gone
  BY <1>0, <1>1 DEF LogType, Gone
<1>3. \A id \in 1 .. nextId :
        log'.finishes[id] = IF id < nextId THEN log.finishes[id] ELSE 0
  BY <1>0, <1>2
<1>4. Unfinished' \subseteq Unfinished \cup {nextId}
  <2>1. \/ Unfinished' \subseteq Unfinished
        \/ \E i \in 1 .. nextId' - 1 : nextId' = i + 1 /\ Unfinished' \subseteq Unfinished \cup {i}
    BY UnfinishedFrom
  <2>2. \A i \in 1 .. nextId' - 1 : nextId' = i + 1 => i = nextId
    BY <1>0, <1>1
  <2> QED
    BY <2>1, <2>2
<1> QED
  BY <1>0, <1>1, <1>2, <1>3, <1>4 DEF Starting

LEMMA PictureStarting ==
  ASSUME TypeInv, BothInv, [Next]_vars, PlayVideo
  PROVE  \E i : Starting(i)
<1>0. /\ log \in LogType /\ nextId \in Nat \ {0} /\ log.finishes \in Seq(Nat)
      /\ Len(log.finishes) = nextId - 1 /\ video.id \in Nat
      /\ ListPart /\ ActivePart /\ AgendaPart
  BY TypedLog DEF LogType, TypeInv
<1>1. PICK i \in {nextId, nextId + 1} :
            /\ nextId' = i + 1 /\ cues' = cues /\ task.q \in Qids(cues)
            /\ video'.q = task.q /\ video'.id = i /\ video'.epoch = 1
            /\ video'.audio = (~cue.mtc /\ cue.audio > 0)
            /\ (i = nextId + 1 <=> video'.audio)
            /\ active' = IF video'.audio THEN Started(i, task.q, FALSE) ELSE active
            /\ log' = [Cut(log) EXCEPT
                    !.finishes = @ \o IF video'.audio THEN <<0, 0>> ELSE <<0>>,
                    !.av = IF video'.audio /\ PictureEndsOnItsOwn(video')
                           THEN @ \cup {i} ELSE @]
            /\ half' = half
  BY <1>0, NewPicture
<1>2. i \in Nat /\ i >= nextId
  BY <1>0, <1>1
<1>3. video'.audio \in BOOLEAN
  BY <1>1
<1> DEFINE new == IF video'.audio THEN <<0, 0>> ELSE <<0>>
           own == IF video'.audio /\ PictureEndsOnItsOwn(video') THEN log.av \cup {i} ELSE log.av
<1>4. /\ Cut(log) \in LogType /\ Cut(log).finishes = log.finishes /\ Cut(log).av = log.av
      /\ Cut(log).audioEnded = log.audioEnded /\ Cut(log).pictureEnded = log.pictureEnded
      /\ Cut(log).pictureCut = log.pictureCut \cup ({video.id} \ {0})
  BY <1>0, CutWritten
<1>5. log' = [Cut(log) EXCEPT !.finishes = log.finishes \o new, !.av = own]
  BY <1>1, <1>4
<1>6. Len(new) = i - nextId + 1 /\ new \in Seq(Nat) /\ \A n \in 1 .. Len(new) : new[n] = 0
  <2>1. CASE video'.audio
    <3>1. new = <<0, 0>> /\ i = nextId + 1
      BY <1>1, <2>1
    <3> HIDE DEF new
    <3> QED
      BY <1>0, <3>1
  <2>2. CASE ~video'.audio
    <3>1. new = <<0>> /\ i = nextId
      BY <1>1, <2>2
    <3> HIDE DEF new
    <3> QED
      BY <1>0, <3>1
  <2> QED
    BY <2>1, <2>2
<1>7. own \subseteq log.av \cup {i} /\ (i \in own /\ i \notin log.av => video'.audio /\ PictureEndsOnItsOwn(video'))
  OBVIOUS
<1> HIDE DEF new, own
<1>8. /\ log'.finishes = log.finishes \o new /\ log'.av = own
      /\ log'.audioEnded = log.audioEnded
      /\ log'.pictureEnded = log.pictureEnded
      /\ log'.pictureCut = log.pictureCut \cup ({video.id} \ {0})
  BY <1>4, <1>5 DEF LogType
<1>9. \A id \in 1 .. i : log'.finishes[id] = IF id < nextId THEN log.finishes[id] ELSE 0
  <2> TAKE id \in 1 .. i
  <2>1. /\ \A n \in 1 .. Len(log.finishes) + Len(new) :
             (log.finishes \o new)[n] = IF n <= Len(log.finishes) THEN log.finishes[n]
                                        ELSE new[n - Len(log.finishes)]
    BY <1>0, <1>6, ConcatProperties, SMTT(30)
  <2>2. /\ id \in 1 .. Len(log.finishes) + Len(new)
        /\ id <= Len(log.finishes) <=> id < nextId
        /\ ~(id < nextId) => id - Len(log.finishes) \in 1 .. Len(new)
    BY <1>0, <1>2, <1>6
  <2> QED
    BY <1>6, <1>8, <2>1, <2>2
<1>10. Gone \subseteq Gone' /\ (video.id # 0 => video.id \in Gone')
  BY <1>8 DEF Gone
<1>11. ToFinish' \subseteq ToFinish \cup Ids
  BY ToFinishFrom
<1>12. Ids' \subseteq Ids \cup {i} /\ (~video'.audio => Ids' = Ids)
  BY <1>1 DEF Started, Ids
<1>13. Unfinished' \subseteq Unfinished \cup {i} /\ (~video'.audio => Unfinished' \subseteq Unfinished)
  BY <1>11, <1>12 DEF Unfinished
<1>14. i \notin log.av
  <2>1. ~(i \in 1 .. nextId - 1)
    BY <1>0, <1>1
  <2> QED
    BY <2>1 DEF BothInv
<1> QED
  BY <1>1, <1>2, <1>3, <1>7, <1>8, <1>9, <1>10, <1>13, <1>14 DEF Starting

LEMMA NextFinish ==
  ASSUME TypeInv, ShapeInv, FinishInv, BothInv, [Next]_vars
  PROVE  FinishInv' /\ BothInv'
<1>1. CASE ~Unusual
  BY <1>1, UsualSteps, UsualKeeps
<1>2. CASE FinishAudioHalf
  BY <1>2, AudioHalfStep
<1>3. CASE FinishCue
  BY <1>3, FinishStep
<1>4. CASE \E s \in streams : VideoEofEnds(s) \/ VideoFailed(s)
  BY <1>4, PictureStep
<1>5. CASE PlayVideo
  BY <1>5, PictureStarting, StartingKeeps
<1>6. CASE nextId' # nextId /\ ~PlayVideo
  <2>1. Preload \/ PlaySound
    <3>1. /\ PlayImage \/ PlayStopTarget \/ PlayStopAll \/ Stop \/ ChangeProject => nextId' = nextId
          /\ FinishAudioHalf \/ FinishCue => nextId' = nextId
          /\ (\E s \in streams : VideoEofEnds(s) \/ VideoFailed(s)) => nextId' = nextId
      BY DEF PlayImage, PlayStopTarget, StopTarget, PlayStopAll, Stop, ChangeProject, StopAll,
         FadeAll, ClearAllButAudio, FinishAudioHalf, FinishCue, VideoEofEnds, VideoFailed, playing
    <3> QED
      BY <1>6, <3>1, LogTouched
  <2> QED
    BY <1>6, <2>1, SoundStarting, StartingKeeps
<1> QED
  BY <1>1, <1>2, <1>3, <1>4, <1>5, <1>6 DEF Unusual

LEMMA InitFinish == Init => FinishInv /\ BothInv
<1> SUFFICES ASSUME Init PROVE FinishInv /\ BothInv
  OBVIOUS
<1>1. Ids = {} /\ ToFinish = {} /\ 1 .. nextId - 1 = {} /\ video.id = 0 /\ half = 0 /\ log.av = {}
  BY DEF Init, NoInstances, Ids, ToFinish, NoVideo, NothingLogged
<1> QED
  BY <1>1 DEF FinishInv, BothInv, Unfinished

\* What happens on its own happens once: an instance finishes, and starts its
\* follow, at most once, a video cue not before both its halves have ended
\* (check_finished_cues, handle_video_eof), and check_timecodes fires a cue at
\* most once in a run of the show clock and leaves none out.
THEOREM FiresOnceCorrect == Spec => []FiresOnce
<1> DEFINE I == TypeInv /\ ShapeInv /\ CodesInv /\ FinishInv /\ BothInv
<1>1. Init => I
  BY InitTypes, InitShape, InitCodes, InitFinish
<1>2. I /\ [Next]_vars => I'
  BY NextTypes, NextShape, NextCodes, NextFinish
<1>3. I => FiresOnce
  BY CodesOnce, FinishedOnce DEF FiresOnce
<1> QED
  BY <1>1, <1>2, <1>3, PTL DEF Spec

-----------------------------------------------------------------------------
(* Both halves of a video cue *)

\* Where the one half of a video cue has ended, the other one knows.
HalvesInv ==
    /\ log.audioEnded \subseteq 1 .. nextId - 1 /\ log.pictureEnded \subseteq 1 .. nextId - 1
    /\ video.id \notin log.pictureEnded
    /\ video.id \in log.av \cap log.audioEnded => half = video.id
    /\ \A id \in log.av \cap log.audioEnded \cap log.pictureEnded : log.finishes[id] = 1

\* A picture fails after its audio has ended.
FailsLate == \E s \in streams : VideoFailed(s) /\ IsCurrent(s) /\ half = video.id

LEMMA NextHalves ==
  ASSUME TypeInv, ShapeInv, FinishInv, BothInv, HalvesInv, [Next]_vars, ~FailsLate
  PROVE  HalvesInv'
<1>0. /\ log \in LogType /\ nextId \in Nat \ {0} /\ video.id \in 0 .. nextId - 1
      /\ half \in 0 .. nextId - 1 /\ video.audio \in BOOLEAN
      /\ (video # NoVideo <=> video.id # 0) /\ log.finishes \in [1 .. nextId - 1 -> Nat]
      /\ Unfinished \subseteq 1 .. nextId - 1
  BY TypedLog
<1>a. 0 \notin log.av /\ 0 \notin log.pictureEnded
  BY <1>0 DEF BothInv, HalvesInv
<1>1. CASE Usual
  <2>1. /\ nextId' = nextId /\ log'.finishes = log.finishes /\ log'.av = log.av
        /\ log'.audioEnded = log.audioEnded /\ log'.pictureEnded = log.pictureEnded
        /\ video'.id = 0 \/ (video'.id = video.id /\ half' = half)
    BY <1>1 DEF Usual
  <2> QED
    BY <1>a, <2>1 DEF HalvesInv
<1>2. ASSUME NEW i, Starting(i) PROVE HalvesInv'
  <2>1. /\ i \in Nat /\ i >= nextId /\ nextId' = i + 1 /\ half' = half
        /\ log'.audioEnded = log.audioEnded /\ log'.pictureEnded = log.pictureEnded
    BY <1>2 DEF Starting
  <2>a. (video' = video /\ log'.av = log.av) \/ (video'.id = i /\ log'.av \subseteq log.av \cup {i})
    BY <1>2 DEF Starting
  <2>2. /\ 1 .. nextId - 1 \subseteq 1 .. nextId' - 1
        /\ i \notin 1 .. nextId - 1 /\ video.id # i
    BY <1>0, <2>1
  <2>3. i \notin log.audioEnded /\ i \notin log.pictureEnded
    BY <2>2 DEF HalvesInv
  <2>4. \A id \in log.av : log'.finishes[id] = log.finishes[id]
    <3> TAKE id \in log.av
    <3>1. id \in 1 .. nextId - 1
      BY DEF BothInv
    <3>2. id \in 1 .. i /\ id < nextId
      BY <1>0, <2>1, <3>1
    <3> QED
      BY <1>2, <3>2 DEF Starting
  <2>5. /\ log'.audioEnded \subseteq 1 .. nextId' - 1 /\ log'.pictureEnded \subseteq 1 .. nextId' - 1
    BY <2>1, <2>2 DEF HalvesInv
  <2>6. video'.id \notin log'.pictureEnded
    BY <2>1, <2>a, <2>3 DEF HalvesInv
  <2>7. video'.id \in log'.av \cap log'.audioEnded => half' = video'.id
    BY <2>1, <2>a, <2>3 DEF HalvesInv
  <2>8. \A id \in log'.av \cap log'.audioEnded \cap log'.pictureEnded : log'.finishes[id] = 1
    BY <2>1, <2>a, <2>3, <2>4 DEF HalvesInv
  <2> QED
    BY <2>5, <2>6, <2>7, <2>8 DEF HalvesInv
<1>3. CASE FinishAudioHalf
  <2> DEFINE id == task.id
  <2>1. id \in 1 .. nextId - 1 /\ nextId' = nextId /\ video' = video
    BY <1>3, HandledOnce
  <2>2. video.id = id /\ half' = id
    BY <1>3 DEF FinishAudioHalf, IsAudioHalf
  <2>3. /\ log'.finishes = log.finishes /\ log'.av = log.av
        /\ log'.pictureEnded = log.pictureEnded /\ log'.audioEnded = log.audioEnded \cup {id}
    BY <1>0, <1>3 DEF FinishAudioHalf, LogType
  <2> HIDE DEF id
  <2> QED
    BY <2>1, <2>2, <2>3 DEF HalvesInv
<1>4. CASE FinishCue
  <2> DEFINE id == task.id
             r == Finished(log, id)
  <2>1. id \in 1 .. nextId - 1 /\ nextId' = nextId /\ video' = video /\ id \in Unfinished
    BY <1>4, HandledOnce DEF Unfinished
  <2>2. /\ IsAudioHalf(id) => half = id
        /\ half' = IF half = id THEN 0 ELSE half
    BY <1>4 DEF FinishCue
  <2>3. log' = [r EXCEPT !.audioEnded = @ \cup {id},
                         !.chained = IF task.follow THEN @ \cup {id} ELSE @]
    BY <1>4 DEF FinishCue
  <2> HIDE DEF id, r
  <2>4. /\ r \in LogType /\ r.av = log.av /\ r.audioEnded = log.audioEnded
        /\ r.pictureEnded = log.pictureEnded
        /\ r.finishes[id] = log.finishes[id] + 1
        /\ \A i \in 1 .. nextId - 1 : i # id => r.finishes[i] = log.finishes[i]
    BY <2>1, FinishedLog DEF r
  <2>5. /\ log'.finishes = r.finishes /\ log'.av = log.av
        /\ log'.audioEnded = log.audioEnded \cup {id} /\ log'.pictureEnded = log.pictureEnded
    BY <2>3, <2>4 DEF LogType
  <2>6. log.finishes[id] = 0
    BY <2>1 DEF FinishInv
  <2>7. video.id = id => half # id
    BY <2>1 DEF FinishInv
  <2>8. id = video.id => id \notin log.av
    BY <2>2, <2>7 DEF BothInv, IsAudioHalf
  <2>9. half = id => video.id # id
    BY <2>7
  <2>10. video.id \in log.av \cap log'.audioEnded => half' = video.id
    BY <2>2, <2>5, <2>8, <2>9 DEF HalvesInv
  <2>11. \A i \in log.av \cap log'.audioEnded \cap log.pictureEnded : r.finishes[i] = 1
    <3> TAKE i \in log.av \cap log'.audioEnded \cap log.pictureEnded
    <3>1. CASE i = id
      BY <2>4, <2>6, <3>1
    <3>2. CASE i # id
      <4>1. i \in 1 .. nextId - 1 /\ i \in log.audioEnded
        BY <2>5, <3>2 DEF BothInv
      <4> QED
        BY <2>4, <3>2, <4>1 DEF HalvesInv
    <3> QED
      BY <3>1, <3>2
  <2>12. log'.audioEnded \subseteq 1 .. nextId - 1
    BY <2>1, <2>5 DEF HalvesInv
  <2> QED
    BY <2>1, <2>5, <2>10, <2>11, <2>12 DEF HalvesInv
<1>5. ASSUME NEW s \in streams, VideoEofEnds(s) PROVE HalvesInv'
  <2> DEFINE id == video.id
             ends == video.audio => half = id
             r == IF ends THEN Finished(log, id) ELSE log
  <2>1. /\ video' = NoVideo /\ id # 0 /\ nextId' = nextId
        /\ log' = [r EXCEPT !.pictureEnded = @ \cup {id}]
    BY <1>0, <1>5 DEF VideoEofEnds, IsCurrent, playing
  <2>2. id \in 1 .. nextId - 1
    BY <1>0, <2>1
  <2>3. /\ r \in LogType /\ r.av = log.av /\ r.audioEnded = log.audioEnded
        /\ r.pictureEnded = log.pictureEnded
        /\ \A i \in 1 .. nextId - 1 : i # id => r.finishes[i] = log.finishes[i]
        /\ ends => r.finishes[id] = log.finishes[id] + 1
    <3>1. CASE ends
      <4>1. r = Finished(log, id)
        BY <3>1, Zenon
      <4> HIDE DEF ends, r
      <4> QED
        BY <2>2, <3>1, <4>1, FinishedLog
    <3>2. CASE ~ends
      <4>1. r = log
        BY <3>2, Zenon
      <4> HIDE DEF ends, r
      <4> QED
        BY <1>0, <3>2, <4>1
    <3> QED
      BY <3>1, <3>2
  <2> HIDE DEF r
  <2>4. /\ log'.finishes = r.finishes /\ log'.av = log.av
        /\ log'.audioEnded = log.audioEnded /\ log'.pictureEnded = log.pictureEnded \cup {id}
    BY <2>1, <2>3 DEF LogType
  <2>5. id \in log.av \cap log.audioEnded => ends
    BY DEF HalvesInv
  <2>6. ends => log.finishes[id] = 0
    BY <1>5, <2>1 DEF FinishInv, VideoEofEnds
  <2> HIDE DEF ends
  <2>7. video'.id = 0
    BY <2>1 DEF NoVideo
  <2>8. \A i \in log.av \cap log.audioEnded \cap log'.pictureEnded : r.finishes[i] = 1
    <3> TAKE i \in log.av \cap log.audioEnded \cap log'.pictureEnded
    <3>1. CASE i = id
      BY <2>3, <2>5, <2>6, <3>1
    <3>2. CASE i # id
      <4>1. i \in 1 .. nextId - 1 /\ i \in log.pictureEnded
        BY <2>4, <3>2 DEF BothInv
      <4> QED
        BY <2>3, <3>2, <4>1 DEF HalvesInv
    <3> QED
      BY <3>1, <3>2
  <2>9. log'.pictureEnded \subseteq 1 .. nextId - 1 /\ 0 \notin log'.pictureEnded
    BY <1>a, <2>1, <2>2, <2>4 DEF HalvesInv
  <2>10. 0 \notin log.av
    BY <1>a
  <2> QED
    BY <2>1, <2>4, <2>7, <2>8, <2>9, <2>10 DEF HalvesInv
<1>6. ASSUME NEW s \in streams, VideoFailed(s) PROVE HalvesInv'
  <2>1. nextId' = nextId /\ half' = half
    BY <1>6 DEF VideoFailed, playing
  <2>2. CASE ~IsCurrent(s)
    <3>1. video' = video /\ log' = log
      BY <1>6, <2>2 DEF VideoFailed
    <3> QED
      BY <2>1, <3>1 DEF HalvesInv
  <2>3. CASE IsCurrent(s)
    <3> DEFINE id == video.id
               r == IF video.audio THEN log ELSE Finished(log, id)
    <3>1. /\ video' = NoVideo /\ id # 0 /\ half # id
          /\ log' = [r EXCEPT !.pictureEnded = @ \cup {id}]
      BY <1>0, <1>6, <2>3 DEF VideoFailed, IsCurrent, FailsLate
    <3>2. id \in 1 .. nextId - 1
      BY <1>0, <3>1
    <3>3. /\ r \in LogType /\ r.av = log.av /\ r.audioEnded = log.audioEnded
          /\ r.pictureEnded = log.pictureEnded
          /\ \A i \in 1 .. nextId - 1 : i # id => r.finishes[i] = log.finishes[i]
      <4>1. CASE ~video.audio
        <5>1. r = Finished(log, id)
          BY <4>1, Zenon
        <5> HIDE DEF r
        <5> QED
          BY <3>2, <5>1, FinishedLog
      <4>2. CASE video.audio
        <5>1. r = log
          BY <4>2, Zenon
        <5> HIDE DEF r
        <5> QED
          BY <1>0, <5>1
      <4> QED
        BY <4>1, <4>2
    <3> HIDE DEF r
    <3>4. /\ log'.finishes = r.finishes /\ log'.av = log.av
          /\ log'.audioEnded = log.audioEnded /\ log'.pictureEnded = log.pictureEnded \cup {id}
      BY <3>1, <3>3 DEF LogType
    <3>5. ~(id \in log.av \cap log.audioEnded)
      BY <3>1 DEF HalvesInv
    <3>6. video'.id = 0
      BY <3>1 DEF NoVideo
    <3>7. \A i \in log.av \cap log.audioEnded \cap log'.pictureEnded : r.finishes[i] = 1
      <4> TAKE i \in log.av \cap log.audioEnded \cap log'.pictureEnded
      <4>1. i # id /\ i \in 1 .. nextId - 1 /\ i \in log.pictureEnded
        BY <3>4, <3>5 DEF BothInv
      <4> QED
        BY <3>3, <4>1 DEF HalvesInv
    <3>8. log'.pictureEnded \subseteq 1 .. nextId - 1 /\ 0 \notin log'.pictureEnded
      BY <1>a, <3>1, <3>2, <3>4 DEF HalvesInv
    <3> QED
      BY <1>a, <2>1, <3>4, <3>6, <3>7, <3>8 DEF HalvesInv
  <2> QED
    BY <2>2, <2>3
<1>7. CASE nextId' # nextId
  <2>1. PlayVideo \/ ((Preload \/ PlaySound) /\ nextId' # nextId)
    <3>1. /\ PlayImage \/ PlayStopTarget \/ PlayStopAll \/ Stop \/ ChangeProject => nextId' = nextId
          /\ FinishAudioHalf \/ FinishCue => nextId' = nextId
          /\ (\E s \in streams : VideoEofEnds(s) \/ VideoFailed(s)) => nextId' = nextId
      BY DEF PlayImage, PlayStopTarget, StopTarget, PlayStopAll, Stop, ChangeProject, StopAll,
         FadeAll, ClearAllButAudio, FinishAudioHalf, FinishCue, VideoEofEnds, VideoFailed, playing
    <3> QED
      BY <1>7, <3>1, LogTouched
  <2>2. \E i : Starting(i)
    BY <2>1, SoundStarting, PictureStarting
  <2> QED
    BY <1>2, <2>2
<1>8. CASE ~Unusual
  BY <1>1, <1>8, UsualSteps
<1> QED
  BY <1>3, <1>4, <1>5, <1>6, <1>7, <1>8 DEF Unusual

LEMMA InitHalves == Init => HalvesInv
<1> SUFFICES ASSUME Init PROVE HalvesInv
  OBVIOUS
<1>1. log.audioEnded = {} /\ log.pictureEnded = {} /\ log.av = {}
  BY DEF Init, NothingLogged
<1> QED
  BY <1>1 DEF HalvesInv

\* A one-shot video cue finishes when both its streams have ended, whichever
\* ends first and whatever plays in between (audio_half_of_pending_video,
\* handle_video_eof), as long as no picture fails after its audio has ended:
\* then the cue never finishes (report_playback_error leaves the half behind).
THEOREM HalvesCorrect ==
  Spec /\ [][~FailsLate]_vars => []BothHalvesFinish
<1> DEFINE I == TypeInv /\ ShapeInv /\ FinishInv /\ BothInv /\ HalvesInv
<1>1. Init => I
  BY InitTypes, InitShape, InitFinish, InitHalves
<1>2. I /\ [Next]_vars /\ [~FailsLate]_vars => I'
  <2>1. CASE ~FailsLate
    BY <2>1, NextTypes, NextShape, NextFinish, NextHalves
  <2>2. ASSUME I, UNCHANGED vars PROVE I'
    <3>1. TypeInv' /\ ShapeInv' /\ FinishInv' /\ BothInv'
      BY <2>2, NextTypes, NextShape, NextFinish
    <3>2. HalvesInv'
      BY <2>2 DEF HalvesInv, vars, media, playing, pictures
    <3> QED
      BY <3>1, <3>2
  <2> QED
    BY <2>1, <2>2
<1>3. I => BothHalvesFinish
  BY DEF HalvesInv, BothHalvesFinish
<1> QED
  BY <1>1, <1>2, <1>3, PTL DEF Spec

-----------------------------------------------------------------------------
(* The position of the picture *)

\* The frozen or the running position is the media time shown, and neither the
\* origin of a running picture nor that time lies beyond the engine's clock:
\* that is why the saturating subtractions of a resume and of a seek do not
\* saturate.
PositionInv ==
    /\ shown \in Nat /\ shown <= now
    /\ video # NoVideo => IF paused THEN video.pausedAt = shown
                                    ELSE video.origin + shown = now

\* A seek stays within the age of the engine's clock.
SeeksWithinClock == SeekAudio \/ SeekVideo => shown' <= now

LEMMA PositionShown == ClockInv /\ PositionInv => PositionIsTimeShown
<1> SUFFICES ASSUME ClockInv, PositionInv, video # NoVideo
             PROVE  VideoPosition = shown
  BY DEF PositionIsTimeShown
<1>1. now \in Nat /\ IsVideo(video) /\ shown \in Nat /\ (paused <=> video.pausedAt # None)
  BY DEF ClockInv, ClockPart, VideoPart, PositionInv
<1>2. CASE paused
  BY <1>1, <1>2 DEF PositionInv, VideoPosition
<1>3. CASE ~paused
  <2>1. Monus(now, video.origin) = shown
    BY <1>1, <1>3 DEF PositionInv, IsVideo, Monus, GreaterOf
  <2> QED
    BY <1>1, <1>3, <2>1 DEF VideoPosition
<1> QED
  BY <1>2, <1>3

\* push_video_action, whose picture begins with its first frame.
LEMMA ShownFromStart ==
  ASSUME ClockInv, NEW v, IsVideo(v), NEW others, ShowVideo(v, others),
         now' = now, paused' = paused
  PROVE  PositionInv'
<1>1. now \in Nat /\ paused \in BOOLEAN
  BY DEF ClockInv, ClockPart
<1>2. /\ video'.origin = now /\ video'.pausedAt = (IF paused THEN 0 ELSE None)
      /\ shown' = 0
  BY DEF ShowVideo, IsVideo
<1> QED
  BY <1>1, <1>2 DEF PositionInv

\* What a seek leaves.
LEMMA SoughtTo ==
  ASSUME ClockInv, NEW t \in Nat, t <= now, video # NoVideo,
         video' = VideoSoughtTo(t), shown' = t, now' = now, paused' = paused
  PROVE  PositionInv'
<1>1. now \in Nat /\ paused \in BOOLEAN /\ IsVideo(video)
  BY DEF ClockInv, ClockPart, VideoPart
<1>2. Monus(now, t) + t = now
  BY <1>1 DEF Monus, GreaterOf
<1>3. CASE paused
  BY <1>1, <1>3 DEF PositionInv, VideoSoughtTo, IsVideo
<1>4. CASE ~paused
  BY <1>1, <1>2, <1>4 DEF PositionInv, VideoSoughtTo, IsVideo
<1> QED
  BY <1>1, <1>3, <1>4

LEMMA NextPosition ==
  ASSUME TypeInv, PositionInv, [Next]_vars, SeeksWithinClock
  PROVE  PositionInv'
<1>0. /\ ClockInv /\ now \in Nat /\ paused \in BOOLEAN /\ IsVideo(video)
      /\ shown \in Nat /\ shown <= now
      /\ ActivePart /\ PicturePart /\ ListPart /\ AgendaPart /\ CodePart
  BY DEF TypeInv, ClockInv, ClockPart, VideoPart, PositionInv
<1>1. CASE UNCHANGED <<now, paused, video, shown>>
  BY <1>1 DEF PositionInv
<1>2. CASE video' = NoVideo /\ now' = now /\ shown' = shown
  BY <1>0, <1>2 DEF PositionInv
<1>3. CASE CheckVideoLoops \/ \E s \in streams : VideoEofLoops(s)
  <2>1. now' = now /\ paused' = paused
    BY <1>3 DEF CheckVideoLoops, VideoEofLoops, fixed
  <2>2. UNCHANGED <<video, shown>> \/ \E others : ShowVideo(video, others)
    BY <1>3 DEF CheckVideoLoops, VideoEofLoops
  <2> QED
    BY <1>0, <1>1, <2>1, <2>2, ShownFromStart
<1>4. CASE PlayVideo
  <2>1. now' = now /\ paused' = paused
    BY <1>4 DEF PlayVideo, fixed
  <2>2. \E v : IsVideo(v) /\ ShowVideo(v, streams)
    <3>1. PICK q, id, audio :
            ShowVideo([NoVideo EXCEPT !.q = q, !.id = id, !.audio = audio], streams)
      BY <1>4 DEF PlayVideo
    <3>2. PICK v : v = [NoVideo EXCEPT !.q = q, !.id = id, !.audio = audio]
      OBVIOUS
    <3>3. v = [q |-> q, id |-> id, epoch |-> NoVideo.epoch, audio |-> audio,
               origin |-> NoVideo.origin, pausedAt |-> NoVideo.pausedAt]
      BY <3>2, NoVideoIsVideo DEF IsVideo
    <3>4. /\ v.q = q /\ v.id = id /\ v.epoch = NoVideo.epoch /\ v.audio = audio
          /\ v.origin = NoVideo.origin /\ v.pausedAt = NoVideo.pausedAt
      BY <3>3
    <3>5. v = [q |-> v.q, id |-> v.id, epoch |-> v.epoch, audio |-> v.audio,
               origin |-> v.origin, pausedAt |-> v.pausedAt]
      BY <3>3, <3>4, Zenon
    <3>6. IsVideo(v)
      BY <3>4, <3>5, NoVideoIsVideo DEF IsVideo
    <3> QED
      BY <3>1, <3>2, <3>6
  <2> QED
    BY <1>0, <2>1, <2>2, ShownFromStart
<1>5. CASE SeekAudio
  <2>1. PICK i \in Ids : \E t \in 0 .. cues[active[i].q].audio - 1 :
            /\ video' = IF video.id = i THEN VideoSoughtTo(t) ELSE video
            /\ shown' = IF video.id = i THEN t ELSE shown
    BY <1>5 DEF SeekAudio
  <2>2. now' = now /\ paused' = paused /\ shown' <= now
    BY <1>5 DEF SeekAudio, fixed, SeeksWithinClock
  <2>3. CASE video.id # i
    BY <1>1, <2>1, <2>2, <2>3
  <2>4. CASE video.id = i
    <3>1. PICK t \in 0 .. cues[active[i].q].audio - 1 : video' = VideoSoughtTo(t) /\ shown' = t
      BY <2>1, <2>4
    <3>2. t \in Nat
      OBVIOUS
    <3>3. video # NoVideo
      BY <1>0, <2>4 DEF ActivePart, NoVideo
    <3> QED
      BY <1>0, <2>2, <3>1, <3>2, <3>3, SoughtTo
  <2> QED
    BY <2>3, <2>4
<1>6. CASE SeekVideo
  <2>1. PICK t \in 0 .. MaxSeek : video' = VideoSoughtTo(t) /\ shown' = t
    BY <1>6 DEF SeekVideo
  <2>2. t \in Nat
    OBVIOUS
  <2>3. now' = now /\ paused' = paused /\ shown' <= now /\ video # NoVideo
    BY <1>6 DEF SeekVideo, fixed, SeeksWithinClock
  <2> QED
    BY <1>0, <2>1, <2>2, <2>3, SoughtTo
<1>7. CASE Pause
  <2>1. now' = now /\ paused' = TRUE /\ ~paused /\ shown' = shown
    BY <1>7 DEF Pause, fixed
  <2>2. CASE video = NoVideo
    BY <1>2, <1>7, <2>1, <2>2 DEF Pause
  <2>3. CASE video # NoVideo
    <3>1. VideoPosition = shown
      BY <1>0, <2>3, PositionShown DEF PositionIsTimeShown
    <3>2. video' = [video EXCEPT !.pausedAt = shown]
      BY <1>7, <2>3, <3>1 DEF Pause
    <3>3. video'.pausedAt = shown
      BY <1>0, <3>2 DEF IsVideo
    <3> QED
      BY <1>0, <2>1, <3>3 DEF PositionInv
  <2> QED
    BY <2>2, <2>3
<1>8. CASE Resume
  <2>1. now' = now /\ paused' = FALSE /\ paused /\ shown' = shown
    BY <1>8 DEF Resume, fixed
  <2>2. CASE video = NoVideo
    BY <1>2, <1>8, <2>1, <2>2 DEF Resume
  <2>3. CASE video # NoVideo
    <3>1. video.pausedAt = shown /\ video.pausedAt # None
      BY <1>0, <2>1, <2>3 DEF PositionInv, ClockInv, VideoPart
    <3>2. video' = [video EXCEPT !.origin = Monus(now, shown), !.pausedAt = None]
      BY <1>8, <2>3, <3>1 DEF Resume
    <3>3. video'.origin = Monus(now, shown)
      BY <1>0, <3>2 DEF IsVideo
    <3>4. Monus(now, shown) + shown = now
      BY <1>0 DEF Monus, GreaterOf
    <3> QED
      BY <1>0, <2>1, <3>3, <3>4 DEF PositionInv
  <2> QED
    BY <2>2, <2>3
<1>9. CASE TickAgain \/ TimePasses
  <2>1. PICK t \in {now, now + 1} : Tick(t)
    BY <1>9 DEF TickAgain, TimePasses
  <2>2. /\ now' = t /\ UNCHANGED <<paused, video>> /\ t \in Nat /\ t >= now
        /\ shown' = IF video # NoVideo /\ ~paused THEN shown + t - now ELSE shown
    BY <1>0, <2>1 DEF Tick
  <2>3. CASE video # NoVideo /\ ~paused
    BY <1>0, <2>2, <2>3 DEF PositionInv, IsVideo
  <2>4. CASE ~(video # NoVideo /\ ~paused)
    BY <1>0, <2>2, <2>4 DEF PositionInv
  <2> QED
    BY <2>3, <2>4
<1>10. CASE UNCHANGED vars
  BY <1>1, <1>10 DEF vars, fixed, media, pictures
<1>11. CASE Operator
  <2>1. CASE Stop \/ ChangeProject
    BY <1>2, <2>1 DEF Stop, ChangeProject, StopAll, ClearAllButAudio, fixed
  <2>2. CASE ~(Stop \/ ChangeProject \/ Pause \/ Resume \/ SeekAudio \/ SeekVideo)
    BY <1>1, <1>11, <2>2 DEF Operator, Go, Fire, Select, Preload, AdjustShowTime,
       fixed, media, pictures
  <2> QED
    BY <1>5, <1>6, <1>7, <1>8, <2>1, <2>2
<1>12. CASE PlayCue
  <2>1. CASE PlayImage
    BY <1>2, <2>1 DEF PlayImage, fixed
  <2>2. CASE PlayStopAll
    BY <1>2, <2>2 DEF PlayStopAll, FadeAll, StopAll, ClearAllButAudio, fixed
  <2>3. CASE PlayStopTarget
    <3>1. now' = now /\ paused' = paused /\ shown' = shown /\ (video' = video \/ video' = NoVideo)
      BY <2>3 DEF PlayStopTarget, StopTarget, fixed
    <3> QED
      BY <1>1, <1>2, <3>1
  <2>4. CASE ~(PlayVideo \/ PlayImage \/ PlayStopAll \/ PlayStopTarget)
    BY <1>1, <1>12, <2>4 DEF PlayCue, PlayRefused, PlayRemote, PlayDelayed, PlayReady,
       PlaySound, PlayExternal, PlayDmxShow, PlayVolume, PlayGroup, PlayTimeCode,
       PlayGoto, fixed, media, pictures
  <2> QED
    BY <1>4, <2>1, <2>2, <2>3, <2>4
<1>13. CASE Work /\ ~PlayCue
  <2>1. CASE ~CheckVideoLoops
    BY <1>1, <1>13, <2>1 DEF Work, PlayAfterLast, EndGo, CheckFadeOuts, CheckPendingStops,
       AudioPhase, CheckFinishedCues, FinishAudioHalf, FinishCue, CheckDelayedCues,
       CheckTimecodes, TriggerTimecode, ExpireTimecodes, fixed, media, pictures
  <2> QED
    BY <1>3, <2>1
<1>14. CASE Environment
  <2>1. CASE \E s \in streams : VideoEofEnds(s) \/ VideoFailed(s)
    <3>1. now' = now /\ paused' = paused /\ shown' = shown /\ (video' = video \/ video' = NoVideo)
      BY <2>1 DEF VideoEofEnds, VideoFailed, fixed
    <3> QED
      BY <1>1, <1>2, <3>1
  <2>2. CASE ~\E s \in streams : VideoEofEnds(s) \/ VideoFailed(s) \/ VideoEofLoops(s)
    BY <1>1, <1>14, <2>2 DEF Environment, VideoEof, VideoEofIgnored,
       DmxShowEnds, ExternalFinished, Render, fixed, pictures
  <2> QED
    BY <1>3, <2>1, <2>2
<1> QED
  BY <1>9, <1>10, <1>11, <1>12, <1>13, <1>14 DEF Next

LEMMA InitPosition == Init => PositionInv
<1> SUFFICES ASSUME Init PROVE PositionInv
  OBVIOUS
<1>1. shown = 0 /\ video = NoVideo /\ now \in Nat
  BY BoundsAssumption DEF Init
<1> QED
  BY <1>1 DEF PositionInv

\* The position the engine computes for the picture is the media time that has
\* been shown, through every pause, seek, loop and change of picture
\* (video_position), as long as no seek goes beyond the age of the engine's
\* clock: there the saturating subtraction of seek gives another position.
THEOREM PositionCorrect ==
  Spec /\ [][SeeksWithinClock]_vars => []PositionIsTimeShown
<1> DEFINE I == TypeInv /\ PositionInv
<1>1. Init => I
  BY InitTypes, InitPosition
<1>2. I /\ [Next]_vars /\ [SeeksWithinClock]_vars => I'
  <2>1. CASE SeeksWithinClock
    BY <2>1, NextTypes, NextPosition
  <2>2. CASE UNCHANGED vars
    <3>1. TypeInv => TypeInv'
      BY <2>2, NextTypes
    <3>2. PositionInv => PositionInv'
      BY <2>2 DEF PositionInv, vars, fixed, media, pictures
    <3> QED
      BY <3>1, <3>2
  <2> QED
    BY <2>1, <2>2
<1>3. I => PositionIsTimeShown
  BY PositionShown DEF TypeInv
<1> QED
  BY <1>1, <1>2, <1>3, PTL DEF Spec

-----------------------------------------------------------------------------
(* After the transport's Stop *)

\* The tasks of a tick, and those of an end of which nothing follows.
Harmless(list, t) ==
    \/ t.op \in {"fadeOuts", "pendingStops", "finished", "videoLoops", "delayed", "timecodes"}
    \/ t.op = "afterLast" /\ NextAfterLast(list, t.q) = 0

\* Nothing plays, nothing waits, and the call in progress plays nothing either.
Still ==
    /\ Ids = {} /\ delayed = <<>> /\ timecodes = <<>>
    /\ video = NoVideo /\ picture = 0 /\ shows = {} /\ clock.start = None
    /\ \A n \in DOMAIN agenda : Harmless(cues, agenda[n])

StillInv == log.quiet => Still

\* Nothing follows a recorded show whose end is taken after the Stop.
NoLateFollow ==
    \A q \in doneShows : ExternalFinished(q) /\ log.quiet => NextAfterLast(cues, q) = 0

\* Only a Stop or a new project makes the engine quiet.
LEMMA QuietFrom ==
  ASSUME LogPart, [Next]_vars, log'.quiet, ~(Stop \/ ChangeProject)
  PROVE  log.quiet /\ ~Go /\ ~Fire /\ ~Preload
<1>0. log \in LogType
  BY DEF LogPart, LogType
<1>1. ~Go /\ ~Fire /\ ~Preload
  <2>1. ASSUME Go \/ Fire PROVE FALSE
    <3>1. log' = [log EXCEPT !.quiet = FALSE]
      BY <2>1 DEF Go, Fire
    <3> QED
      BY <1>0, <3>1 DEF LogType
  <2>2. ASSUME Preload PROVE FALSE
    <3>1. log' = [log EXCEPT !.finishes = Append(@, 0), !.quiet = FALSE]
      BY <2>2 DEF Preload
    <3> QED
      BY <1>0, <3>1 DEF LogType
  <2> QED
    BY <2>1, <2>2
<1>2. /\ \A S : [log EXCEPT !.pictureCut = S].quiet = log.quiet
      /\ \A S, f : [log EXCEPT !.finishes = f, !.av = S].quiet = log.quiet
      /\ \A f : [log EXCEPT !.finishes = f].quiet = log.quiet
  BY <1>0 DEF LogType
<1>3. Cut(log).quiet = log.quiet
  BY <1>2 DEF Cut
<1>4. \A id : Finished(log, id).quiet = log.quiet
  BY <1>0 DEF Finished, LogType
<1>5. CASE PlayVideo
  <2>1. \E f, S : log' = [Cut(log) EXCEPT !.finishes = f, !.av = S]
    BY <1>5 DEF PlayVideo
  <2> QED
    BY <1>0, <1>1, <2>1 DEF Cut, LogType
<1>6. CASE PlayImage \/ PlayStopTarget
  <2>1. log' = log \/ log' = Cut(log)
    BY <1>6 DEF PlayImage, PlayStopTarget, StopTarget
  <2> QED
    BY <1>1, <1>3, <2>1
<1>7. CASE PlayStopAll
  <2>1. log' = [Cut(log) EXCEPT !.stopped = @ \cup Ids]
    BY <1>7 DEF PlayStopAll, Silenced
  <2> QED
    BY <1>0, <1>1, <2>1 DEF Cut, LogType
<1>8. CASE FinishAudioHalf
  <2>1. log' = [log EXCEPT !.audioEnded = @ \cup {task.id}]
    BY <1>8 DEF FinishAudioHalf
  <2> QED
    BY <1>0, <1>1, <2>1 DEF LogType
<1>9. CASE FinishCue
  <2>1. \E S, T : log' = [Finished(log, task.id) EXCEPT !.audioEnded = S, !.chained = T]
    BY <1>9 DEF FinishCue
  <2> QED
    BY <1>0, <1>1, <2>1 DEF Finished, LogType
<1>10. CASE \E s \in streams : VideoEofEnds(s) \/ VideoFailed(s)
  <2>1. log' = log \/ \E r \in {log, Finished(log, video.id)} :
                      \E S : log' = [r EXCEPT !.pictureEnded = S]
    BY <1>10 DEF VideoEofEnds, VideoFailed
  <2> QED
    BY <1>0, <1>1, <2>1 DEF Finished, LogType
<1>11. CASE PlaySound
  <2>1. log' = log \/ log' = [log EXCEPT !.finishes = Append(@, 0)]
    BY <1>11 DEF PlaySound
  <2> QED
    BY <1>1, <1>2, <2>1
<1> QED
  BY <1>1, <1>5, <1>6, <1>7, <1>8, <1>9, <1>10, <1>11, LogTouched

\* Of no numbers there is no order, and of an empty list nothing to pick.
LEMMA NothingPicked ==
  /\ InOrder({}) = <<>>
  /\ \A I : I \subseteq DOMAIN <<>> => Picked(<<>>, I) = <<>>
<1>1. InOrder({}) = <<>>
  <2>1. Cardinality({}) = 0
    BY FS_EmptySet
  <2>2. InOrder({}) \in Seq({}) /\ DOMAIN InOrder({}) = 1 .. 0
    BY <2>1, InOrderLists, FS_EmptySet DEF InOrder
  <2> QED
    BY <2>2
<1>2. \A I : I \subseteq DOMAIN <<>> => Picked(<<>>, I) = <<>>
  <2> TAKE I
  <2> HAVE I \subseteq DOMAIN <<>>
  <2>1. I = {}
    OBVIOUS
  <2>2. Picked(<<>>, I) \in Seq({}) /\ DOMAIN Picked(<<>>, I) = DOMAIN InOrder({})
    <3>1. <<>> \in Seq({})
      OBVIOUS
    <3> QED
      BY <2>1, <3>1, PickedIsSeq DEF Picked
  <2> QED
    BY <1>1, <2>2
<1> QED
  BY <1>1, <1>2

\* A call that is not continued is what it was, less its first task.
LEMMA ReturnIsHarmless ==
  ASSUME AgendaPart, ~Idle, cues' = cues, Return,
         \A n \in DOMAIN agenda : Harmless(cues, agenda[n])
  PROVE  \A n \in DOMAIN agenda' : Harmless(cues', agenda'[n])
<1>1. agenda \in Seq(Calls(cues, nextId)) /\ <<>> \in Seq(Calls(cues, nextId))
  BY DEF AgendaPart
<1>2. Continue(<<>>)
  BY DEF Return
<1>3. /\ DOMAIN agenda' = 1 .. Len(agenda') /\ DOMAIN agenda = 1 .. Len(agenda)
      /\ Len(agenda) \in Nat \ {0} /\ Len(agenda') = Len(<<>>) + Len(agenda) - 1
      /\ \A n \in 1 .. Len(agenda') :
            \/ n \in 1 .. Len(<<>>)
            \/ /\ n - Len(<<>>) + 1 \in 2 .. Len(agenda)
               /\ agenda'[n] = agenda[n - Len(<<>>) + 1]
  BY <1>1, <1>2, ContinueParts
<1>4. Len(<<>>) = 0
  OBVIOUS
<1> TAKE n \in DOMAIN agenda'
<1>6. \E m \in DOMAIN agenda : agenda'[n] = agenda[m]
  <2>1. n \in 1 .. Len(agenda') /\ n \notin 1 .. 0
    BY <1>3
  <2>2. n - Len(<<>>) + 1 \in 2 .. Len(agenda) /\ agenda'[n] = agenda[n - Len(<<>>) + 1]
    BY <1>3, <1>4, <2>1
  <2>3. n - Len(<<>>) + 1 \in DOMAIN agenda
    BY <1>3, <2>2
  <2> QED
    BY <2>2, <2>3
<1> QED
  BY <1>6

LEMMA NextStill ==
  ASSUME TypeInv, StillInv, [Next]_vars, NoLateFollow
  PROVE  StillInv'
<1> SUFFICES ASSUME log'.quiet PROVE Still'
  BY DEF StillInv
<1>0. /\ LogPart /\ AgendaPart /\ ListPart /\ ActivePart /\ log \in LogType
  BY DEF TypeInv, LogPart, LogType
<1>1. CASE Stop \/ ChangeProject
  <2>1. /\ active' = NoInstances /\ delayed' = <<>> /\ timecodes' = <<>>
        /\ video' = NoVideo /\ picture' = 0 /\ shows' = {} /\ clock' = StoppedClock
    BY <1>1 DEF Stop, ChangeProject, StopAll, ClearAllButAudio, ResetShowClock
  <2>2. agenda' = <<>>
    BY <1>1 DEF Stop, ChangeProject, Command, Idle
  <2> QED
    BY <2>1, <2>2 DEF Still, Ids, NoInstances, StoppedClock
<1> SUFFICES ASSUME ~(Stop \/ ChangeProject) PROVE Still'
  BY <1>1
<1>2. log.quiet /\ ~Go /\ ~Fire /\ ~Preload /\ Still
  BY <1>0, QuietFrom DEF StillInv
<1> DEFINE Same == /\ Ids' = Ids
                   /\ UNCHANGED <<cues, delayed, timecodes, video, picture, shows>>
                   /\ clock'.start = clock.start
<1>3. ASSUME Same, UNCHANGED agenda PROVE Still'
  BY <1>2, <1>3 DEF Still, Harmless
<1>4. CASE UNCHANGED vars
  BY <1>3, <1>4 DEF vars, fixed, media, playing, pictures, dmx, waiting, clockVars, Ids
<1>5. IsClock(clock)
  BY DEF TypeInv, ClockInv, ClockPart
<1>6. CASE Operator
  <2>1. CASE Select
    BY <1>3, <2>1 DEF Select, fixed, media, playing, pictures, dmx, waiting, clockVars, Ids
  <2>2. CASE Pause \/ Resume
    <3>1. Ids' = Ids
      BY <2>2 DEF Pause, Resume, Ids
    <3>2. video' = video
      BY <1>2, <2>2 DEF Pause, Resume, Still
    <3>3. clock'.start = clock.start
      <4>1. \/ clock' = clock
            \/ \E p : clock' = [clock EXCEPT !.pausedAt = p]
            \/ \E p, o : clock' = [clock EXCEPT !.offset = o, !.pausedAt = p]
        BY <2>2 DEF Pause, Resume
      <4> QED
        BY <1>5, <4>1 DEF IsClock
    <3> QED
      BY <1>3, <2>2, <3>1, <3>2, <3>3 DEF Pause, Resume, fixed, dmx, waiting
  <2>3. CASE SeekAudio \/ SeekVideo
    BY <1>2, <2>3 DEF SeekAudio, SeekVideo, Still
  <2>4. CASE AdjustShowTime
    <3>1. clock'.start = clock.start
      <4>1. \E d : clock' = [clock EXCEPT !.adjustment = d]
        BY <2>4 DEF AdjustShowTime
      <4> QED
        BY <1>5, <4>1 DEF IsClock
    <3> QED
      BY <1>3, <2>4, <3>1 DEF AdjustShowTime, fixed, media, playing, pictures, dmx, waiting, Ids
  <2> QED
    BY <1>2, <1>6, <2>1, <2>2, <2>3, <2>4 DEF Operator
<1>7. CASE TickAgain \/ TimePasses
  <2>1. PICK t : Tick(t)
    BY <1>7 DEF TickAgain, TimePasses
  <2>2. agenda' = [n \in 1 .. 6 |-> Task(Phases[n], 0)]
    BY <2>1 DEF Tick, Phases
  <2>3. \A n \in 1 .. 6 : Phases[n] \in {"fadeOuts", "pendingStops", "finished", "videoLoops",
                                          "delayed", "timecodes"}
    BY DEF Phases
  <2>4. \A n \in DOMAIN agenda' : Harmless(cues', agenda'[n])
    <3> TAKE n \in DOMAIN agenda'
    <3>1. n \in 1 .. 6 /\ agenda'[n] = Task(Phases[n], 0)
      BY <2>2
    <3>2. agenda'[n].op = Phases[n]
      BY <3>1 DEF Task
    <3> QED
      BY <2>3, <3>1, <3>2 DEF Harmless
  <2>5. Same
    BY <2>1 DEF Tick, playing, dmx, waiting, Ids
  <2> QED
    BY <1>2, <2>4, <2>5 DEF Still
<1>8. CASE Environment
  <2>1. CASE \E s \in streams : VideoEof(s) \/ VideoFailed(s)
    <3>1. \A s : ~IsCurrent(s)
      BY <1>2 DEF Still, IsCurrent
    <3>2. PICK s \in streams : VideoEofIgnored(s) \/ VideoFailed(s)
      BY <2>1, <3>1 DEF VideoEof, VideoEofLoops, VideoEofEnds
    <3> QED
      BY <1>3, <3>1, <3>2 DEF VideoEofIgnored, VideoFailed, fixed, playing, dmx, waiting,
         clockVars, Ids
  <2>2. CASE \E q \in doneShows : ExternalFinished(q)
    <3>1. PICK q \in doneShows : ExternalFinished(q)
      BY <2>2
    <3>2. NextAfterLast(cues, q) = 0
      BY <1>2, <3>1 DEF NoLateFollow
    <3>3. agenda' = <<Task("afterLast", q)>> /\ Same
      BY <3>1 DEF ExternalFinished, fixed, playing, pictures, waiting, clockVars, Ids
    <3>4. \A n \in DOMAIN agenda' : Harmless(cues', agenda'[n])
      BY <3>2, <3>3 DEF Harmless, Task
    <3> QED
      BY <1>2, <3>3, <3>4 DEF Still
  <2>3. CASE \E i \in Ids : Render(i)
    BY <1>2, <2>3 DEF Still
  <2>4. CASE \E q \in shows : DmxShowEnds(q)
    BY <1>2, <2>4 DEF Still
  <2> QED
    BY <1>8, <2>1, <2>2, <2>3, <2>4 DEF Environment
<1>9. CASE Work
  <2>1. ~Idle
    BY <1>9 DEF Work, PlayCue, PlayRefused, PlayRemote, PlayDelayed, PlayReady, PlaySound,
     PlayVideo, PlayImage, PlayExternal, PlayDmxShow, PlayVolume, PlayGroup,
     PlayTimeCode, PlayGoto, PlayStopAll, PlayStopTarget, Plays, PlaysStop, Playing,
     PlayAfterLast, EndGo, CheckFadeOuts, CheckPendingStops, AudioPhase,
     CheckFinishedCues, FinishAudioHalf, FinishCue, CheckVideoLoops, CheckDelayedCues,
     CheckTimecodes, TriggerTimecode, ExpireTimecodes, Doing
  <2>2. Harmless(cues, task)
    <3>1. agenda \in Seq(Calls(cues, nextId)) /\ agenda # <<>>
      BY <1>0, <2>1 DEF AgendaPart, Idle
    <3>2. 1 \in DOMAIN agenda /\ task = agenda[1]
      BY <3>1 DEF task
    <3> QED
      BY <1>2, <3>2 DEF Still
  <2>3. \A op \in {"play", "start", "endGo", "finish", "trigger", "expire"} : ~Doing(op)
    BY <2>2 DEF Harmless, Doing, task
  <2>4. ASSUME Same, Return PROVE Still'
    <3>1. \A n \in DOMAIN agenda' : Harmless(cues', agenda'[n])
      BY <1>0, <1>2, <2>1, <2>4, ReturnIsHarmless DEF Still
    <3> QED
      BY <1>2, <2>4, <3>1 DEF Still
  <2>5. CASE CheckFadeOuts \/ CheckPendingStops
    BY <2>4, <2>5 DEF CheckFadeOuts, CheckPendingStops, AudioPhase, fixed, pictures, dmx,
       waiting, clockVars, Ids
  <2>6. CASE CheckFinishedCues
    <3>1. InOrder({i \in Ids : Ended(active[i])}) = <<>>
      <4>1. {i \in Ids : Ended(active[i])} = {}
        BY <1>2 DEF Still
      <4> QED
        BY <4>1, NothingPicked
    <3>2. Return
      <4>1. PICK e : /\ e = <<>>
                     /\ Continue([n \in DOMAIN e |-> [Task("finish", active[e[n]].q) EXCEPT
                                     !.id = e[n], !.follow = active[e[n]].follow]])
        BY <2>6, <3>1 DEF CheckFinishedCues
      <4>2. [n \in DOMAIN e |-> [Task("finish", active[e[n]].q) EXCEPT
                                     !.id = e[n], !.follow = active[e[n]].follow]] = <<>>
        BY <4>1
      <4> QED
        BY <4>1, <4>2 DEF Return
    <3> QED
      BY <2>4, <2>6, <3>2 DEF CheckFinishedCues, fixed, media, playing, pictures, dmx, waiting,
         clockVars, Ids
  <2>7. CASE CheckVideoLoops
    <3>1. UNCHANGED <<active, video>>
      BY <1>2, <2>7 DEF CheckVideoLoops, Still
    <3> QED
      BY <2>4, <2>7, <3>1 DEF CheckVideoLoops, fixed, dmx, waiting, clockVars, Ids
  <2>8. CASE CheckDelayedCues
    <3>1. PICK I, J : /\ I \subseteq DOMAIN delayed /\ J \subseteq DOMAIN delayed
                      /\ delayed' = Picked(delayed, J)
                      /\ Continue([i \in DOMAIN Picked(delayed, I) |->
                                    Task("start", Picked(delayed, I)[i].q)])
      BY <2>8 DEF CheckDelayedCues
    <3>2. Picked(delayed, I) = <<>> /\ delayed' = <<>>
      BY <1>2, <3>1, NothingPicked DEF Still
    <3>3. Return
      <4>1. PICK e : e = <<>> /\ Continue([i \in DOMAIN e |-> Task("start", e[i].q)])
        BY <3>1, <3>2
      <4>2. [i \in DOMAIN e |-> Task("start", e[i].q)] = <<>>
        BY <4>1
      <4> QED
        BY <4>1, <4>2 DEF Return
    <3>4. Same
      BY <1>2, <2>8, <3>2 DEF CheckDelayedCues, Still, fixed, media, playing, pictures, dmx,
         clockVars, Ids
    <3> QED
      BY <2>4, <3>3, <3>4
  <2>9. CASE CheckTimecodes
    BY <1>2, <2>4, <2>9 DEF CheckTimecodes, Still, Return, fixed, media, playing, pictures, dmx,
       waiting, clockVars, Ids
  <2>10. CASE PlayAfterLast
    <3>1. NextAfterLast(cues, task.q) = 0
      BY <2>2, <2>10 DEF Harmless, PlayAfterLast, Doing, task
    <3> QED
      BY <2>4, <2>10, <3>1 DEF PlayAfterLast, Return, fixed, media, playing, pictures, dmx,
       waiting, clockVars, Ids
  <2> QED
    BY <1>9, <2>3, <2>5, <2>6, <2>7, <2>8, <2>9, <2>10
    DEF Work, PlayCue, PlayRefused, PlayRemote, PlayDelayed, PlayReady, PlaySound,
     PlayVideo, PlayImage, PlayExternal, PlayDmxShow, PlayVolume, PlayGroup,
     PlayTimeCode, PlayGoto, PlayStopAll, PlayStopTarget, Plays, PlaysStop, Playing,
     EndGo, FinishAudioHalf, FinishCue, TriggerTimecode, ExpireTimecodes
<1> QED
  BY <1>4, <1>6, <1>7, <1>8, <1>9 DEF Next

\* After the transport's Stop nothing starts until the operator acts, whatever
\* decoder still reports and however often the engine ticks (stop_all), as
\* long as no recorded show that ended before the Stop has a follow: its end
\* is taken from finished_shows after the Stop, and the follow plays.
THEOREM StopCorrect ==
  Spec /\ [][NoLateFollow]_vars => []StopIsFinal
<1> DEFINE I == TypeInv /\ StillInv
<1>1. Init => I
  <2>1. Init => StillInv
    BY DEF Init, NothingLogged, StillInv
  <2> QED
    BY <2>1, InitTypes
<1>2. I /\ [Next]_vars /\ [NoLateFollow]_vars => I'
  <2>1. CASE NoLateFollow
    BY <2>1, NextTypes, NextStill
  <2>2. CASE UNCHANGED vars
    <3>1. TypeInv => TypeInv'
      BY <2>2, NextTypes
    <3>2. StillInv => StillInv'
      BY <2>2 DEF StillInv, Still, Harmless, Ids, vars, fixed, media, playing, pictures, dmx,
         waiting, clockVars
    <3> QED
      BY <3>1, <3>2
  <2> QED
    BY <2>1, <2>2
<1>3. I => StopIsFinal
  BY DEF StillInv, Still, StopIsFinal
<1> QED
  BY <1>1, <1>2, <1>3, PTL DEF Spec

-----------------------------------------------------------------------------
(* What plays is rendered *)

\* What PlayingIsRendered says of one instance.
Rendered(a, stopped) ==
    /\ a.state \in {"Playing", "PlayingLooped"} /\ ~stopped => a.act \/ a.fin
    /\ a.state = "Paused" => stopped /\ ~a.act

RenderedInv == \A i \in Ids : Rendered(active[i], paused)

\* A seek clears the end of an input that has faded out and is not yet taken.
SeeksFadedOut ==
    /\ SeekAudio /\ ~paused
    /\ \E i \in Ids : active[i].fin /\ ~active[i].act /\ ~active'[i].fin

\* What the calls and the callback do to an instance.
LEMMA FadesRendered ==
  ASSUME NEW a \in Instance, NEW p \in BOOLEAN, Rendered(a, p)
  PROVE  /\ Rendered(FadeOver(a), p) \/ ~a.act
         /\ ~p => Rendered(FadedAway(a), p)
         /\ Rendered([a EXCEPT !.fade = "out"], p) /\ Rendered([a EXCEPT !.fade = "level"], p)
         /\ Rendered([a EXCEPT !.fin = TRUE], p)
         /\ \A n : Rendered([a EXCEPT !.videoLoops = n], p)
  BY DEF Instance, Rendered, FadedAway, FadeOver

LEMMA StopsRendered ==
  ASSUME NEW a \in Instance, NEW p \in BOOLEAN, Rendered(a, p), NEW stop
  PROVE  Rendered(Stopped(a, stop), p)
<1>1. \A x : Rendered([a EXCEPT !.pending = x], p)
  BY DEF Instance, Rendered
<1>2. /\ Rendered([a EXCEPT !.fade = "out", !.fadeStarted = TRUE], p)
      /\ Rendered([a EXCEPT !.act = FALSE, !.state = "Done"], p)
  BY DEF Instance, Rendered
<1> QED
  BY <1>1, <1>2 DEF Stopped

LEMMA PhasesRendered ==
  ASSUME NEW a \in Instance, NEW p \in BOOLEAN, Rendered(a, p)
  PROVE  Rendered(TailFade(a), p) /\ Rendered(PendingStop(a), p)
<1>1. Rendered(TailFade(a), p)
  BY DEF Instance, Rendered, TailFade
<1>2. /\ Rendered([a EXCEPT !.fade = "out", !.pending = NoStop], p)
      /\ Rendered([a EXCEPT !.act = FALSE, !.state = "Done", !.pending = NoStop], p)
  BY DEF Instance, Rendered
<1> QED
  BY <1>1, <1>2 DEF PendingStop

LEMMA PausesRendered ==
  ASSUME NEW a \in Instance
  PROVE  /\ Rendered([a EXCEPT !.act = FALSE,
                               !.state = IF @ \in {"Playing", "PlayingLooped"}
                                         THEN "Paused" ELSE @], TRUE)
         /\ Rendered([a EXCEPT !.act = TRUE,
                               !.state = IF @ # "Paused" THEN @
                                         ELSE IF IsLooped(cues[a.q])
                                         THEN "PlayingLooped" ELSE "Playing"], FALSE)
  BY DEF Instance, Rendered

LEMMA SeekRendered ==
  ASSUME NEW a \in Instance, NEW p \in BOOLEAN, Rendered(a, p), NEW t \in Nat,
         p \/ a.act \/ ~a.fin \/ SeekTail([a EXCEPT !.pos = t, !.fin = FALSE], t).fin
  PROVE  Rendered(SeekTail([a EXCEPT !.pos = t, !.fin = FALSE], t), p)
<1> DEFINE b == [a EXCEPT !.pos = t, !.fin = FALSE]
           c == SeekTail(b, t)
<1>1. b \in Instance /\ b.fin = FALSE /\ b.act = a.act /\ b.state = a.state
  BY DEF Instance
<1> HIDE DEF b
<1>2. c.fin = FALSE /\ c.act = a.act /\ c.state = a.state
  BY <1>1 DEF SeekTail, Instance
<1>3. p \/ a.act \/ ~a.fin \/ c.fin
  BY DEF b
<1> HIDE DEF c
<1>4. Rendered(c, p)
  BY <1>2, <1>3 DEF Rendered
<1> QED
  BY <1>4 DEF b, c

LEMMA BlockRendered ==
  ASSUME NEW a \in Instance, NEW p \in BOOLEAN, Rendered(a, p)
  PROVE  Rendered(Block(a), p) /\ Block(a).act = a.act
<1>1. \A m, n : /\ Rendered([a EXCEPT !.pos = m, !.passes = n], p)
                /\ [a EXCEPT !.pos = m, !.passes = n].act = a.act
  BY DEF Instance, Rendered
<1>2. \/ Block(a) = a
      \/ \E m, n : Block(a) = [a EXCEPT !.pos = m, !.passes = n]
  BY DEF Block
<1>3. CASE Block(a) = a
  BY <1>3
<1>4. ASSUME NEW m, NEW n, Block(a) = [a EXCEPT !.pos = m, !.passes = n]
      PROVE  Rendered(Block(a), p) /\ Block(a).act = a.act
  <2>1. /\ Rendered([a EXCEPT !.pos = m, !.passes = n], p)
        /\ [a EXCEPT !.pos = m, !.passes = n].act = a.act
    BY <1>1
  <2> QED
    BY <1>4, <2>1, Zenon
<1> QED
  BY <1>2, <1>3, <1>4

LEMMA StartRendered ==
  ASSUME NEW a \in Instance, NEW p \in BOOLEAN, NEW s \in {"Playing", "PlayingLooped"}
  PROVE  Rendered([a EXCEPT !.act = TRUE, !.state = s], p)
  BY DEF Instance, Rendered

LEMMA NextRendered ==
  ASSUME TypeInv, RenderedInv, [Next]_vars, ~SeeksFadedOut
  PROVE  RenderedInv'
<1>0. /\ ListPart /\ AgendaPart /\ ActivePart /\ paused \in BOOLEAN /\ nextId \in Nat
      /\ \A i \in Ids : active[i] \in Instance /\ Rendered(active[i], paused)
  BY DEF TypeInv, ActivePart, Sounding, ClockInv, ClockPart, RenderedInv
<1>1. ASSUME paused' = paused, Ids' = Ids, \A i \in Ids : Rendered(active'[i], paused)
      PROVE  RenderedInv'
  BY <1>1 DEF RenderedInv
<1>2. CASE UNCHANGED <<active, paused>>
  BY <1>0, <1>2 DEF RenderedInv, Ids
<1>3. CASE active' = NoInstances
  BY <1>3 DEF RenderedInv, Ids, NoInstances
<1>4. ASSUME paused' = paused, NEW id, id >= nextId, id \in Nat, NEW q, NEW ready \in BOOLEAN,
             active' = Started(id, q, ready)
      PROVE  RenderedInv'
  <2>1. Ids' = Ids \cup {id} /\ \A j \in Ids : j # id
    BY <1>0, <1>4 DEF Ids, Started, ActivePart
  <2>2. /\ \A j \in Ids : active'[j] = active[j]
        /\ active'[id] = InstanceOf(q, ready)
    BY <1>4, <2>1 DEF Started
  <2>3. Rendered(InstanceOf(q, ready), paused)
    BY DEF Rendered, InstanceOf
  <2> QED
    BY <1>0, <1>4, <2>1, <2>2, <2>3 DEF RenderedInv
<1>5. CASE Preload \/ PlaySound
  <2>1. paused' = paused
    BY <1>5 DEF Preload, PlaySound
  <2>2. active' = active \/ \E q : \E ready \in BOOLEAN : active' = Started(nextId, q, ready)
    <3>1. Preload => active' = Started(nextId, selected, TRUE)
      BY DEF Preload
    <3>2. PlaySound => active' = active \/ active' = Started(nextId, task.q, FALSE)
      BY DEF PlaySound
    <3> QED
      BY <1>5, <3>1, <3>2
  <2>3. nextId >= nextId
    BY <1>0
  <2> QED
    BY <1>0, <1>2, <1>4, <2>1, <2>2, <2>3
<1>6. CASE PlayVideo
  <2>1. paused' = paused
    BY <1>6 DEF PlayVideo
  <2>2. active' = active \/ \E q : active' = Started(nextId + 1, q, FALSE)
    BY <1>6 DEF PlayVideo
  <2>3. nextId + 1 >= nextId /\ nextId + 1 \in Nat
    BY <1>0
  <2> QED
    BY <1>2, <1>4, <2>1, <2>2, <2>3
<1>7. CASE Operator
  <2>1. CASE Go \/ Fire \/ Select \/ SeekVideo \/ AdjustShowTime
    <3>1. active' = active
      BY <2>1, <1>0, QuietSteps
    <3>2. paused' = paused
      BY <2>1 DEF Go, Fire, Select, SeekVideo, AdjustShowTime
    <3> QED
      BY <1>2, <3>1, <3>2
  <2>2. CASE Stop \/ ChangeProject
    BY <1>3, <2>2 DEF Stop, ChangeProject, StopAll
  <2>3. CASE Pause
    <3>1. /\ paused' = TRUE /\ Ids' = Ids
          /\ \A i \in Ids : active'[i] =
               [active[i] EXCEPT !.act = FALSE,
                                 !.state = IF @ \in {"Playing", "PlayingLooped"}
                                           THEN "Paused" ELSE @]
      BY <2>3 DEF Pause, Ids
    <3>2. ASSUME NEW i \in Ids PROVE Rendered(active'[i], TRUE)
      <4>1. active[i] \in Instance
        BY <1>0
      <4> DEFINE b == [active[i] EXCEPT !.act = FALSE,
                                        !.state = IF @ \in {"Playing", "PlayingLooped"}
                                                  THEN "Paused" ELSE @]
      <4>2. Rendered(b, TRUE)
        BY <4>1, PausesRendered, Zenon
      <4>3. active'[i] = b
        BY <3>1
      <4> QED
        BY <4>2, <4>3, Zenon
    <3> QED
      BY <3>1, <3>2 DEF RenderedInv
  <2>4. CASE Resume
    <3>1. /\ paused' = FALSE /\ Ids' = Ids
          /\ \A i \in Ids : active'[i] =
               [active[i] EXCEPT !.act = TRUE,
                                 !.state = IF @ # "Paused" THEN @
                                           ELSE IF IsLooped(cues[active[i].q])
                                           THEN "PlayingLooped" ELSE "Playing"]
      BY <2>4 DEF Resume, Ids
    <3>2. ASSUME NEW i \in Ids PROVE Rendered(active'[i], FALSE)
      <4>1. active[i] \in Instance
        BY <1>0
      <4> DEFINE b == [active[i] EXCEPT !.act = TRUE,
                                        !.state = IF @ # "Paused" THEN @
                                                  ELSE IF IsLooped(cues[active[i].q])
                                                  THEN "PlayingLooped" ELSE "Playing"]
      <4>2. Rendered(b, FALSE)
        BY <4>1, PausesRendered, Zenon
      <4>3. active'[i] = b
        BY <3>1
      <4> QED
        BY <4>2, <4>3, Zenon
    <3> QED
      BY <3>1, <3>2 DEF RenderedInv
  <2>5. CASE SeekAudio
    <3>1. PICK i \in Ids : \E t \in 0 .. cues[active[i].q].audio - 1 :
            active' = [active EXCEPT ![i] = SeekTail([@ EXCEPT !.pos = t, !.fin = FALSE], t)]
      BY <2>5 DEF SeekAudio
    <3>2. PICK t \in 0 .. cues[active[i].q].audio - 1 :
            active' = [active EXCEPT ![i] = SeekTail([@ EXCEPT !.pos = t, !.fin = FALSE], t)]
      BY <3>1
    <3>3. t \in Nat
      OBVIOUS
    <3>4. Ids' = Ids /\ \A j \in Ids \ {i} : active'[j] = active[j]
      BY <3>2 DEF Ids
    <3>5. active'[i] = SeekTail([active[i] EXCEPT !.pos = t, !.fin = FALSE], t)
      BY <3>2 DEF Ids
    <3>6. paused \/ active[i].act \/ ~active[i].fin \/ active'[i].fin
      BY <2>5 DEF SeeksFadedOut
    <3>7. Rendered(active'[i], paused)
      BY <1>0, <3>3, <3>5, <3>6, SeekRendered
    <3>8. paused' = paused
      BY <2>5 DEF SeekAudio
    <3> QED
      BY <1>0, <1>1, <3>4, <3>7, <3>8
  <2> QED
    BY <1>5, <1>7, <2>1, <2>2, <2>3, <2>4, <2>5 DEF Operator
<1>8. CASE PlayCue
  <2>1. CASE PlayStopAll
    <3>1. CASE cue.fade /\ ~paused
      <4>1. /\ paused' = paused /\ Ids' = Ids
            /\ \A i \in Ids : active'[i] = FadedAway(active[i])
        BY <2>1, <3>1 DEF PlayStopAll, FadeAll, Ids
      <4> QED
        BY <1>0, <1>1, <3>1, <4>1, FadesRendered
    <3>2. CASE ~(cue.fade /\ ~paused)
      BY <1>3, <2>1, <3>2 DEF PlayStopAll, StopAll
    <3> QED
      BY <3>1, <3>2
  <2>2. CASE PlayStopTarget
    <3>1. /\ paused' = paused /\ Ids' = Ids
          /\ \A i \in Ids : active'[i] \in {active[i], Stopped(active[i], cue)}
      BY <2>2 DEF PlayStopTarget, StopTarget, Ids
    <3> QED
      BY <1>0, <1>1, <3>1, StopsRendered
  <2>3. CASE PlayVolume
    <3>1. /\ paused' = paused /\ Ids' = Ids
          /\ \A i \in Ids : \/ active'[i] = active[i]
                            \/ active'[i] = [active[i] EXCEPT !.fade = "out"]
                            \/ active'[i] = [active[i] EXCEPT !.fade = "level"]
      BY <2>3 DEF PlayVolume, Ids
    <3> QED
      BY <1>0, <1>1, <3>1, FadesRendered, ZenonT(40)
  <2>4. CASE PlayReady
    <3> DEFINE i == ReadyInstance(task.q)
    <3>1. /\ Ids' = Ids /\ i \in Ids /\ \A j \in Ids \ {i} : active'[j] = active[j]
          /\ active' = [active EXCEPT ![i].act = TRUE,
                        ![i].state = IF IsLooped(cue) THEN "PlayingLooped" ELSE "Playing"]
      BY <1>0, <2>4, ReviveSteps DEF Revives
    <3> HIDE DEF i
    <3>2. active'[i] = [active[i] EXCEPT !.act = TRUE,
                        !.state = IF IsLooped(cue) THEN "PlayingLooped" ELSE "Playing"]
      BY <3>1 DEF Ids
    <3>3. Rendered(active'[i], paused)
      <4>1. PICK s \in {"Playing", "PlayingLooped"} :
                active'[i] = [active[i] EXCEPT !.act = TRUE, !.state = s]
        BY <3>2
      <4>2. Rendered([active[i] EXCEPT !.act = TRUE, !.state = s], paused)
        BY <1>0, <3>1, StartRendered
      <4> QED
        BY <4>1, <4>2, Zenon
    <3>4. paused' = paused
      BY <2>4 DEF PlayReady
    <3> QED
      BY <1>0, <1>1, <3>1, <3>3, <3>4
  <2>5. CASE \/ PlayRefused \/ PlayRemote \/ PlayDelayed \/ PlayImage \/ PlayExternal
             \/ PlayDmxShow \/ PlayGroup \/ PlayTimeCode \/ PlayGoto
    <3>1. active' = active
      BY <1>0, <2>5, QuietSteps
    <3>2. paused' = paused
      BY <2>5 DEF PlayRefused, PlayRemote, PlayDelayed, PlayImage, PlayExternal,
         PlayDmxShow, PlayGroup, PlayTimeCode, PlayGoto
    <3> QED
      BY <1>2, <3>1, <3>2
  <2> QED
    BY <1>5, <1>6, <1>8, <2>1, <2>2, <2>3, <2>4, <2>5 DEF PlayCue
<1>9. CASE Work /\ ~PlayCue
  <2>1. CASE CheckFadeOuts
    <3>1. /\ paused' = paused /\ Ids' = Ids
          /\ \A i \in Ids : active'[i] = TailFade(active[i])
      BY <2>1 DEF CheckFadeOuts, AudioPhase, Ids
    <3> QED
      BY <1>0, <1>1, <3>1, PhasesRendered
  <2>2. CASE CheckPendingStops
    <3>1. /\ paused' = paused /\ Ids' = Ids
          /\ \A i \in Ids : active'[i] = PendingStop(active[i])
      BY <2>2 DEF CheckPendingStops, AudioPhase, Ids
    <3> QED
      BY <1>0, <1>1, <3>1, PhasesRendered
  <2>3. CASE FinishAudioHalf \/ FinishCue
    <3>1. paused' = paused /\ active' = Without(task.id)
      BY <2>3 DEF FinishAudioHalf, FinishCue
    <3>2. Ids' \subseteq Ids /\ \A i \in Ids' : active'[i] = active[i]
      BY <3>1 DEF Ids, Without
    <3> QED
      BY <1>0, <3>1, <3>2 DEF RenderedInv
  <2>4. CASE CheckVideoLoops
    <3>1. paused' = paused /\ Ids' = Ids
      BY <2>4 DEF CheckVideoLoops, Ids
    <3>2. \A i \in Ids : active'[i] = active[i] \/ \E n : active'[i] = [active[i] EXCEPT !.videoLoops = n]
      <4>1. \/ active' = active
            \/ \E k, n : active' = [active EXCEPT ![k].videoLoops = n]
        BY <2>4 DEF CheckVideoLoops
      <4> QED
        BY <4>1 DEF Ids
    <3>3. ASSUME NEW i \in Ids PROVE Rendered(active'[i], paused)
      <4>1. CASE active'[i] = active[i]
        BY <1>0, <4>1
      <4>2. ASSUME NEW n, active'[i] = [active[i] EXCEPT !.videoLoops = n]
            PROVE  Rendered(active'[i], paused)
        <5>1. Rendered([active[i] EXCEPT !.videoLoops = n], paused)
          BY <1>0, FadesRendered
        <5> QED
          BY <4>2, <5>1, Zenon
      <4> QED
        BY <3>2, <4>1, <4>2
    <3> QED
      BY <1>1, <3>1, <3>3
  <2>5. CASE \/ EndGo \/ PlayAfterLast \/ CheckFinishedCues \/ CheckDelayedCues
             \/ CheckTimecodes \/ TriggerTimecode \/ ExpireTimecodes
    <3>1. active' = active
      BY <1>0, <2>5, QuietSteps
    <3>2. paused' = paused
      BY <2>5 DEF EndGo, PlayAfterLast, CheckFinishedCues, CheckDelayedCues,
         CheckTimecodes, TriggerTimecode, ExpireTimecodes
    <3> QED
      BY <1>2, <3>1, <3>2
  <2> QED
    BY <1>9, <2>1, <2>2, <2>3, <2>4, <2>5 DEF Work
<1>10. CASE TickAgain \/ TimePasses
  <2>1. paused' = paused
    BY <1>10 DEF TickAgain, TimePasses, Tick
  <2> QED
    BY <1>0, <1>2, <1>10, <2>1, QuietSteps
<1>11. CASE Environment
  <2>1. CASE \E i \in Ids : Render(i)
    <3>1. PICK i \in Ids : Render(i)
      BY <2>1
    <3>2. Ids' = Ids /\ paused' = paused /\ \A j \in Ids \ {i} : active'[j] = active[j]
      BY <3>1 DEF Render, Ids
    <3>3. /\ active[i].act
          /\ \/ active'[i] = [active[i] EXCEPT !.fin = TRUE]
             \/ active'[i] = Block(active[i])
             \/ \E block \in {active[i], Block(active[i])} : active'[i] = FadeOver(block)
      BY <3>1 DEF Render, Ids
    <3>4. Rendered(active'[i], paused)
      <4> DEFINE a == active[i]
      <4>1. /\ a \in Instance /\ Rendered(a, paused) /\ Block(a) \in Instance
            /\ Rendered(Block(a), paused) /\ Block(a).act
        BY <1>0, <3>3, BlockFollows, BlockRendered
      <4>2. a.act
        BY <3>3
      <4>3. CASE active'[i] = [a EXCEPT !.fin = TRUE]
        BY <1>0, <4>1, <4>3, FadesRendered
      <4>4. CASE active'[i] = FadeOver(a)
        BY <1>0, <4>1, <4>2, <4>4, FadesRendered
      <4>5. CASE active'[i] = FadeOver(Block(a))
        BY <1>0, <4>1, <4>5, FadesRendered
      <4> QED
        BY <3>3, <4>1, <4>3, <4>4, <4>5
    <3> QED
      BY <1>0, <1>1, <3>2, <3>4
  <2>2. CASE \/ \E s \in streams : VideoEof(s) \/ VideoFailed(s)
             \/ \E q \in shows : DmxShowEnds(q)
             \/ \E q \in doneShows : ExternalFinished(q)
    <3>1. active' = active
      BY <1>0, <2>2, QuietSteps
    <3>2. paused' = paused
      BY <2>2 DEF VideoEof, VideoEofIgnored, VideoEofLoops, VideoEofEnds, VideoFailed,
         DmxShowEnds, ExternalFinished
    <3> QED
      BY <1>2, <3>1, <3>2
  <2> QED
    BY <1>11, <2>1, <2>2 DEF Environment
<1>12. CASE UNCHANGED vars
  BY <1>2, <1>12 DEF vars, media, playing
<1> QED
  BY <1>7, <1>8, <1>9, <1>10, <1>11, <1>12 DEF Next

\* A cue shown as playing is being rendered or has finished, so that the next
\* tick can take it, and one shown as paused is silent, whatever is preloaded,
\* started, faded, stopped or sought during a pause or outside of one, as long
\* as no seek reaches an input that has faded out and is not yet taken: its end
\* is forgotten, it is not rendered again and the cue never ends.
THEOREM RenderedCorrect ==
  Spec /\ [][~SeeksFadedOut]_vars => []PlayingIsRendered
<1> DEFINE I == TypeInv /\ RenderedInv
<1>1. Init => I
  <2>1. Init => RenderedInv
    BY DEF Init, NoInstances, RenderedInv, Ids
  <2> QED
    BY <2>1, InitTypes
<1>2. I /\ [Next]_vars /\ [~SeeksFadedOut]_vars => I'
  <2>1. CASE ~SeeksFadedOut
    BY <2>1, NextTypes, NextRendered
  <2>2. CASE UNCHANGED vars
    <3>1. TypeInv => TypeInv'
      BY <2>2, NextTypes
    <3>2. RenderedInv => RenderedInv'
      BY <2>2 DEF RenderedInv, Ids, vars, media, playing
    <3> QED
      BY <3>1, <3>2
  <2> QED
    BY <2>1, <2>2
<1>3. I => PlayingIsRendered
  BY DEF RenderedInv, Rendered, PlayingIsRendered
<1> QED
  BY <1>1, <1>2, <1>3, PTL DEF Spec

-----------------------------------------------------------------------------
(* After a Stop All *)

\* The instances listed to be finished whose follow is to play.
ToFollow ==
    {agenda[n].id : n \in {k \in DOMAIN agenda : agenda[k].op = "finish" /\ agenda[k].follow}}

\* What was stopped has lost its follow, on the list and among what plays, and
\* what has chained no longer plays, so that it cannot be stopped.
ChainInv ==
    /\ log.chained \subseteq 1 .. nextId - 1 /\ log.stopped \subseteq 1 .. nextId - 1
    /\ log.chained \cap Ids = {}
    /\ log.chained \cap log.stopped = {}
    /\ \A i \in Ids \cap log.stopped : ~active[i].follow
    /\ ToFollow \cap log.stopped = {}

\* A Stop All plays while cues that ended in the same tick are still listed.
StopsAmongEnds == PlayStopAll /\ ToFinish # {}

\* What a step adds to the list.
LEMMA ToFollowFrom ==
  ASSUME TypeInv, [Next]_vars
  PROVE  /\ ToFollow' \subseteq ToFollow \cup {i \in Ids : active[i].follow}
         /\ PlayStopAll => ToFinish' \subseteq ToFinish
<1>1. ASSUME NEW n \in DOMAIN agenda', agenda'[n].op = "finish", agenda'[n].follow
      PROVE  agenda'[n].id \in ToFollow \cup {i \in Ids : active[i].follow}
  BY <1>1, FinishTasksFrom DEF ToFollow
<1>2. ~(PlayStopAll /\ CheckFinishedCues)
  BY DEF PlayStopAll, PlaysStop, Playing, CheckFinishedCues, Doing
<1>3. ASSUME PlayStopAll, NEW n \in DOMAIN agenda', agenda'[n].op = "finish"
      PROVE  agenda'[n].id \in ToFinish
  BY <1>2, <1>3, FinishTasksFrom DEF ToFinish
<1> QED
  BY <1>1, <1>3 DEF ToFollow, ToFinish

\* What a step records of follows and of stops.
LEMMA ChainsTouched ==
  ASSUME LogPart, [Next]_vars
  PROVE  /\ \/ log'.chained = log.chained
            \/ FinishCue /\ task.follow /\ log'.chained = log.chained \cup {task.id}
         /\ \/ log'.stopped = log.stopped
            \/ /\ PlayStopAll \/ Stop \/ ChangeProject
               /\ log'.stopped = log.stopped \cup Ids
<1>0. log \in LogType
  BY DEF LogPart, LogType
<1> DEFINE Same(r) == r.chained = log.chained /\ r.stopped = log.stopped
<1>1. /\ \A S : Same([log EXCEPT !.pictureCut = S])
      /\ \A f, b : Same([log EXCEPT !.finishes = f, !.quiet = b])
      /\ \A b : Same([log EXCEPT !.quiet = b])
  BY <1>0 DEF LogType
<1>2. Same(Cut(log))
  BY <1>1 DEF Cut
<1>3. CASE PlayVideo
  <2>1. \E f, S : log' = [Cut(log) EXCEPT !.finishes = f, !.av = S]
    BY <1>3 DEF PlayVideo
  <2> QED
    BY <1>0, <2>1 DEF Cut, LogType
<1>4. CASE PlayImage \/ PlayStopTarget
  <2>1. log' = log \/ log' = Cut(log)
    BY <1>4 DEF PlayImage, PlayStopTarget, StopTarget
  <2> QED
    BY <1>2, <2>1
<1>5. CASE PlayStopAll \/ Stop \/ ChangeProject
  <2>1. Silenced.chained = log.chained /\ Silenced.stopped = log.stopped \cup Ids
        /\ [Silenced EXCEPT !.quiet = TRUE].chained = log.chained
        /\ [Silenced EXCEPT !.quiet = TRUE].stopped = log.stopped \cup Ids
    BY <1>0 DEF Silenced, Cut, LogType
  <2>2. log' = Silenced \/ log' = [Silenced EXCEPT !.quiet = TRUE]
    BY <1>5 DEF PlayStopAll, Stop, ChangeProject
  <2> QED
    BY <1>5, <2>1, <2>2
<1>6. CASE FinishAudioHalf
  <2>1. log' = [log EXCEPT !.audioEnded = @ \cup {task.id}]
    BY <1>6 DEF FinishAudioHalf
  <2> QED
    BY <1>0, <2>1 DEF LogType
<1>7. CASE FinishCue
  <2>1. \E S : log' = [Finished(log, task.id) EXCEPT
                        !.audioEnded = S,
                        !.chained = IF task.follow THEN log.chained \cup {task.id} ELSE log.chained]
    <3>1. Finished(log, task.id).chained = log.chained
      BY <1>0 DEF Finished, LogType
    <3> QED
      BY <1>7, <3>1 DEF FinishCue
  <2>2. /\ log'.stopped = log.stopped
        /\ log'.chained = IF task.follow THEN log.chained \cup {task.id} ELSE log.chained
    BY <1>0, <2>1 DEF Finished, LogType
  <2> QED
    BY <1>7, <2>2
<1>8. CASE \E s \in streams : VideoEofEnds(s) \/ VideoFailed(s)
  <2>1. log' = log \/ \E r \in {log, Finished(log, video.id)} :
                      \E S : log' = [r EXCEPT !.pictureEnded = S]
    BY <1>8 DEF VideoEofEnds, VideoFailed
  <2> QED
    BY <1>0, <2>1 DEF Finished, LogType
<1>9. CASE log' = log \/ log' = [log EXCEPT !.quiet = FALSE]
  BY <1>1, <1>9
<1>10. CASE \E quiet \in {log.quiet, FALSE} :
                 log' = [log EXCEPT !.finishes = Append(@, 0), !.quiet = quiet]
  BY <1>1, <1>10
<1> QED
  BY <1>3, <1>4, <1>5, <1>6, <1>7, <1>8, <1>9, <1>10, LogTouched

LEMMA NextChain ==
  ASSUME TypeInv, ChainInv, [Next]_vars, ~StopsAmongEnds
  PROVE  ChainInv'
<1>0. /\ LogPart /\ ListPart /\ AgendaPart /\ ActivePart /\ nextId \in Nat /\ nextId' \in Nat
      /\ nextId' >= nextId /\ Ids \subseteq 1 .. nextId - 1
      /\ 1 .. nextId - 1 \subseteq 1 .. nextId' - 1
  <2>1. nextId \in Nat /\ nextId' \in Nat /\ nextId' >= nextId
    BY NextActive DEF TypeInv, ActivePart
  <2>2. 1 .. nextId - 1 \subseteq 1 .. nextId' - 1
    BY <2>1, MoreIds
  <2> QED
    BY <2>1, <2>2 DEF TypeInv, ActivePart
<1>1. CASE Stop \/ ChangeProject
  <2>1. /\ Ids' = {} /\ agenda' = <<>>
    BY <1>1 DEF Stop, ChangeProject, StopAll, Ids, NoInstances, Command, Idle
  <2>2. log'.chained = log.chained /\ log'.stopped \subseteq log.stopped \cup Ids
    <3>1. ~FinishCue
      BY <1>1 DEF FinishCue, Doing, Stop, ChangeProject, Command
    <3> QED
      BY <1>0, <3>1, ChainsTouched
  <2>3. ToFollow' = {}
    BY <2>1 DEF ToFollow
  <2> QED
    BY <1>0, <2>1, <2>2, <2>3 DEF ChainInv
<1>2. CASE PlayStopAll
  <2>1. ToFinish = {} /\ ToFinish' = {}
    BY <1>2, ToFollowFrom DEF StopsAmongEnds
  <2>2. ToFollow' = {}
    BY <2>1 DEF ToFollow, ToFinish
  <2>3. log'.chained = log.chained /\ log'.stopped \subseteq log.stopped \cup Ids
    <3>1. ~FinishCue
      BY <1>2 DEF FinishCue, Doing, PlayStopAll, PlaysStop, Playing
    <3> QED
      BY <1>0, <3>1, ChainsTouched
  <2>4. Ids' \subseteq Ids /\ \A i \in Ids' : ~active'[i].follow
    <3>1. CASE FadeAll
      <4>1. Ids' = Ids /\ \A i \in Ids : active'[i] = FadedAway(active[i])
        BY <3>1 DEF FadeAll, Ids
      <4>2. \A a \in Instance : ~FadedAway(a).follow
        BY DEF FadedAway, Instance
      <4> QED
        BY <4>1, <4>2 DEF TypeInv, ActivePart, Sounding
    <3>2. CASE StopAll
      BY <3>2 DEF StopAll, Ids, NoInstances
    <3> QED
      BY <1>2, <3>1, <3>2 DEF PlayStopAll
  <2> QED
    BY <1>0, <2>2, <2>3, <2>4 DEF ChainInv
<1>3. CASE ~(Stop \/ ChangeProject \/ PlayStopAll)
  <2>1. log'.stopped = log.stopped
    BY <1>0, <1>3, ChainsTouched
  <2>2. ToFollow' \cap log'.stopped = {}
    BY <2>1, ToFollowFrom DEF ChainInv
  <2>3. (Ids' \subseteq Ids /\ \A i \in Ids' : active'[i].follow => active[i].follow)
        \/ \E i : i \in Nat /\ i >= nextId /\ i \notin Ids /\ Ids' = Ids \cup {i}
                  /\ \A j \in Ids : active'[j] = active[j]
    <3>1. CASE Dwindles
      BY <3>1 DEF Dwindles, Follows
    <3>2. CASE \E i, q, ready : Begins(i, q, ready)
      <4>1. PICK i, q, ready : Begins(i, q, ready)
        BY <3>2
      <4>2. i \in Nat /\ i >= nextId /\ Ids' = Ids \cup {i}
        BY <4>1 DEF Begins, Started, Ids
      <4>3. i \notin Ids
        BY <1>0, <4>2
      <4>4. \A j \in Ids : active'[j] = active[j]
        BY <4>1, <4>3 DEF Begins, Started
      <4> QED
        BY <4>2, <4>3, <4>4
    <3>3. CASE \E i : Revives(i)
      BY <3>3 DEF Revives
    <3> QED
      BY <1>0, <3>1, <3>2, <3>3, InstanceSteps
  <2>4. \A i \in Ids' : i \in Ids \/ (i \in Nat /\ i >= nextId)
    BY <2>3
  <2>5. \A i \in Ids' \cap log'.stopped : ~active'[i].follow
    <3> TAKE i \in Ids' \cap log'.stopped
    <3>1. i \in Ids /\ ~active[i].follow
      BY <1>0, <2>1, <2>4 DEF ChainInv
    <3> QED
      BY <2>3, <3>1
  <2>6. CASE log'.chained = log.chained
    <3>1. log'.chained \cap Ids' = {}
      BY <1>0, <2>4, <2>6 DEF ChainInv
    <3> QED
      BY <1>0, <2>1, <2>2, <2>5, <2>6, <3>1 DEF ChainInv
  <2>7. CASE FinishCue /\ task.follow /\ log'.chained = log.chained \cup {task.id}
    <3>1. Ids' = Ids \ {task.id}
      BY <2>7 DEF FinishCue, Without, Ids
    <3>2. 1 \in DOMAIN agenda /\ task = agenda[1] /\ task.op = "finish"
      <4>1. agenda \in Seq(Calls(cues, nextId)) /\ agenda # <<>>
        BY <1>0, <2>7 DEF AgendaPart, FinishCue, Doing, Idle
      <4> QED
        BY <2>7, <4>1 DEF task, FinishCue, Doing
    <3>3. task.id \in ToFollow /\ task.id \in ToFinish
      BY <2>7, <3>2 DEF ToFollow, ToFinish
    <3>4. task.id \in 1 .. nextId - 1 /\ task.id \notin log.stopped
      BY <3>3, ToFinishAreIds DEF ChainInv
    <3> QED
      BY <1>0, <2>1, <2>2, <2>5, <2>7, <3>1, <3>4 DEF ChainInv
  <2> QED
    BY <1>0, <2>6, <2>7, ChainsTouched
<1> QED
  BY <1>1, <1>2, <1>3

\* Nothing chains off a cue that was running when everything was stopped: what
\* fades away has lost its follow (stop_all_faded), what is cut is gone, and
\* neither is listed to be finished - as long as no Stop All plays while cues
\* that ended in the same tick are still listed (check_finished_cues), which
\* ShowEngineBatch.cfg shows.
THEOREM ChainsCorrect ==
  Spec /\ [][~StopsAmongEnds]_vars => []NothingChains
<1> DEFINE I == TypeInv /\ ChainInv
<1>1. Init => I
  <2>1. Init => ChainInv
    BY DEF Init, NoInstances, NothingLogged, ChainInv, Ids, ToFollow
  <2> QED
    BY <2>1, InitTypes
<1>2. I /\ [Next]_vars /\ [~StopsAmongEnds]_vars => I'
  <2>1. CASE ~StopsAmongEnds
    BY <2>1, NextTypes, NextChain
  <2>2. CASE UNCHANGED vars
    <3>1. TypeInv => TypeInv'
      BY <2>2, NextTypes
    <3>2. ChainInv => ChainInv'
      BY <2>2 DEF ChainInv, ToFollow, Ids, vars, media, playing
    <3> QED
      BY <3>1, <3>2
  <2> QED
    BY <2>1, <2>2
<1>3. I => NothingChains
  BY DEF ChainInv, NothingChains
<1> QED
  BY <1>1, <1>2, <1>3, PTL DEF Spec
=============================================================================
