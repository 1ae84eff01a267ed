----------------------------- MODULE ShowEngine -----------------------------
(***************************************************************************)
(* The show engine (ShowEngine of crates/cuepool/src/engine.rs): what runs *)
(* when the operator presses GO, Stop or Pause, when the event loop ticks  *)
(* and when a decoder or a recorded DMX show reports its end.              *)
(*                                                                         *)
(* The event loop calls the engine one call at a time, but a call is a     *)
(* cascade: a cue plays its group members, a Stop plays its AfterLast      *)
(* follow, a tick walks six phases.  The audio callback keeps running      *)
(* between any two steps of it.  So a call is an `agenda`, a stack of      *)
(* tasks; one action executes the topmost task and pushes what it calls.   *)
(*                                                                         *)
(* Audio is measured in blocks (Cue.audio), time in ticks of the engine's  *)
(* clock; a fade lasts as long as the callback likes.                      *)
(***************************************************************************)
EXTENDS CueList

CONSTANTS
    Shows,       \* the cue lists a project may have
    StartTime,   \* value of the engine's clock when the project is opened
    MaxEpoch,    \* bound: restarts of a looped picture
    MaxSeek,     \* bound: last media position of a seek in a silent video
    MaxVoices,   \* the instances for whose inputs fairness is assumed
    Limits(_)    \* bounds for a cue list: the commands and events explored with
                 \* it, how many commands in a behaviour, the last clock value

ASSUME ShowsAssumption == Shows \subseteq Seq(Cue)
ASSUME BoundsAssumption ==
    /\ StartTime \in Nat
    /\ \A list \in Shows :
        /\ Limits(list).commands \in Nat
        /\ Limits(list).time \in Nat
    /\ MaxEpoch \in Nat \ {0}
    /\ MaxSeek \in Nat
    /\ MaxVoices \in Nat

VARIABLES
    cues,       \* the cue list of the open project
    selected,   \* selected_cue_id, the standby cue; 0 for none
    active,     \* active_cues by instance id (the list is in that order), each
                \* with its mixer input
    nextId,     \* next_active_cue_instance_id
    delayed,    \* delayed_cues
    timecodes,  \* active_timecodes
    clock,      \* show_start, show_pause_started, show_paused_offset,
                \* show_adjustment_secs and triggered_timecodes
    paused,     \* paused
    now,        \* now
    arming,     \* go_in_progress
    video,      \* current_video
    half,       \* instance of pending_video_half; 0 for none
    picture,    \* current_picture_qid; 0 for none
    agenda,     \* what the current call has still to do, topmost first
    streams,    \* <<instance, epoch>> of the decoders still to report
    shows,      \* Q#s of the recorded DMX shows playing
    doneShows,  \* finished_shows: Q#s of those whose end is not yet taken
    budget,     \* bound: commands left
    ran,        \* history: time the show clock has run
    fired,      \* history: times check_timecodes fired each cue in this run
    shown,      \* history: media position the picture must have
    log         \* history: what happened to each instance

playing == <<active, nextId>>
waiting == <<delayed, timecodes>>
pictures == <<video, half, picture, streams, shown>>
dmx == <<shows, doneShows>>
clockVars == <<clock, ran, fired>>
media == <<playing, pictures, dmx, log>>
fixed == <<cues, now, arming>>
vars == <<fixed, paused, budget, selected, media, waiting, clockVars, agenda>>

None == -1   \* Option::None of a time

GreaterOf(m, n) == IF m >= n THEN m ELSE n
LesserOf(m, n) == IF m <= n THEN m ELSE n

\* saturating_sub
Monus(m, n) == GreaterOf(m - n, 0)

NoVideo == [q |-> 0, id |-> 0, epoch |-> 0, audio |-> FALSE,
            origin |-> 0, pausedAt |-> None]
NoStop == [on |-> FALSE, fade |-> FALSE, until |-> 0]
StoppedClock == [start |-> None, pausedAt |-> None, offset |-> 0,
                 adjustment |-> 0, triggered |-> {}]

NothingFired == [q \in Qids(cues) |-> 0]
NothingLogged == [finishes |-> <<>>, av |-> {}, stopped |-> {}, chained |-> {},
                  audioEnded |-> {}, pictureEnded |-> {}, pictureCut |-> {},
                  quiet |-> FALSE]

-----------------------------------------------------------------------------
(* Tasks *)

Task(op, q) == [op |-> op, q |-> q, id |-> 0, follow |-> FALSE, at |-> 0]
Tasks(op, qids) == [i \in DOMAIN qids |-> Task(op, qids[i])]

Idle == agenda = <<>>
Doing(op) == ~Idle /\ Head(agenda).op = op
task == Head(agenda)

\* The task is done, save for the calls it makes.
Continue(calls) == agenda' = calls \o Tail(agenda)
Return == Continue(<<>>)

\* A command of the operator, while the event loop is between two calls.
Command(name) ==
    /\ Idle
    /\ name \in Limits(cues).allowed
    /\ budget > 0
    /\ budget' = budget - 1

-----------------------------------------------------------------------------
(* Cues that play *)

InstanceOf(q, ready) ==
    [q |-> q, follow |-> TRUE,
     state |-> IF ready THEN "Ready"
               ELSE IF IsLooped(cues[q]) THEN "PlayingLooped" ELSE "Playing",
     fadeStarted |-> FALSE, pending |-> NoStop, videoLoops |-> 0,
     act |-> ~ready, fin |-> FALSE, fade |-> "none", pos |-> 0, passes |-> 0]

Ids == DOMAIN active
NoInstances == [id \in {} |-> 0]
Started(id, q, ready) ==
    [i \in Ids \cup {id} |-> IF i = id THEN InstanceOf(q, ready) ELSE active[i]]
Without(id) == [i \in Ids \ {id} |-> active[i]]
Live(a) == a.state \in {"Playing", "PlayingLooped", "Paused"}
First(S) == LeastOr(S, 0)

\* Fault: a paused cue does not count as active.
CueIsActiveUnlessPaused(q) ==
    \/ video.q = q
    \/ picture = q
    \/ \E i \in Ids : active[i].q = q /\ active[i].state \in {"Playing", "PlayingLooped"}

\* cue_is_active
CueIsActive(q) ==
    \/ video.q = q
    \/ picture = q
    \/ \E i \in Ids : active[i].q = q /\ Live(active[i])

\* The preloaded instance of q; 0 if there is none.
ReadyInstance(q) ==
    First({i \in Ids : active[i].q = q /\ active[i].state = "Ready"})

\* picture_ends_on_its_own
PictureEndsOnItsOwn(v) == ~cues[v.q].mtc /\ cues[v.q].loop = "OneShot"

\* Fault: a picture that starts during a pause runs.
ShowVideoRunning(v, others) ==
    /\ video' = [v EXCEPT !.epoch = @ + 1, !.origin = now, !.pausedAt = None]
    /\ streams' = others \cup {<<v.id, v.epoch + 1>>}
    /\ shown' = 0

\* push_video_action: (re)start the picture of v under a new epoch; `others`
\* are the decoders that have still to report.
ShowVideo(v, others) ==
    /\ video' = [v EXCEPT !.epoch = @ + 1, !.origin = now,
                          !.pausedAt = IF paused THEN 0 ELSE None]
    /\ streams' = others \cup {<<v.id, v.epoch + 1>>}
    /\ shown' = 0

\* video_position
VideoPosition ==
    IF video.pausedAt # None THEN video.pausedAt ELSE Monus(now, video.origin)

\* Fault: a seek during a pause moves the running clock only.
VideoSoughtToRunning(t) == [video EXCEPT !.origin = Monus(now, t)]

\* The current video after a seek to t.
VideoSoughtTo(t) ==
    IF paused THEN [video EXCEPT !.pausedAt = t]
              ELSE [video EXCEPT !.origin = Monus(now, t)]

\* The log when the picture of the current video is taken away.
Cut(record) ==
    [record EXCEPT !.pictureCut = @ \cup ({video.id} \ {0})]

\* Fault: only a picture that has already ended makes the audio a half.
IsAudioHalfPendingOnly(id) == half = id

\* audio_half_of_pending_video
IsAudioHalf(id) ==
    \/ video.id = id /\ video.audio /\ PictureEndsOnItsOwn(video)
    \/ half = id

Finished(record, id) == [record EXCEPT !.finishes[id] = @ + 1]

-----------------------------------------------------------------------------
(* The show clock *)

\* show_elapsed
Elapsed ==
    LET until == IF clock.pausedAt # None THEN clock.pausedAt ELSE now
    IN  GreaterOf(Monus(Monus(until, clock.start), clock.offset)
                    + clock.adjustment, 0)

\* reset_show_clock
ResetShowClock ==
    /\ clock' = StoppedClock
    /\ ran' = 0
    /\ fired' = NothingFired

\* Fault: a clock armed during a pause keeps the old pause mark.
ArmShowClockRunning(q) ==
    IF /\ arming
       /\ clock.start = None
       /\ StartsShowClock(cues[q]) \/ DelayedStartsShowClock(cues, q)
    THEN /\ clock' = [clock EXCEPT !.start = now, !.offset = 0, !.adjustment = 0]
         /\ ran' = 0
         /\ fired' = NothingFired
    ELSE UNCHANGED clockVars

\* The part of play_cue that starts a stopped clock when GO reaches q.
ArmShowClock(q) ==
    IF /\ arming
       /\ clock.start = None
       /\ StartsShowClock(cues[q]) \/ DelayedStartsShowClock(cues, q)
    THEN /\ clock' = [clock EXCEPT !.start = now, !.offset = 0, !.adjustment = 0,
                                   !.pausedAt = IF paused THEN now ELSE None]
         /\ ran' = 0
         /\ fired' = NothingFired
    ELSE UNCHANGED clockVars

\* adjust_show_time
AdjustShowTime ==
    /\ Command("Adjust")
    /\ \E delta \in {-1, 1} : clock' = [clock EXCEPT !.adjustment = @ + delta]
    /\ UNCHANGED <<fixed, paused, selected, media, waiting, ran, fired,
                   agenda>>

-----------------------------------------------------------------------------
(* GO, Fire and the standby cue *)

GoClears == clock.start = None

Go ==
    /\ Command("Go")
    /\ clock' = IF GoClears THEN [clock EXCEPT !.triggered = {}] ELSE clock
    /\ timecodes' = IF GoClears THEN <<>> ELSE timecodes
    /\ IF selected \in Qids(cues)
       THEN /\ agenda' = Tasks("play", WithLastRun(cues, selected))
                            \o <<Task("endGo", selected)>>
            /\ arming' = TRUE
       ELSE UNCHANGED <<agenda, arming>>
    /\ log' = [log EXCEPT !.quiet = FALSE]
    /\ UNCHANGED <<cues, now, paused, selected, playing, pictures, dmx,
                   delayed, ran, fired>>

\* The end of go: the playhead moves on, unless a Goto has moved it.
EndGo ==
    /\ Doing("endGo")
    /\ arming' = FALSE
    /\ selected' = IF cues[task.q].kind = "Goto" \/ NextStandby(cues, task.q) = 0
                   THEN selected
                   ELSE NextStandby(cues, task.q)
    /\ Return
    /\ UNCHANGED <<cues, now, paused, budget, media, waiting, clockVars>>

Fire ==
    /\ Command("Fire")
    /\ \E q \in Qids(cues) : agenda' = Tasks("play", WithLastRun(cues, q))
    /\ log' = [log EXCEPT !.quiet = FALSE]
    /\ UNCHANGED <<fixed, paused, selected, playing, pictures, dmx, waiting,
                   clockVars>>

Select ==
    /\ Command("Select")
    /\ selected' \in Qids(cues) \ {selected}
    /\ UNCHANGED <<fixed, paused, media, waiting, clockVars, agenda>>

Preload ==
    /\ Command("Preload")
    /\ selected \in Qids(cues)
    /\ ~\E i \in Ids : active[i].q = selected
    /\ cues[selected].kind \in {"Sound", "Video"}
    /\ cues[selected].audio > 0
    /\ active' = Started(nextId, selected, TRUE)
    /\ nextId' = nextId + 1
    /\ log' = [log EXCEPT !.finishes = Append(@, 0), !.quiet = FALSE]
    /\ UNCHANGED <<fixed, paused, selected, pictures, dmx, waiting, clockVars,
                   agenda>>

-----------------------------------------------------------------------------
(* play_cue: the cue of the topmost task, one action for each way through.  *)
(* A "start" task is a delayed cue whose delay is over.                     *)

Playing == Doing("play") \/ Doing("start")
cue == cues[task.q]
Refused == ~cue.enabled \/ (~cue.retriggerable /\ CueIsActive(task.q))
Waits == Doing("play") /\ cue.delay > 0

PlayRefused ==
    /\ Playing
    /\ Refused
    /\ Return
    /\ UNCHANGED <<fixed, paused, budget, selected, media, waiting, clockVars>>

\* Sent to the node that owns the cue; nothing happens here.
PlayRemote ==
    /\ Playing
    /\ ~Refused
    /\ cue.remote
    /\ ArmShowClock(task.q)
    /\ Return
    /\ UNCHANGED <<fixed, paused, budget, selected, media, waiting>>

PlayDelayed ==
    /\ Playing
    /\ ~Refused
    /\ ~cue.remote
    /\ Waits
    /\ ArmShowClock(task.q)
    /\ delayed' = Append(delayed, [q |-> task.q, at |-> now + cue.delay])
    /\ Return
    /\ UNCHANGED <<fixed, paused, budget, selected, media, timecodes>>

PlayReady ==
    LET i == ReadyInstance(task.q) IN
    /\ Playing
    /\ ~Refused
    /\ ~cue.remote
    /\ ~Waits
    /\ i # 0
    /\ ArmShowClock(task.q)
    /\ active' = [active EXCEPT
                    ![i].act = TRUE,
                    ![i].state = IF IsLooped(cue) THEN "PlayingLooped" ELSE "Playing"]
    /\ Return
    /\ UNCHANGED <<fixed, paused, budget, selected, nextId, pictures, dmx, log,
                   waiting>>

Plays(kind) ==
    /\ Playing
    /\ ~Refused
    /\ ~cue.remote
    /\ ~Waits
    /\ ReadyInstance(task.q) = 0
    /\ cue.kind = kind
    /\ ArmShowClock(task.q)

PlaySound ==
    /\ Plays("Sound")
    /\ IF cue.audio > 0
       THEN /\ active' = Started(nextId, task.q, FALSE)
            /\ nextId' = nextId + 1
            /\ log' = [log EXCEPT !.finishes = Append(@, 0)]
       ELSE UNCHANGED <<active, nextId, log>>
    /\ Return
    /\ UNCHANGED <<fixed, paused, budget, selected, pictures, dmx, waiting>>

\* The instance of the audio track, if it plays, is the video's instance; an
\* id is allocated beforehand in any case.
PlayVideo ==
    LET hasAudio == ~cue.mtc /\ cue.audio > 0
        id == IF hasAudio THEN nextId + 1 ELSE nextId
        new == [NoVideo EXCEPT !.q = task.q, !.id = id, !.audio = hasAudio]
    IN
    /\ Plays("Video")
    /\ active' = IF hasAudio THEN Started(id, task.q, FALSE) ELSE active
    /\ nextId' = id + 1
    /\ picture' = 0
    /\ ShowVideo(new, streams)
    /\ log' = [Cut(log) EXCEPT
                    !.finishes = @ \o IF hasAudio THEN <<0, 0>> ELSE <<0>>,
                    !.av = IF hasAudio /\ PictureEndsOnItsOwn(new)
                           THEN @ \cup {id} ELSE @]
    /\ Return
    /\ UNCHANGED <<fixed, paused, budget, selected, half, dmx, waiting>>

PlayImage ==
    /\ Plays("Image")
    /\ video' = NoVideo
    /\ picture' = task.q
    /\ log' = Cut(log)
    /\ Continue(<<Task("afterLast", task.q)>>)
    /\ UNCHANGED <<fixed, paused, budget, selected, playing, half, streams,
                   shown, dmx, waiting>>

\* Network, Lighting, Dummy, Text and PixelMap: fired and finished at once.
PlayExternal ==
    /\ Plays("Network") \/ Plays("Text")
    /\ Continue(<<Task("afterLast", task.q)>>)
    /\ UNCHANGED <<fixed, paused, budget, selected, media, waiting>>

\* LightingEngine::go_show: the show reports its own end.
PlayDmxShow ==
    /\ Plays("DmxShow")
    /\ shows' = shows \cup {task.q}
    /\ Return
    /\ UNCHANGED <<fixed, paused, budget, selected, playing, pictures,
                   doneShows, log, waiting>>

PlayVolume ==
    LET Fades(a) == a.q = cue.target /\ cue.fade IN
    /\ Plays("Volume")
    /\ active' = [i \in Ids |->
                    IF Fades(active[i])
                    THEN [active[i] EXCEPT !.fade = IF cue.silent THEN "out" ELSE "level"]
                    ELSE active[i]]
    /\ Continue(<<Task("afterLast", task.q)>>)
    /\ UNCHANGED <<fixed, paused, budget, selected, nextId, pictures, dmx, log,
                   waiting>>

PlayGroup ==
    /\ Plays("Group")
    /\ Continue(Tasks("play", InOrder(GroupMembers(cues, task.q))))
    /\ UNCHANGED <<fixed, paused, budget, selected, media, waiting>>

PlayTimeCode ==
    /\ Plays("TimeCode")
    /\ IF cue.duration > 0
       THEN /\ timecodes' = Append(timecodes, [q |-> task.q,
                                               at |-> cue.start + cue.duration])
            /\ Return
       ELSE /\ UNCHANGED timecodes
            /\ Continue(<<Task("afterLast", task.q)>>)
    /\ UNCHANGED <<fixed, paused, budget, selected, media, delayed>>

PlayGoto ==
    LET q == GotoTarget(cues, task.q) IN
    /\ Plays("Goto")
    /\ selected' = IF q = 0 THEN selected ELSE q
    /\ Return
    /\ UNCHANGED <<fixed, paused, budget, media, waiting>>

-----------------------------------------------------------------------------
(* Stopping *)

\* The log of a stop of everything.
Silenced == [Cut(log) EXCEPT !.stopped = @ \cup Ids]

\* Fault: cues that wait for their delay survive a stop of everything.
ClearAllButDelayed ==
    /\ timecodes' = <<>>
    /\ video' = NoVideo
    /\ half' = 0
    /\ picture' = 0
    /\ shows' = {}
    /\ UNCHANGED <<nextId, delayed, streams, shown>>

\* What stop_all and stop_all_faded have in common: nothing waits to start and
\* nothing is shown.
ClearAllButAudio ==
    /\ delayed' = <<>>
    /\ timecodes' = <<>>
    /\ video' = NoVideo
    /\ half' = 0
    /\ picture' = 0
    /\ shows' = {}
    /\ UNCHANGED <<nextId, streams, shown>>

\* stop_all: the transport's Stop, a Stop All without a fade, a new project.
StopAll ==
    /\ active' = NoInstances
    /\ paused' = FALSE
    /\ ClearAllButAudio

\* Fault: a cue that fades away keeps its follow.
FadedAwayFollows(a) ==
    IF a.act
    THEN [a EXCEPT !.pending = NoStop, !.fade = "out", !.fadeStarted = TRUE]
    ELSE [a EXCEPT !.pending = NoStop, !.state = "Done"]

\* What stop_all_faded does to a playing cue: it fades, and nothing follows.
FadedAway(a) ==
    IF a.act
    THEN [a EXCEPT !.pending = NoStop, !.follow = FALSE,
                   !.fade = "out", !.fadeStarted = TRUE]
    ELSE [a EXCEPT !.pending = NoStop, !.follow = FALSE, !.state = "Done"]

\* stop_all_faded, when it does not fall back to stop_all.
FadeAll ==
    /\ active' = [i \in Ids |-> FadedAway(active[i])]
    /\ UNCHANGED paused
    /\ ClearAllButAudio

\* The stop an instance keeps until the end of its loop.  `until` is the end
\* of the pass that plays (history).
LoopEndStop(a, stop) ==
    [on |-> TRUE, fade |-> stop.fade,
     until |-> cues[a.q].audio * (a.pos \div cues[a.q].audio + 1)]

\* Fault: a cue that is cut is not marked Done.
StoppedNotDone(a, stop) ==
    IF stop.loopEnd
    THEN [a EXCEPT !.pending = LoopEndStop(a, stop)]
    ELSE IF stop.fade
    THEN [a EXCEPT !.fade = "out", !.fadeStarted = TRUE]
    ELSE [a EXCEPT !.act = FALSE]

\* What stop_single does to an instance.
Stopped(a, stop) ==
    IF stop.loopEnd
    THEN [a EXCEPT !.pending = LoopEndStop(a, stop)]
    ELSE IF stop.fade
    THEN [a EXCEPT !.fade = "out", !.fadeStarted = TRUE]
    ELSE [a EXCEPT !.act = FALSE, !.state = "Done"]

\* stop_target: stop_single for the target and, for a Group, its members.
StopTarget(stop, targets) ==
    LET Hit(q) == q \in targets
        Kept(entry) == stop.loopEnd \/ ~Hit(entry.q)
        CutsVideo == video # NoVideo /\ Hit(video.q) /\ ~stop.loopEnd
    IN
    /\ active' = [i \in Ids |-> IF Hit(active[i].q) THEN Stopped(active[i], stop)
                                                   ELSE active[i]]
    /\ delayed' = Picked(delayed, {i \in DOMAIN delayed : Kept(delayed[i])})
    /\ timecodes' = Picked(timecodes, {i \in DOMAIN timecodes : Kept(timecodes[i])})
    /\ video' = IF CutsVideo THEN NoVideo ELSE video
    /\ half' = IF CutsVideo THEN 0 ELSE half
    /\ log' = IF CutsVideo THEN Cut(log) ELSE log
    /\ picture' = IF Hit(picture) /\ ~stop.loopEnd THEN 0 ELSE picture
    /\ UNCHANGED <<paused, nextId, streams, shown, shows, doneShows>>

\* Plays("Stop") does not start the clock: a Stop All may reset it.
PlaysStop == Playing /\ ~Refused /\ ~cue.remote /\ ~Waits /\ cue.kind = "Stop"

PlayStopAll ==
    /\ PlaysStop
    /\ cue.all
    /\ IF cue.fade /\ ~paused THEN FadeAll ELSE StopAll
    /\ ResetShowClock
    /\ log' = Silenced
    /\ Continue(<<Task("afterLast", task.q)>>)
    /\ UNCHANGED <<fixed, budget, selected, doneShows>>

PlayStopTarget ==
    /\ PlaysStop
    /\ ~cue.all
    /\ StopTarget(cue, StopTargets(cues, cue.target))
    /\ Continue(<<Task("afterLast", task.q)>>)
    /\ UNCHANGED <<fixed, budget, selected, clockVars>>

\* The transport's Stop.
Stop ==
    /\ Command("Stop")
    /\ StopAll
    /\ ResetShowClock
    /\ log' = [Silenced EXCEPT !.quiet = TRUE]
    /\ UNCHANGED <<fixed, selected, doneShows, agenda>>

\* reset_for_project_change, and the project that is then opened.
ChangeProject ==
    /\ Command("Project")
    /\ cues' \in Shows
    /\ selected' = 0
    /\ StopAll
    /\ clock' = StoppedClock
    /\ ran' = 0
    /\ fired' = [q \in Qids(cues') |-> 0]
    /\ doneShows' = {}
    /\ log' = [Silenced EXCEPT !.quiet = TRUE]
    /\ UNCHANGED <<now, arming, agenda>>

-----------------------------------------------------------------------------
(* Pause, resume and seek *)

Pause ==
    /\ Command("Pause")
    /\ ~paused
    /\ active' = [i \in Ids |->
                    [active[i] EXCEPT
                        !.act = FALSE,
                        !.state = IF @ \in {"Playing", "PlayingLooped"}
                                  THEN "Paused" ELSE @]]
    /\ video' = IF video = NoVideo THEN video
                ELSE [video EXCEPT !.pausedAt = VideoPosition]
    /\ paused' = TRUE
    /\ clock' = [clock EXCEPT !.pausedAt = IF @ = None THEN now ELSE @]
    /\ UNCHANGED <<fixed, selected, nextId, half, picture, streams, shown, dmx,
                   log, waiting, ran, fired, agenda>>

Resume ==
    /\ Command("Pause")
    /\ paused
    /\ active' = [i \in Ids |->
                    [active[i] EXCEPT
                        !.act = TRUE,
                        !.state = IF @ # "Paused" THEN @
                                  ELSE IF IsLooped(cues[active[i].q])
                                  THEN "PlayingLooped" ELSE "Playing"]]
    /\ video' = IF video = NoVideo \/ video.pausedAt = None THEN video
                ELSE [video EXCEPT !.origin = Monus(now, video.pausedAt),
                                   !.pausedAt = None]
    /\ paused' = FALSE
    /\ clock' = IF clock.pausedAt = None THEN clock
                ELSE [clock EXCEPT !.offset = @ + Monus(now, clock.pausedAt),
                                   !.pausedAt = None]
    /\ UNCHANGED <<fixed, selected, nextId, half, picture, streams, shown, dmx,
                   log, waiting, ran, fired, agenda>>

\* The tail fade of an instance after a seek to t (tail_fade_seek_action).
SeekTail(a, t) ==
    LET c == cues[a.q] IN
    IF c.tail = 0 \/ IsLooped(c) THEN a
    ELSE IF t >= Monus(c.audio, c.tail)
    THEN [a EXCEPT !.fade = "out", !.fadeStarted = TRUE]
    ELSE IF a.fadeStarted
    THEN [a EXCEPT !.fade = "none", !.fadeStarted = FALSE]
    ELSE a

\* seek to block t of an instance that has an audio track.
SeekAudio ==
    /\ Command("Seek")
    /\ \E i \in Ids : \E t \in 0 .. cues[active[i].q].audio - 1 :
        /\ active' = [active EXCEPT ![i] =
                        SeekTail([@ EXCEPT !.pos = t, !.fin = FALSE], t)]
        /\ video' = IF video.id = i THEN VideoSoughtTo(t) ELSE video
        /\ shown' = IF video.id = i THEN t ELSE shown
    /\ UNCHANGED <<fixed, paused, selected, nextId, half, picture, streams,
                   dmx, log, waiting, clockVars, agenda>>

\* seek in a picture without an audio track.
SeekVideo ==
    /\ Command("Seek")
    /\ video # NoVideo
    /\ video.id \notin Ids
    /\ \E t \in 0 .. MaxSeek :
        /\ video' = VideoSoughtTo(t)
        /\ shown' = t
    /\ UNCHANGED <<fixed, paused, selected, playing, half, picture, streams,
                   dmx, log, waiting, clockVars, agenda>>

-----------------------------------------------------------------------------
(* tick: six phases, each a task *)

Phases == <<"fadeOuts", "pendingStops", "finished", "videoLoops", "delayed",
            "timecodes">>

Tick(t) ==
    /\ Idle
    /\ now' = t
    /\ agenda' = [i \in DOMAIN Phases |-> Task(Phases[i], 0)]
    /\ ran' = IF clock.start # None /\ ~paused THEN ran + t - now ELSE ran
    /\ shown' = IF video # NoVideo /\ ~paused THEN shown + t - now ELSE shown
    /\ UNCHANGED <<cues, arming, paused, budget, selected, playing, video,
                   half, picture, streams, dmx, log, waiting, clock, fired>>

\* The engine's clock is the audio clock: it may stand still between ticks.
TickAgain == Tick(now)
TimePasses == now < Limits(cues).time /\ Tick(now + 1)

\* A phase that only touches the playing cues.
AudioPhase(op, Treat(_)) ==
    /\ Doing(op)
    /\ active' = [i \in Ids |-> Treat(active[i])]
    /\ Return
    /\ UNCHANGED <<fixed, paused, budget, selected, nextId, pictures, dmx, log,
                   waiting, clockVars>>

\* A cue with a tail fade begins it `tail` blocks before its end.
TailFade(a) ==
    LET c == cues[a.q] IN
    IF /\ c.tail > 0 /\ ~a.fadeStarted /\ ~IsLooped(c)
       /\ a.state = "Playing"
       /\ a.pos >= Monus(c.audio, c.tail)
    THEN [a EXCEPT !.fade = "out", !.fadeStarted = TRUE]
    ELSE a

CheckFadeOuts == AudioPhase("fadeOuts", TailFade)

\* A LoopEnd stop is due one fade (a block) before the end of the cue.
PendingStop(a) ==
    IF ~a.pending.on \/ a.pos < Monus(cues[a.q].audio, IF a.pending.fade THEN 1 ELSE 0)
    THEN a
    ELSE IF a.pending.fade
    THEN [a EXCEPT !.fade = "out", !.pending = NoStop]
    ELSE [a EXCEPT !.act = FALSE, !.state = "Done", !.pending = NoStop]

CheckPendingStops == AudioPhase("pendingStops", PendingStop)

Ended(a) == a.fin \/ a.state = "Done"

\* The finished instances are listed before the first of them is handled.
CheckFinishedCues ==
    LET ended == InOrder({i \in Ids : Ended(active[i])}) IN
    /\ Doing("finished")
    /\ Continue([n \in DOMAIN ended |->
                    [Task("finish", active[ended[n]].q) EXCEPT
                        !.id = ended[n], !.follow = active[ended[n]].follow]])
    /\ UNCHANGED <<fixed, paused, budget, selected, media, waiting, clockVars>>

\* Fault: the half that finishes first is not recorded.
FinishAudioHalfForgets ==
    /\ Doing("finish")
    /\ IsAudioHalf(task.id)
    /\ half # task.id
    /\ active' = Without(task.id)
    /\ log' = [log EXCEPT !.audioEnded = @ \cup {task.id}]
    /\ Return
    /\ UNCHANGED <<fixed, paused, budget, selected, nextId, pictures, dmx, waiting,
                   clockVars>>

\* The audio of a one-shot video cue finishes before its picture: the follow
\* waits for the picture.
FinishAudioHalf ==
    /\ Doing("finish")
    /\ IsAudioHalf(task.id)
    /\ half # task.id
    /\ active' = Without(task.id)
    /\ half' = task.id
    /\ log' = [log EXCEPT !.audioEnded = @ \cup {task.id}]
    /\ Return
    /\ UNCHANGED <<fixed, paused, budget, selected, nextId, video, picture,
                   streams, shown, dmx, waiting, clockVars>>

FinishCue ==
    /\ Doing("finish")
    /\ IsAudioHalf(task.id) => half = task.id
    /\ active' = Without(task.id)
    /\ half' = IF half = task.id THEN 0 ELSE half
    /\ log' = [Finished(log, task.id) EXCEPT
                    !.audioEnded = @ \cup {task.id},
                    !.chained = IF task.follow THEN @ \cup {task.id} ELSE @]
    /\ Continue(IF task.follow THEN <<Task("afterLast", task.q)>> ELSE <<>>)
    /\ UNCHANGED <<fixed, paused, budget, selected, nextId, video, picture,
                   streams, shown, dmx, waiting, clockVars>>

\* play_after_last
PlayAfterLast ==
    LET q == NextAfterLast(cues, task.q) IN
    /\ Doing("afterLast")
    /\ Continue(IF q = 0 THEN <<>> ELSE <<Task("play", q)>>)
    /\ UNCHANGED <<fixed, paused, budget, selected, media, waiting, clockVars>>

\* The instance whose loops restart the picture, and the loops it has played.
LoopingIndex == First({i \in Ids : active[i].q = video.q})
LoopsPlayed(a) ==
    LET loops == a.pos \div cues[a.q].audio
    IN  IF cues[a.q].loop = "Looped"
        THEN LesserOf(loops, Monus(cues[a.q].count, 1))
        ELSE loops

\* The picture of a looped video with audio restarts at the loop boundary
\* that is heard.
CheckVideoLoops ==
    LET i == LoopingIndex
        looping == /\ video # NoVideo
                   /\ ~cues[video.q].mtc
                   /\ i # 0
                   /\ IsLooped(cues[video.q])
    IN
    /\ Doing("videoLoops")
    /\ IF looping
       THEN /\ active' = [active EXCEPT ![i].videoLoops = LoopsPlayed(active[i])]
            /\ IF LoopsPlayed(active[i]) > active[i].videoLoops
               THEN ShowVideo(video, streams)
               ELSE UNCHANGED <<video, streams, shown>>
       ELSE UNCHANGED <<active, video, streams, shown>>
    /\ Return
    /\ UNCHANGED <<fixed, paused, budget, selected, nextId, half, picture, dmx,
                   log, waiting, clockVars>>

CheckDelayedCues ==
    LET Due(entry) == entry.at <= now
        ready == Picked(delayed, {i \in DOMAIN delayed : Due(delayed[i])})
    IN
    /\ Doing("delayed")
    /\ delayed' = Picked(delayed, {i \in DOMAIN delayed : ~Due(delayed[i])})
    /\ Continue([i \in DOMAIN ready |-> Task("start", ready[i].q)])
    /\ UNCHANGED <<fixed, paused, budget, selected, media, timecodes,
                   clockVars>>

\* The TimeCode cues check_timecodes has to fire.
DueTimecodes ==
    {q \in Qids(cues) : /\ cues[q].kind = "TimeCode"
                        /\ cues[q].start > 0
                        /\ Elapsed >= cues[q].start
                        /\ cues[q].enabled}

CheckTimecodes ==
    /\ Doing("timecodes")
    /\ Continue(IF clock.start = None THEN <<>>
                ELSE Tasks("trigger", InOrder(DueTimecodes \ clock.triggered))
                     \o <<[Task("expire", 0) EXCEPT !.at = Elapsed]>>)
    /\ UNCHANGED <<fixed, paused, budget, selected, media, waiting, clockVars>>

TriggerTimecode ==
    /\ Doing("trigger")
    /\ clock' = [clock EXCEPT !.triggered = @ \cup {task.q}]
    /\ fired' = [fired EXCEPT ![task.q] = @ + 1]
    /\ Continue(<<Task("play", task.q)>>)
    /\ UNCHANGED <<fixed, paused, budget, selected, media, waiting, ran>>

\* Timecode windows that are over at the elapsed time the phase began with.
ExpireTimecodes ==
    LET Over(entry) == entry.at <= task.at
        over == Picked(timecodes, {i \in DOMAIN timecodes : Over(timecodes[i])})
    IN
    /\ Doing("expire")
    /\ timecodes' = Picked(timecodes, {i \in DOMAIN timecodes : ~Over(timecodes[i])})
    /\ Continue([i \in DOMAIN over |-> Task("afterLast", over[i].q)])
    /\ UNCHANGED <<fixed, paused, budget, selected, media, delayed, clockVars>>

-----------------------------------------------------------------------------
(* Events: the ends of decoders and of recorded shows *)

Reports(s) == Idle /\ s \in streams
IsCurrent(s) == video # NoVideo /\ <<video.id, video.epoch>> = s

\* A superseded decoder, one MTC drives, or a picture that holds or follows
\* the loops of its audio.
VideoEofIgnored(s) ==
    /\ Reports(s)
    /\ IsCurrent(s) =>
        \/ cues[video.q].mtc
        \/ cues[video.q].loop = "HoldLast"
        \/ IsLooped(cues[video.q]) /\ video.audio
    /\ streams' = streams \ {s}
    /\ UNCHANGED <<fixed, paused, budget, selected, playing, video, half,
                   picture, shown, dmx, log, waiting, clockVars, agenda>>

\* A silent looped picture restarts, whatever its loop count.
VideoEofLoops(s) ==
    /\ Reports(s)
    /\ IsCurrent(s)
    /\ ~cues[video.q].mtc /\ IsLooped(cues[video.q]) /\ ~video.audio
    /\ video.epoch < MaxEpoch
    /\ ShowVideo(video, streams \ {s})
    /\ UNCHANGED <<fixed, paused, budget, selected, playing, half, picture,
                   dmx, log, waiting, clockVars, agenda>>

\* The picture of a one-shot video ends; the cue finishes with it unless its
\* audio is still to end.
VideoEofEnds(s) ==
    LET finishes == video.audio => half = video.id IN
    /\ Reports(s)
    /\ IsCurrent(s)
    /\ PictureEndsOnItsOwn(video)
    /\ streams' = streams \ {s}
    /\ video' = NoVideo
    /\ half' = IF ~video.audio THEN half ELSE IF finishes THEN 0 ELSE video.id
    /\ log' = [(IF finishes THEN Finished(log, video.id) ELSE log) EXCEPT
                    !.pictureEnded = @ \cup {video.id}]
    /\ agenda' = IF finishes THEN <<Task("afterLast", video.q)>> ELSE <<>>
    /\ UNCHANGED <<fixed, paused, budget, selected, playing, picture, shown,
                   dmx, waiting, clockVars>>

\* The decoder cannot go on, its retries included.
VideoFailed(s) ==
    /\ "VideoFails" \in Limits(cues).allowed
    /\ Reports(s)
    /\ streams' = streams \ {s}
    /\ IF IsCurrent(s)
       THEN /\ video' = NoVideo
            /\ log' = [(IF video.audio THEN log ELSE Finished(log, video.id)) EXCEPT
                            !.pictureEnded = @ \cup {video.id}]
       ELSE UNCHANGED <<video, log>>
    /\ UNCHANGED <<fixed, paused, budget, selected, playing, half, picture,
                   shown, dmx, waiting, clockVars, agenda>>

\* ActiveShow::eval: a recorded show ends by itself or by a stop.
DmxShowEnds(q) ==
    /\ shows' = shows \ {q}
    /\ doneShows' = doneShows \cup {q}
    /\ UNCHANGED <<fixed, paused, budget, selected, playing, pictures, log,
                   waiting, clockVars, agenda>>

\* finish_external, for an end take_finished_shows returns.
ExternalFinished(q) ==
    /\ Idle
    /\ doneShows' = doneShows \ {q}
    /\ agenda' = <<Task("afterLast", q)>>
    /\ UNCHANGED <<fixed, paused, budget, selected, playing, pictures, shows,
                   log, waiting, clockVars>>

-----------------------------------------------------------------------------
(* The audio callback *)

AtPassEnd(a) == a.pos > 0 /\ a.pos % cues[a.q].audio = 0

\* The source has nothing more to play (LoopProcessor).
Exhausted(a) ==
    LET c == cues[a.q] IN
    AtPassEnd(a) /\ ( \/ ~IsLooped(c)
                      \/ c.loop = "Looped" /\ a.passes + 1 >= c.count )

\* The next block of an input; the position of an endless loop stops counting
\* after the second pass.
Block(a) ==
    LET c == cues[a.q] IN
    IF c.loop = "LoopedInfinite" /\ a.pos = 2 * c.audio THEN a
    ELSE [a EXCEPT !.pos = @ + 1,
                   !.passes = IF AtPassEnd(a) THEN @ + 1 ELSE @]

\* A fade that is over leaves a new level; one to silence ends the input.
FadeOver(a) ==
    IF a.fade = "out" THEN [a EXCEPT !.fade = "none", !.act = FALSE, !.fin = TRUE]
                      ELSE [a EXCEPT !.fade = "none"]

\* Mixer::render for the input of instance i. The fade counts frames even where
\* the source underran and gave silence, so it may end without a new position.
Render(i) ==
    /\ i \in Ids
    /\ active[i].act
    /\ \/ Exhausted(active[i]) /\ active' = [active EXCEPT ![i].fin = TRUE]
       \/ ~Exhausted(active[i]) /\ active' = [active EXCEPT ![i] = Block(@)]
       \/ /\ ~Exhausted(active[i])
          /\ active[i].fade # "none"
          /\ \E block \in {active[i], Block(active[i])} :
                active' = [active EXCEPT ![i] = FadeOver(block)]
    /\ UNCHANGED <<fixed, paused, budget, selected, nextId, pictures, dmx, log,
                   waiting, clockVars, agenda>>

-----------------------------------------------------------------------------
(* Specification *)

Init ==
    /\ cues \in Shows
    /\ selected \in {q \in {1} : cues # <<>>} \cup {q \in {0} : cues = <<>>}
    /\ active = NoInstances
    /\ nextId = 1
    /\ delayed = <<>>
    /\ timecodes = <<>>
    /\ clock = StoppedClock
    /\ paused = FALSE
    /\ now = StartTime
    /\ arming = FALSE
    /\ video = NoVideo
    /\ half = 0
    /\ picture = 0
    /\ agenda = <<>>
    /\ streams = {}
    /\ shows = {}
    /\ doneShows = {}
    /\ budget = Limits(cues).commands
    /\ ran = 0
    /\ fired = NothingFired
    /\ shown = 0
    /\ log = NothingLogged

Operator ==
    \/ Go \/ Fire \/ Select \/ Preload \/ Stop \/ Pause \/ Resume
    \/ SeekAudio \/ SeekVideo \/ AdjustShowTime \/ ChangeProject

PlayCue ==
    \/ PlayRefused \/ PlayRemote \/ PlayDelayed \/ PlayReady \/ PlaySound
    \/ PlayVideo \/ PlayImage \/ PlayExternal \/ PlayDmxShow \/ PlayVolume
    \/ PlayGroup \/ PlayTimeCode \/ PlayGoto \/ PlayStopAll \/ PlayStopTarget

\* The rest of the call in progress.
Work ==
    \/ PlayCue \/ PlayAfterLast \/ EndGo
    \/ CheckFadeOuts \/ CheckPendingStops \/ CheckFinishedCues
    \/ FinishAudioHalf \/ FinishCue \/ CheckVideoLoops \/ CheckDelayedCues
    \/ CheckTimecodes \/ TriggerTimecode \/ ExpireTimecodes

VideoEof(s) == VideoEofIgnored(s) \/ VideoEofLoops(s) \/ VideoEofEnds(s)

Environment ==
    \/ \E s \in streams : VideoEof(s) \/ VideoFailed(s)
    \/ \E q \in shows : DmxShowEnds(q)
    \/ \E q \in doneShows : ExternalFinished(q)
    \/ \E i \in Ids : Render(i)

Next == Operator \/ Work \/ TickAgain \/ TimePasses \/ Environment

Spec == Init /\ [][Next]_vars

\* A call returns, the event loop ticks, the audio callback plays every input
\* and its clock goes on, and while the show is not paused a decoder reaches
\* the end of its file.
Fairness ==
    /\ WF_vars(Work)
    /\ WF_vars(TickAgain \/ TimePasses)
    /\ SF_vars(TimePasses)
    /\ \A i \in 1 .. MaxVoices : WF_vars(Render(i))
    /\ SF_vars(~paused /\ \E s \in streams : VideoEof(s))

FairSpec == Spec /\ Fairness

-----------------------------------------------------------------------------
(* Types *)

Instance == [q : Nat, follow : BOOLEAN,
             state : {"Ready", "Playing", "PlayingLooped", "Paused", "Done"},
             fadeStarted : BOOLEAN,
             pending : [on : BOOLEAN, fade : BOOLEAN, until : Nat],
             videoLoops : Nat, act : BOOLEAN, fin : BOOLEAN,
             fade : {"none", "out", "level"}, pos : Nat, passes : Nat]

Times == Nat \cup {None}

\* Every Q# of the state is one of the project's, every id was allocated, and
\* the call stack holds only known tasks.
TypeOK ==
    /\ cues \in Shows
    /\ selected \in Qids(cues) \cup {0}
    /\ Ids \subseteq 1 .. nextId - 1
    /\ \A i \in Ids : active[i] \in Instance /\ active[i].q \in Qids(cues)
    /\ \A i \in DOMAIN delayed : delayed[i] \in [q : Qids(cues), at : Nat]
    /\ \A i \in DOMAIN timecodes : timecodes[i] \in [q : Qids(cues), at : Nat]
    /\ clock \in [start : Times, pausedAt : Times, offset : Nat, adjustment : Int,
                  triggered : SUBSET Qids(cues)]
    /\ paused \in BOOLEAN /\ arming \in BOOLEAN
    /\ now \in Nat /\ now >= StartTime
    /\ video \in [q : Nat, id : 0 .. nextId - 1, epoch : Nat, audio : BOOLEAN,
                  origin : Nat, pausedAt : Times]
    /\ video # NoVideo => video.q \in Qids(cues) /\ video.id > 0
    /\ half \in 0 .. nextId - 1
    /\ picture \in Qids(cues) \cup {0}
    /\ \A i \in DOMAIN agenda :
        /\ agenda[i].q \in Qids(cues) \cup {0}
        /\ agenda[i].id \in 0 .. nextId - 1
    /\ streams \subseteq (1 .. nextId - 1) \X Nat
    /\ shows \subseteq Qids(cues) /\ doneShows \subseteq Qids(cues)
    /\ budget \in Nat
    /\ Len(log.finishes) = nextId - 1

-----------------------------------------------------------------------------
(* Pause and the show clock *)

\* Pausing is one thing: the flag, the show clock's pause mark and the
\* picture's frozen position are set together and cleared together, whatever
\* is started, stopped or looped while the show is paused.
PauseIsWhole ==
    /\ paused <=> clock.pausedAt # None
    /\ video # NoVideo => (paused <=> video.pausedAt # None)

\* A running show clock shows exactly the time that has passed since GO
\* started it, without the pauses: a GO during a pause, a Stop All that ends
\* a pause and a rearmed clock included (show_elapsed).
ClockShowsTimeRun ==
    clock.start # None =>
        Elapsed = GreaterOf(ran + clock.adjustment, 0)

\* The position the engine holds for the picture is the media time that has
\* been shown: it stands still in a pause and follows seeks and restarts
\* (video_position).
PositionIsTimeShown == video # NoVideo => VideoPosition = shown

\* In a run of the show clock check_timecodes fires a TimeCode cue at most
\* once, and when it has done its work every cue that is due has been fired.
TimeCodesFireOnce ==
    clock.start # None =>
        /\ \A q \in Qids(cues) : fired[q] <= 1
        /\ Doing("expire") => \A q \in DueTimecodes : fired[q] = 1

-----------------------------------------------------------------------------
(* Cues *)

\* However it is triggered - by GO, a trigger, a group, a follow or the end of
\* its delay - a cue that is not retriggerable sounds once at a time, and its
\* picture belongs to the instance that sounds.
OneLiveInstance ==
    \A i, j \in Ids :
        /\ active[i].q = active[j].q
        /\ ~cues[active[i].q].retriggerable
        /\ Live(active[i]) /\ Live(active[j])
        => /\ i = j
           /\ video.q = active[i].q => video.id = i

\* An instance finishes, and starts its follow, at most once; a video cue with
\* an audio track not before its picture is gone as well.
FinishesOnce ==
    \A id \in DOMAIN log.finishes :
        /\ log.finishes[id] <= 1
        /\ id \in log.av /\ log.finishes[id] = 1
            => id \in log.audioEnded \cap (log.pictureEnded \cup log.pictureCut)

\* What happens on its own happens once: the follow of a cue at its end, and
\* the cue of a timecode in a run of the show clock.
FiresOnce == FinishesOnce /\ TimeCodesFireOnce

\* A one-shot video cue ends when BOTH streams do, whichever ends first and
\* whatever plays in between: the second one finishes the cue.
BothHalvesFinish ==
    Idle => \A id \in log.av \cap log.audioEnded \cap log.pictureEnded :
                log.finishes[id] = 1

\* Nothing chains off a cue that was running when everything was stopped.
NothingChains == log.chained \cap log.stopped = {}

\* After the transport's Stop nothing starts until the operator acts.
StopIsFinal ==
    log.quiet =>
        /\ Ids = {} /\ delayed = <<>> /\ timecodes = <<>>
        /\ video = NoVideo /\ picture = 0 /\ shows = {}
        /\ clock.start = None

\* A cue the engine shows as playing is either being rendered or finished, so
\* that it can end; one it shows as paused is not rendered.
PlayingIsRendered ==
    \A i \in Ids :
        LET a == active[i] IN
        /\ a.state \in {"Playing", "PlayingLooped"} /\ ~paused => a.act \/ a.fin
        /\ a.state = "Paused" => paused /\ ~a.act

\* Every call returns: the cascade of groups, follows and stops is finite.
CallReturns == ~Idle ~> Idle

\* A one-shot cue that plays comes to its end and is removed, unless the show
\* is paused.
CueEnds ==
    \A id \in 1 .. MaxVoices :
        id \in Ids /\ active[id].state = "Playing" /\ ~paused
            ~> id \notin Ids \/ paused

\* A one-shot video cue whose two streams go on to their ends finishes.
VideoCueFinishes ==
    \A id \in 1 .. MaxVoices :
        (id \in log.av) ~>
            \/ paused
            \/ id \in log.pictureCut
            \/ id \in DOMAIN log.finishes /\ log.finishes[id] = 1

\* Whatever has begun comes to an end: calls, sounds and video cues.
EverythingEnds == CallReturns /\ CueEnds /\ VideoCueFinishes

=============================================================================
