-------------------------- MODULE VideoStream_proofs --------------------------
(***************************************************************************)
(* What is proved of VideoStream, for every length of the media, every     *)
(* queue and every sequence of commands: its types, that the picture is on *)
(* the cue's time (PictureOnCueTime), and that no frame is passed over     *)
(* (FramesInOrder).                                                        *)
(*                                                                         *)
(* The order of the frames rests on what goes through the channel of the   *)
(* current epoch: the marker of the end stands right behind the last frame *)
(* - in the channel, or behind what the consume thread took from it last   *)
(* (Before).  Between the start of a handler that will spawn a decoder and *)
(* the moment it raises the epoch (win.pc = "spawn") nothing of this holds:*)
(* the consume thread may then take over the receiver of the old stream    *)
(* under the new epoch.  The second raise of the epoch throws that away.   *)
(***************************************************************************)
EXTENDS VideoStream, TLAPS, SequenceTheorems, FiniteSetTheorems

-----------------------------------------------------------------------------
(* What the threads leave alone *)

\* The consume thread touches nothing of the engine, the event loop or the
\* decoder.
LEMMA ConsumerLeaves ==
  ASSUME Consumer
  PROVE  /\ UNCHANGED <<engine, app, win, dec, script, adrift>>
         /\ cmds' = cmds \/ cmds' = <<>>
  BY DEF Consumer, RunCanvasCommands, Handshake, AwaitFrame, SeekFrameArrives, SeekFrame,
     SelectFrame, CheckEpoch, UploadFrame, WriteBack, WritesBack, engine, output, history

\* The decode thread touches the clock of the picture, its channel and itself.
LEMMA DecoderLeaves ==
  ASSUME Decoder
  PROVE  UNCHANGED <<engine, app, win, cmds, con, output, events, script, adrift>>
  BY DEF Decoder, DecoderStops, DecoderOpens, DecoderFails, DecoderSends, DecoderExits,
     engine, output, history

\* The event loop and time touch neither what the consume thread holds nor the
\* canvas.
LEMMA EventLoopLeaves ==
  ASSUME Operator \/ EventLoop
  PROVE  UNCHANGED <<con, output>>
  BY DEF Operator, Play, StartVideo, Stop, ChangeProject, StopAll, ShowImage, ShowText,
     StopText, Pause, Resume, Seek, SeekWith, FrameStep, FrameStepBack, StopVideo, StopImage,
     EventLoop, SpawnDecode, StartPutOff, StartDecode, StartsDecode, EventIgnored, VideoEnds,
     VideoLoops, RetryDecode, GiveUp, FoldShowDelta, FadeDone, engine, output, history

LEMMA TickLeaves ==
  ASSUME Tick
  PROVE  /\ UNCHANGED <<image, paused, app, win, cmds, chan, dec, con, output, events,
                        script, history>>
         /\ ctl' = [ctl EXCEPT !.pos = IF ClockRuns THEN @ + 1 ELSE @]
         /\ cue' = [cue EXCEPT !.pos = IF CueRuns THEN @ + 1 ELSE @]
  BY DEF Tick

\* A step is one of a thread's, of time, or none.
LEMMA Steps ==
  ASSUME [Next]_vars
  PROVE  Operator \/ EventLoop \/ Decoder \/ Consumer \/ Tick \/ UNCHANGED vars
  BY DEF Next

-----------------------------------------------------------------------------
(* Types *)

Bounds ==
    /\ Frames \in Nat \ {0} /\ MediaOffset \in Nat /\ MaxLate \in Nat /\ MaxLoops \in Nat
    /\ MaxRetries \in Nat /\ QueueCap \in Nat \ {0}
LEMMA BoundsHold == Bounds
  BY StreamAssumption DEF Bounds

LEMMA Nothing ==
  /\ NoCue \in Cues /\ NoSeek \in Seeks /\ NoRequest \in Requests
  /\ NoDecoder \in Decoders /\ Unbound \in Consumers
  /\ Asleep \in Handlers /\ None \in OneFrame /\ None \in Int /\ FirstFrame \in Int
  BY BoundsHold DEF Bounds, NoCue, NoSeek, NoRequest, NoDecoder, Unbound, Cues, Seeks,
     Requests, Decoders, Consumers, OneFrame, None, FirstFrame, Asleep, Handlers, Messages, Failed, Eof

LEMMA InitTypes == Init => TypeOK
<1> SUFFICES ASSUME Init PROVE TypeOK
  OBVIOUS
<1>1. cue \in Cues /\ dec \in Decoders /\ con \in Consumers
  BY Nothing DEF Init
<1>2. ctl \in Controls
  BY Nothing DEF Init, Controls
<1>3. app \in Apps
  BY Nothing, BoundsHold DEF Init, Apps, Bounds
<1>4. win \in Handlers
  BY Nothing DEF Init
<1>5. cmds \in Seq(Commands) /\ events \in Seq(Reports)
  BY DEF Init
<1>6. /\ DOMAIN chan = {}
      /\ \A i \in DOMAIN chan : chan[i] \in Channels /\ Len(chan[i].q) <= QueueCap
      /\ DOMAIN chan \subseteq 1 .. ctl.epoch
      /\ {ctl.rx, con.rx} \ {0} = DOMAIN chan
      /\ (con.rx # 0 => con.rx # ctl.rx)
  BY DEF Init, Unbound
<1>7. image \in BOOLEAN /\ paused \in BOOLEAN /\ lit \in BOOLEAN /\ adrift \in BOOLEAN
  BY Zenon DEF Init
<1>8. skew \in Int
  BY DEF Init
<1> QED
  BY <1>1, <1>2, <1>3, <1>4, <1>5, <1>6, <1>7, <1>8 DEF TypeOK

\* The engine's time of the cue.
LEMMA CueStep ==
  ASSUME cue \in Cues, paused \in BOOLEAN, app.plays \in Nat, [Next]_vars
  PROVE  cue' \in Cues
<1>0. ASSUME NEW c \in Cues, NEW late \in Nat, StartVideo(c, late)
      PROVE  cue' \in Cues
  BY <1>0 DEF StartVideo, Cues
<1>1. CASE Operator
  <2>1. CASE Play
    <3>1. PICK mode \in Modes, late \in 0 .. MaxLate :
            StartVideo([NoCue EXCEPT !.inst = app.plays + 1, !.mode = mode], late)
      BY <2>1 DEF Play
    <3>2. [NoCue EXCEPT !.inst = app.plays + 1, !.mode = mode] \in Cues
      <4>1. ASSUME NEW c \in Cues, NEW n \in Nat, NEW m \in Modes
            PROVE  [c EXCEPT !.inst = n, !.mode = m] \in Cues
        BY DEF Cues
      <4>2. app.plays + 1 \in Nat /\ NoCue \in Cues
        BY Nothing
      <4> QED
        BY <4>1, <4>2, Zenon
    <3> QED
      BY <1>0, <3>1, <3>2
  <2>2. CASE Stop \/ ChangeProject \/ ShowImage \/ \E f \in BOOLEAN : StopVideo(f) \/ StopImage(f)
    BY <2>2, Nothing DEF Stop, ChangeProject, StopAll, ShowImage, StopVideo, StopImage
  <2>3. CASE Pause \/ Resume
    BY <2>3 DEF Pause, Resume, Cues
  <2>4. CASE Seek
    <3>1. PICK t \in 0 .. Frames - MediaOffset + 1 : cue' = [cue EXCEPT !.pos = t]
      BY <2>4 DEF Seek, SeekWith
    <3> QED
      BY <3>1 DEF Cues
  <2>5. CASE ShowText \/ StopText \/ FrameStep \/ FrameStepBack
    BY <2>5 DEF ShowText, StopText, FrameStep, FrameStepBack, engine
  <2> QED
    BY <1>1, <2>1, <2>2, <2>3, <2>4, <2>5 DEF Operator
<1>2. CASE EventLoop
  <2>1. CASE VideoLoops
    <3>1. [cue EXCEPT !.loops = @ + 1] \in Cues
      BY <2>1, BoundsHold DEF VideoLoops, Cues, Bounds
    <3> QED
      BY <1>0, <2>1, <3>1 DEF VideoLoops
  <2>2. CASE VideoEnds \/ GiveUp
    BY <2>2, Nothing DEF VideoEnds, GiveUp
  <2>3. CASE \/ SpawnDecode \/ StartPutOff \/ StartDecode \/ EventIgnored \/ RetryDecode
             \/ FoldShowDelta \/ FadeDone
    BY <2>3 DEF SpawnDecode, StartPutOff, StartDecode, StartsDecode, EventIgnored, RetryDecode,
       FoldShowDelta, FadeDone, engine
  <2> QED
    BY <1>2, <2>1, <2>2, <2>3 DEF EventLoop
<1>3. CASE Decoder \/ Consumer \/ UNCHANGED vars
  BY <1>3, ConsumerLeaves, DecoderLeaves DEF engine, vars
<1>4. CASE Tick
  BY <1>4, TickLeaves DEF Cues
<1> QED
  BY <1>1, <1>2, <1>3, <1>4, Steps

\* What the event loop knows of the show, and the request that waits.
LEMMA AppStep ==
  ASSUME app \in Apps, win.req \in Requests, cue \in Cues, [Next]_vars
  PROVE  app' \in Apps
<1> USE Nothing
<1>0. ASSUME NEW c, c.inst \in Nat, NEW late, StartVideo(c, late)
      PROVE  app' \in Apps
  <2>1. app' = [app EXCEPT !.retries = 0, !.shown = "video", !.plays = c.inst]
    BY <1>0 DEF StartVideo
  <2>2. 0 \in 0 .. MaxRetries
    BY BoundsHold DEF Bounds
  <2> QED
    BY <1>0, <2>1, <2>2 DEF Apps
<1>1. CASE Operator
  <2>1. CASE Play
    <3>1. PICK mode \in Modes, late \in 0 .. MaxLate :
            StartVideo([NoCue EXCEPT !.inst = app.plays + 1, !.mode = mode], late)
      BY <2>1 DEF Play
    <3>2. [NoCue EXCEPT !.inst = app.plays + 1, !.mode = mode].inst \in Nat
      BY DEF Apps, NoCue
    <3> QED
      BY <1>0, <3>1, <3>2
  <2>2. CASE Stop \/ ChangeProject \/ ShowImage \/ \E f \in BOOLEAN : StopVideo(f) \/ StopImage(f)
    BY <2>2 DEF Stop, ChangeProject, StopAll, ShowImage, StopVideo, StopImage, StopPlayback,
       FadePlayback, Apps
  <2>3. CASE ShowText \/ StopText
    BY <2>3 DEF ShowText, StopText, Apps
  <2>4. CASE Pause \/ Resume \/ Seek \/ FrameStep \/ FrameStepBack
    BY <2>4 DEF Pause, Resume, Seek, SeekWith, FrameStep, FrameStepBack
  <2> QED
    BY <1>1, <2>1, <2>2, <2>3, <2>4 DEF Operator
<1>2. CASE EventLoop
  <2>1. CASE VideoLoops
    <3>1. [cue EXCEPT !.loops = @ + 1].inst \in Nat
      BY DEF Cues
    <3> QED
      BY <1>0, <2>1, <3>1 DEF VideoLoops
  <2>2. CASE VideoEnds \/ GiveUp \/ FadeDone \/ SpawnDecode \/ StartDecode
    BY <2>2 DEF VideoEnds, GiveUp, FadeDone, StopPlayback, SpawnDecode, StartDecode,
       StartsDecode, Apps
  <2>3. CASE RetryDecode
    BY <2>3, BoundsHold DEF RetryDecode, Apps, Bounds
  <2>4. CASE StartPutOff \/ EventIgnored \/ FoldShowDelta
    BY <2>4 DEF StartPutOff, EventIgnored, FoldShowDelta
  <2> QED
    BY <1>2, <2>1, <2>2, <2>3, <2>4 DEF EventLoop
<1>3. CASE Decoder \/ Consumer \/ Tick \/ UNCHANGED vars
  BY <1>3, ConsumerLeaves, DecoderLeaves, TickLeaves DEF vars
<1> QED
  BY <1>1, <1>2, <1>3, Steps

\* The handler the event loop is in, with the request it makes.
LEMMA WinStep ==
  ASSUME win \in Handlers, cue \in Cues, ctl \in Controls, [Next]_vars
  PROVE  win' \in Handlers
<1> USE Nothing, BoundsHold
<1>0. ASSUME NEW from \in Int, NEW seek \in Seeks, NEW clamp \in BOOLEAN,
             Decode(from, seek, clamp)
      PROVE  win' \in Handlers
  BY <1>0 DEF Decode, Handlers, Requests
<1>1. CASE Operator
  <2>1. CASE Play
    BY <1>0, <2>1 DEF Play, StartVideo
  <2>2. CASE Seek
    <3>1. PICK t \in 0 .. Frames - MediaOffset + 1 :
            Decode(MediaOffset + t,
                   IF paused THEN [at |-> MediaOffset + t, adjust |-> FALSE] ELSE NoSeek, TRUE)
      BY <2>2 DEF Seek, SeekWith
    <3>2. MediaOffset + t \in Int
      BY DEF Bounds
    <3>3. [at |-> MediaOffset + t, adjust |-> FALSE] \in Seeks
      BY <3>2 DEF Seeks
    <3> QED
      BY <1>0, <3>1, <3>2, <3>3
  <2>3. CASE FrameStepBack
    <3>1. PICK current \in {ctl.last, Position} :
            Decode(current, [at |-> Position, adjust |-> TRUE], FALSE)
      BY <2>3 DEF FrameStepBack
    <3>2. Position \in Int /\ ctl.last \in Int
      BY DEF Controls, Position, GreaterOf, OneFrame, FrameNumbers, None, Bounds
    <3>3. [at |-> Position, adjust |-> TRUE] \in Seeks
      BY <3>2 DEF Seeks
    <3> QED
      BY <1>0, <3>1, <3>2, <3>3
  <2>4. CASE \/ Stop \/ ChangeProject \/ ShowImage \/ ShowText \/ StopText \/ Pause \/ Resume
             \/ FrameStep \/ \E f \in BOOLEAN : StopVideo(f) \/ StopImage(f)
    BY <2>4 DEF Stop, ChangeProject, StopAll, ShowImage, ShowText, StopText, Pause, Resume,
       FrameStep, StopVideo, StopImage
  <2> QED
    BY <1>1, <2>1, <2>2, <2>3, <2>4 DEF Operator
<1>2. CASE EventLoop
  <2>1. CASE VideoLoops
    BY <1>0, <2>1 DEF VideoLoops, StartVideo
  <2>2. CASE RetryDecode
    <3>1. cue.pos \in Int
      BY DEF Cues
    <3> QED
      BY <1>0, <2>2, <3>1 DEF RetryDecode
  <2>3. CASE SpawnDecode \/ StartPutOff \/ StartDecode
    BY <2>3 DEF SpawnDecode, StartPutOff, StartDecode, StartsDecode, Asleep, Handlers
  <2>4. CASE EventIgnored \/ VideoEnds \/ GiveUp \/ FoldShowDelta \/ FadeDone
    BY <2>4 DEF EventIgnored, VideoEnds, GiveUp, FoldShowDelta, FadeDone
  <2> QED
    BY <1>2, <2>1, <2>2, <2>3, <2>4 DEF EventLoop
<1>3. CASE Decoder \/ Consumer \/ Tick \/ UNCHANGED vars
  BY <1>3, ConsumerLeaves, DecoderLeaves, TickLeaves DEF vars
<1> QED
  BY <1>1, <1>2, <1>3, Steps

\* The decode thread.
LEMMA DecStep ==
  ASSUME dec \in Decoders, app \in Apps, ctl.epoch \in Nat, [Next]_vars
  PROVE  dec' \in Decoders
<1> USE Nothing, BoundsHold
<1>0. [dec EXCEPT !.stop = dec.alive] \in Decoders
  BY DEF Decoders
<1>1. CASE Operator
  BY <1>0, <1>1 DEF Operator, Play, StartVideo, Stop, ChangeProject, StopAll, ShowImage,
     ShowText, StopText, Pause, Resume, Seek, SeekWith, FrameStep, FrameStepBack, StopVideo,
     StopImage, StopPlayback, FadePlayback
<1>2. CASE EventLoop
  <2>1. CASE StartDecode
    <3>1. dec' = [NoDecoder EXCEPT !.alive = TRUE, !.id = ctl.epoch + 1,
                                   !.from = app.req.from, !.clamp = app.req.clamp]
      BY <2>1 DEF StartDecode, StartsDecode
    <3>2. app.req.from \in Int /\ app.req.clamp \in BOOLEAN /\ ctl.epoch + 1 \in Nat
      BY DEF Apps, Requests
    <3> QED
      BY <3>1, <3>2 DEF Decoders
  <2>2. CASE EventLoop /\ ~StartDecode
    BY <1>0, <2>2 DEF EventLoop, SpawnDecode, StartPutOff, EventIgnored, VideoEnds, VideoLoops,
       RetryDecode, GiveUp, FoldShowDelta, FadeDone, StopPlayback
  <2> QED
    BY <1>2, <2>1, <2>2
<1>3. CASE Decoder
  <2>1. CASE DecoderStops
    BY <2>1 DEF DecoderStops, DecoderExits
  <2>2. CASE DecoderOpens
    <3>1. PICK actual \in {dec.from, LesserOf(dec.from, Frames)} :
            dec' = [dec EXCEPT !.pc = "send", !.next = FirstDelivered(actual)]
      BY <2>2 DEF DecoderOpens
    <3>2. actual \in Int
      BY DEF Decoders, LesserOf, Bounds
    <3>3. FirstDelivered(actual) \in Messages
      BY <3>2 DEF FirstDelivered, LesserOf, GreaterOf, Messages, Failed, Bounds
    <3> QED
      BY <3>1, <3>3 DEF Decoders
  <2>3. CASE DecoderFails
    <3>1. Failed \in Messages
      BY DEF Failed, Messages, Bounds
    <3> QED
      BY <2>3, <3>1 DEF DecoderFails, Decoders
  <2>4. CASE DecoderSends
    <3>1. dec.next < Frames => dec.next + 1 \in Messages
      BY DEF Decoders, Failed, Messages, Bounds
    <3>2. dec.next < Frames \/ dec.next >= Frames
      BY DEF Decoders, Messages, Failed, Bounds
    <3> QED
      BY <2>4, <3>1, <3>2 DEF DecoderSends, Decoders
  <2> QED
    BY <1>3, <2>1, <2>2, <2>3, <2>4 DEF Decoder
<1>4. CASE Consumer \/ Tick \/ UNCHANGED vars
  BY <1>4, ConsumerLeaves, TickLeaves DEF vars
<1> QED
  BY <1>1, <1>2, <1>3, <1>4, Steps

\* VideoControl.
LEMMA ControlsWritten ==
  ASSUME NEW c \in Controls, NEW e \in Nat, NEW r \in Nat, NEW p \in Int, NEW k \in OneFrame,
         NEW s \in Seeks, NEW d \in Int
  PROVE  /\ [c EXCEPT !.epoch = e, !.rx = r, !.on = FALSE, !.pos = p, !.peek = k, !.last = k,
                      !.hasFrame = FALSE, !.fade = FALSE, !.seek = s] \in Controls
         /\ [c EXCEPT !.epoch = e, !.on = FALSE, !.pos = p, !.rx = r, !.peek = k, !.last = k]
               \in Controls
         /\ [c EXCEPT !.epoch = e, !.rx = r, !.peek = k] \in Controls
         /\ [c EXCEPT !.delta = d] \in Controls
  BY DEF Controls

LEMMA CtlStep ==
  ASSUME ctl \in Controls, cue \in Cues, app \in Apps, con \in Consumers, dec \in Decoders,
         paused \in BOOLEAN, [Next]_vars
  PROVE  ctl' \in Controls
<1> USE Nothing, BoundsHold
<1>0. ctl.epoch + 1 \in Nat /\ 0 \in Nat /\ 0 \in Int /\ ctl.pos \in Int /\ ctl.peek \in Int /\ Position \in Int
  BY DEF Controls, OneFrame, FrameNumbers, None, Position, GreaterOf, Bounds
<1>a. ASSUME NEW c \in Controls, NEW e \in Nat
      PROVE  [c EXCEPT !.epoch = e, !.rx = 0, !.on = FALSE, !.pos = 0, !.peek = None,
                       !.last = None, !.hasFrame = FALSE, !.fade = FALSE, !.seek = NoSeek]
               \in Controls
  <2>1. 0 \in Nat /\ 0 \in Int
    OBVIOUS
  <2> QED
    BY <2>1, ControlsWritten, Zenon
<1>b. StopPlayback(<<>>) \/ StopPlayback(<<"blank">>) => ctl' \in Controls
  <2> SUFFICES ASSUME StopPlayback(<<>>) \/ StopPlayback(<<"blank">>) PROVE ctl' \in Controls
    OBVIOUS
  <2>1. ctl' = [ctl EXCEPT !.epoch = ctl.epoch + 1, !.rx = 0, !.on = FALSE, !.pos = 0,
                           !.peek = None, !.last = None, !.hasFrame = FALSE, !.fade = FALSE,
                           !.seek = NoSeek]
    BY DEF StopPlayback
  <2> QED
    BY <1>0, <1>a, <2>1
<1>1. CASE Operator
  <2>1. CASE Play
    <3>1. PICK late \in 0 .. MaxLate :
            ctl' = [ctl EXCEPT !.epoch = @ + 1, !.on = TRUE, !.pos = MediaOffset + late,
                               !.frozen = FALSE, !.peek = None, !.last = None,
                               !.hasFrame = FALSE, !.fade = FALSE, !.seek = NoSeek]
      BY <2>1 DEF Play, StartVideo
    <3>2. MediaOffset + late \in Int
      BY DEF Bounds
    <3> QED
      BY <1>0, <3>1, <3>2 DEF Controls
  <2>2. CASE Stop \/ ChangeProject
    <3> DEFINE c == [ctl EXCEPT !.frozen = FALSE]
    <3>1. ctl' = [c EXCEPT !.epoch = c.epoch + 1, !.rx = 0, !.on = FALSE, !.pos = 0,
                           !.peek = None, !.last = None, !.hasFrame = FALSE, !.fade = FALSE,
                           !.seek = NoSeek]
      BY <2>2 DEF Stop, ChangeProject, StopAll
    <3>2. c \in Controls
      BY DEF Controls
    <3> HIDE DEF c
    <3>3. c.epoch + 1 \in Nat
      BY <3>2 DEF Controls
    <3> QED
      BY <1>a, <3>1, <3>2, <3>3
  <2>3. CASE ShowImage
    <3>1. ctl' = [ctl EXCEPT !.epoch = ctl.epoch + 1, !.on = FALSE, !.pos = 0, !.rx = 0,
                             !.peek = None, !.last = None]
      BY <2>3 DEF ShowImage
    <3> QED
      BY <1>0, <3>1, ControlsWritten, Zenon
  <2>4. CASE \E f \in BOOLEAN : StopVideo(f) \/ StopImage(f)
    <3>1. CASE StopPlayback(<<>>) \/ StopPlayback(<<"blank">>)
      BY <1>b, <3>1
    <3>2. CASE ctl' = [ctl EXCEPT !.fade = TRUE] \/ ctl' = ctl
      BY <3>2 DEF Controls
    <3> QED
      BY <2>4, <3>1, <3>2 DEF StopVideo, StopImage, FadePlayback
  <2>5. CASE Pause \/ Resume
    BY <2>5 DEF Pause, Resume, Controls
  <2>6. CASE Seek
    <3>1. PICK t \in 0 .. Frames - MediaOffset + 1 :
            ctl' = [ctl EXCEPT !.on = TRUE, !.pos = MediaOffset + t,
                               !.frozen = paused, !.peek = None, !.last = None]
      BY <2>6 DEF Seek, SeekWith
    <3>2. MediaOffset + t \in Int
      BY DEF Bounds
    <3> QED
      BY <3>1, <3>2 DEF Controls
  <2>7. CASE FrameStep
    <3>1. PICK forward \in {ctl.peek - Position, 0} :
            ctl' = [ctl EXCEPT !.pos = @ + forward, !.step = TRUE]
      BY <2>7 DEF FrameStep, GreaterOf
    <3>2. ctl.pos + forward \in Int
      BY <1>0
    <3> QED
      BY <3>1, <3>2 DEF Controls
  <2>8. CASE ShowText \/ StopText \/ FrameStepBack
    BY <2>8 DEF ShowText, StopText, FrameStepBack
  <2> QED
    BY <1>1, <2>1, <2>2, <2>3, <2>4, <2>5, <2>6, <2>7, <2>8 DEF Operator
<1>2. CASE EventLoop
  <2>1. CASE VideoLoops
    <3>1. ctl' = [ctl EXCEPT !.epoch = @ + 1, !.on = TRUE, !.pos = MediaOffset + 0,
                             !.frozen = FALSE, !.peek = None, !.last = None,
                             !.hasFrame = FALSE, !.fade = FALSE, !.seek = NoSeek]
      BY <2>1 DEF VideoLoops, StartVideo
    <3>2. MediaOffset + 0 \in Int
      BY DEF Bounds
    <3> QED
      BY <1>0, <3>1, <3>2 DEF Controls
  <2>2. CASE VideoEnds \/ GiveUp \/ FadeDone
    BY <1>b, <2>2 DEF VideoEnds, GiveUp, FadeDone
  <2>3. CASE SpawnDecode \/ FoldShowDelta
    <3>1. CASE ctl' = [ctl EXCEPT !.epoch = ctl.epoch + 1, !.rx = 0, !.peek = None]
      BY <1>0, <3>1, ControlsWritten, Zenon
    <3>2. CASE ctl' = [ctl EXCEPT !.delta = None]
      BY <3>2 DEF Controls
    <3> QED
      BY <2>3, <3>1, <3>2 DEF SpawnDecode, FoldShowDelta
  <2>4. CASE StartDecode
    <3>1. app.req.seek \in Seeks
      BY DEF Apps, Requests
    <3> QED
      BY <1>0, <2>4, <3>1 DEF StartDecode, StartsDecode, Controls
  <2>5. CASE StartPutOff \/ EventIgnored \/ RetryDecode
    BY <2>5 DEF StartPutOff, EventIgnored, RetryDecode
  <2> QED
    BY <1>2, <2>1, <2>2, <2>3, <2>4, <2>5 DEF EventLoop
<1>3. CASE Decoder
  <2>1. CASE DecoderOpens
    <3>1. PICK actual \in {dec.from, LesserOf(dec.from, Frames)} :
            ctl' \in {ctl, [ctl EXCEPT !.on = TRUE, !.pos = actual, !.frozen = paused]}
      BY <2>1 DEF DecoderOpens
    <3>2. actual \in Int
      BY DEF Decoders, LesserOf, Bounds
    <3> QED
      BY <3>1, <3>2 DEF Controls
  <2>2. CASE DecoderStops \/ DecoderFails \/ DecoderSends
    BY <2>2 DEF DecoderStops, DecoderFails, DecoderSends
  <2> QED
    BY <1>3, <2>1, <2>2 DEF Decoder
<1>4. CASE Consumer
  <2>1. CASE Handshake
    <3>1. PICK seek \in {NoSeek, ctl.seek}, peek \in {None, ctl.peek} :
            ctl' = [ctl EXCEPT !.rx = 0, !.seek = seek, !.peek = peek]
      BY <2>1 DEF Handshake
    <3> QED
      BY <3>1 DEF Controls
  <2>2. CASE SeekFrameArrives
    <3>1. CASE ctl' = [ctl EXCEPT !.peek = None] \/ ctl' = ctl
      BY <3>1 DEF Controls
    <3>2. CASE ~(ctl' = [ctl EXCEPT !.peek = None] \/ ctl' = ctl)
      <4> DEFINE back == IF con.req.adjust THEN GreaterOf(con.req.at - con.msg, 0) ELSE 0
      <4>1. /\ con.msg \in FrameNumbers
            /\ ctl' = [ctl EXCEPT !.pos = @ - back, !.peek = con.msg, !.step = TRUE,
                                  !.delta = IF back > 0 THEN back ELSE @]
        BY <2>2, <3>2 DEF SeekFrameArrives, SeekFrame, history
      <4>2. back \in Int
        BY <4>1 DEF Consumers, Seeks, FrameNumbers, GreaterOf, Bounds
      <4> HIDE DEF back
      <4>3. ctl.pos - back \in Int
        BY <1>0, <4>2
      <4> QED
        BY <4>1, <4>2, <4>3 DEF Controls, OneFrame
    <3> QED
      BY <3>1, <3>2
  <2>3. CASE SelectFrame
    <3>1. PICK current \in BOOLEAN : ctl' = [ctl EXCEPT !.step = @ /\ ~current]
      BY <2>3, Zenon DEF SelectFrame
    <3> QED
      BY <3>1 DEF Controls
  <2>4. CASE WriteBack
    <3>1. PICK last \in {ctl.last, con.consumed}, has \in BOOLEAN :
            ctl' \in {ctl, [ctl EXCEPT !.peek = con.peek, !.last = last,
                                       !.hasFrame = @ \/ has]}
      <4>1. \E has \in BOOLEAN : has = (con.consumed # None)
        BY Zenon
      <4> QED
        BY <2>4, <4>1 DEF WriteBack, WritesBack
    <3>2. last \in OneFrame /\ con.peek \in OneFrame
      BY DEF Controls, Consumers
    <3>3. (ctl.hasFrame \/ has) \in BOOLEAN
      BY Zenon
    <3>4. \A b \in BOOLEAN : [ctl EXCEPT !.peek = con.peek, !.last = last, !.hasFrame = b] \in Controls
      BY <3>2 DEF Controls
    <3> QED
      BY <3>1, <3>3, <3>4, Zenon
  <2>5. CASE RunCanvasCommands \/ AwaitFrame \/ CheckEpoch \/ UploadFrame
    BY <2>5 DEF RunCanvasCommands, AwaitFrame, CheckEpoch, UploadFrame
  <2> QED
    BY <1>4, <2>1, <2>2, <2>3, <2>4, <2>5 DEF Consumer
<1>5. CASE Tick \/ UNCHANGED vars
  BY <1>0, <1>5, TickLeaves DEF vars, Controls
<1> QED
  BY <1>1, <1>2, <1>3, <1>4, <1>5, Steps

\* What the consume thread has at hand are messages.
LEMMA WaitingTyped ==
  ASSUME con \in Consumers, \A i \in DOMAIN chan : chan[i] \in Channels, con.rx \in DOMAIN chan \cup {0}
  PROVE  Queued \in Seq(Messages) /\ Waiting \in Seq(Messages)
<1>1. Queued \in Seq(Messages)
  BY DEF Queued, Channels
<1>2. con.peek # None => <<con.peek>> \in Seq(Messages)
  BY BoundsHold DEF Consumers, OneFrame, FrameNumbers, Messages, Failed, Bounds
<1> QED
  BY <1>1, <1>2 DEF Waiting

LEMMA ReleasedTyped ==
  ASSUME NEW c \in Consumers
  PROVE  Released(c) \in Consumers
  BY Nothing DEF Released, Consumers

\* The consume thread.
LEMMA ConStep ==
  ASSUME con \in Consumers, ctl \in Controls, \A i \in DOMAIN chan : chan[i] \in Channels,
         con.rx \in DOMAIN chan \cup {0}, ctl.rx \in DOMAIN chan \cup {0}, [Next]_vars
  PROVE  con' \in Consumers
<1>0. None \in OneFrame /\ NoSeek \in Seeks /\ Released(con) \in Consumers
  BY Nothing, ReleasedTyped
<1>1. CASE Consumer
  <2>1. CASE RunCanvasCommands \/ UploadFrame
    BY <2>1 DEF RunCanvasCommands, UploadFrame, Consumers
  <2>2. CASE Handshake
    <3>1. PICK stream \in {con, Released(con),
                           [Released(con) EXCEPT !.rx = ctl.rx, !.epoch = ctl.epoch,
                                                 !.inst = chan[ctl.rx].inst]},
               seeks \in BOOLEAN :
            /\ stream # con /\ stream # Released(con) => ctl.rx # 0
            /\ con' = [stream EXCEPT !.pc = IF seeks THEN "wait" ELSE "due",
                                     !.peek = IF seeks THEN None ELSE @,
                                     !.consumed = None, !.msg = None,
                                     !.req = IF seeks THEN ctl.seek ELSE NoSeek]
      <4> DEFINE dropped == con.epoch # 0 /\ con.epoch # ctl.epoch
                 taken == ctl.rx # 0
                 retired == ~ctl.on
                 stream == IF retired \/ (dropped /\ ~taken) THEN Released(con)
                           ELSE IF taken
                           THEN [Released(con) EXCEPT !.rx = ctl.rx, !.epoch = ctl.epoch,
                                                      !.inst = chan[ctl.rx].inst]
                           ELSE con
                 seeks == stream.epoch = ctl.epoch /\ ctl.seek # NoSeek
      <4>1. /\ stream \in {con, Released(con),
                           [Released(con) EXCEPT !.rx = ctl.rx, !.epoch = ctl.epoch,
                                                 !.inst = chan[ctl.rx].inst]}
            /\ stream # con /\ stream # Released(con) => ctl.rx # 0
        BY Zenon
      <4>2. con' = [stream EXCEPT !.pc = IF seeks THEN "wait" ELSE "due",
                                  !.peek = IF seeks THEN None ELSE @,
                                  !.consumed = None, !.msg = None,
                                  !.req = IF seeks THEN ctl.seek ELSE NoSeek]
        BY <2>2, Zenon DEF Handshake
      <4>3. seeks \in BOOLEAN
        BY Zenon
      <4> HIDE DEF stream, seeks
      <4> QED
        BY <4>1, <4>2, <4>3
    <3>2. stream \in Consumers
      <4>1. CASE ctl.rx # 0
        <5>1. chan[ctl.rx].inst \in Nat
          BY <4>1 DEF Channels
        <5> QED
          BY <1>0, <3>1, <5>1 DEF Consumers, Controls
      <4> QED
        BY <1>0, <3>1, <4>1
    <3> HIDE DEF Released
    <3> QED
      BY <1>0, <3>1, <3>2 DEF Consumers, Controls
  <2>3. CASE AwaitFrame
    <3>1. CASE \E m \in Messages : con' = [con EXCEPT !.pc = "got", !.msg = m]
      BY <3>1 DEF Consumers
    <3>2. CASE con' = [con EXCEPT !.pc = "got"]
      BY <3>2 DEF Consumers
    <3>3. con.rx # 0 /\ chan[con.rx].q # <<>> => Head(chan[con.rx].q) \in Messages
      <4>1. con.rx # 0 => chan[con.rx].q \in Seq(Messages)
        BY DEF Channels
      <4> QED
        BY <4>1
    <3>4. Failed \in Messages
      BY BoundsHold DEF Failed, Messages, Bounds
    <3>5. \/ con.rx # 0 /\ chan[con.rx].q # <<>>
             /\ con' = [con EXCEPT !.pc = "got", !.msg = Head(chan[con.rx].q)]
          \/ con' = [con EXCEPT !.pc = "got", !.msg = Failed]
          \/ con' = [con EXCEPT !.pc = "got"]
      BY <2>3 DEF AwaitFrame
    <3> QED
      BY <3>1, <3>2, <3>3, <3>4, <3>5
  <2>4. CASE SeekFrameArrives
    <3>1. CASE con' = [Released(con) EXCEPT !.pc = "due", !.msg = None, !.req = NoSeek]
      BY <1>0, <3>1 DEF Consumers
    <3>2. CASE con' = [con EXCEPT !.pc = "due", !.req = NoSeek]
      BY <1>0, <3>2 DEF Consumers
    <3>3. CASE /\ con.msg \in FrameNumbers
               /\ con' = [con EXCEPT !.pc = "due", !.peek = con.msg, !.msg = None, !.req = NoSeek]
      BY <1>0, <3>3 DEF Consumers, OneFrame
    <3>4. CASE /\ con.msg \notin FrameNumbers /\ con.msg # None
               /\ con' = [con EXCEPT !.pc = "due", !.rx = 0, !.terminal = con.msg, !.msg = None,
                                     !.req = NoSeek]
      <4>1. con.msg \in {0, Eof, Failed}
        BY <3>4, BoundsHold DEF Consumers, Messages, FrameNumbers, Eof, Failed, Bounds
      <4> HIDE DEF Eof, Failed
      <4> QED
        BY <1>0, <3>4, <4>1 DEF Consumers
    <3> QED
      BY <2>4, <3>1, <3>2, <3>3, <3>4 DEF SeekFrameArrives, SeekFrame
  <2>5. CASE SelectFrame
    <3>1. PICK ahead \in IF Stepping THEN {0} ELSE 0 .. Lookahead, n \in 0 .. Len(Waiting) :
            /\ \A i \in 1 .. n : IsDue(Waiting[i], ahead)
            /\ TakeFrames(n)
      BY <2>5 DEF SelectFrame
    <3>2. Waiting \in Seq(Messages)
      BY WaitingTyped
    <3>3. n > 0 => Waiting[n] \in FrameNumbers
      <4>1. n > 0 => Waiting[n] \in Messages
        BY <3>2
      <4>2. n > 0 => Waiting[n] < Frames
        <5>1. n > 0 => n \in 1 .. n
          OBVIOUS
        <5> QED
          BY <3>1, <5>1 DEF IsDue
      <4> QED
        BY <4>1, <4>2, BoundsHold DEF Messages, FrameNumbers, Failed, Bounds
    <3>4. Reached(n) \in Messages \cup {None}
      BY <3>2 DEF Reached
    <3>5. /\ Reached(n) >= Frames => Reached(n) \in {Eof, Failed}
          /\ ~(Reached(n) >= Frames) => Reached(n) \in OneFrame
      BY <3>4, BoundsHold DEF Messages, OneFrame, FrameNumbers, Eof, Failed, None, Bounds
    <3>6. EndAfter(n) \in {0, Eof, Failed}
      BY <3>5 DEF EndAfter, Consumers
    <3>7. PICK pc \in {"check", "wrote"}, consumed \in OneFrame, peek \in OneFrame,
               rx \in {0, con.rx} :
            con' = [con EXCEPT !.pc = pc, !.consumed = consumed, !.peek = peek,
                               !.terminal = EndAfter(n), !.rx = rx]
      BY <1>0, <3>1, <3>3, <3>5 DEF TakeFrames, OneFrame
    <3>8. rx \in Nat
      BY DEF Consumers
    <3>9. ASSUME NEW e \in {0, Eof, Failed}, NEW r \in Nat
          PROVE  [con EXCEPT !.pc = pc, !.consumed = consumed, !.peek = peek,
                             !.terminal = e, !.rx = r] \in Consumers
      BY DEF Consumers
    <3> QED
      BY <3>6, <3>7, <3>8, <3>9
  <2>6. CASE CheckEpoch \/ WriteBack
    <3>1. PICK c \in {con, Released(con)}, pc \in {"wrote", "upload", "cmds"},
               consumed \in {None, con.consumed} :
            con' = [c EXCEPT !.pc = pc, !.consumed = consumed]
      <4>1. con = [con EXCEPT !.consumed = con.consumed]
        BY DEF Consumers
      <4>2. [con EXCEPT !.pc = "upload"] = [con EXCEPT !.pc = "upload", !.consumed = con.consumed]
        BY DEF Consumers
      <4> QED
        BY <2>6, <4>2 DEF CheckEpoch, WriteBack, WritesBack
    <3>2. c \in Consumers
      BY <1>0, <3>1
    <3> HIDE DEF Released
    <3> QED
      BY <1>0, <3>1, <3>2 DEF Consumers
  <2> QED
    BY <1>1, <2>1, <2>2, <2>3, <2>4, <2>5, <2>6 DEF Consumer
<1>2. CASE Operator \/ EventLoop \/ Decoder \/ Tick \/ UNCHANGED vars
  BY <1>2, EventLoopLeaves, DecoderLeaves, TickLeaves DEF vars
<1> QED
  BY <1>1, <1>2, Steps

\* A channel has a receiver, which one thread holds.
Held ==
    /\ \A i \in DOMAIN chan : chan[i] \in Channels /\ Len(chan[i].q) <= QueueCap
    /\ DOMAIN chan \subseteq 1 .. ctl.epoch
    /\ {ctl.rx, con.rx} \ {0} = DOMAIN chan
    /\ con.rx # 0 => con.rx # ctl.rx

\* KeepHeld drops the channels whose receiver was dropped.
LEMMA KeptHeld ==
  ASSUME Held, ctl.epoch \in Nat, ctl'.epoch \in {ctl.epoch, ctl.epoch + 1},
         ctl'.rx \in {0, ctl.rx, con.rx}, con'.rx \in {0, ctl.rx, con.rx},
         con'.rx # 0 => con'.rx # ctl'.rx, KeepHeld(ctl'.rx, con'.rx)
  PROVE  Held'
<1>1. DOMAIN chan' = DOMAIN chan \cap {ctl'.rx, con'.rx}
      /\ \A i \in DOMAIN chan' : chan'[i] = chan[i]
  BY DEF KeepHeld
<1>2. \A i \in DOMAIN chan' : chan'[i] \in Channels /\ Len(chan'[i].q) <= QueueCap
  BY <1>1 DEF Held
<1>3. DOMAIN chan' \subseteq 1 .. ctl'.epoch
  BY <1>1 DEF Held
<1>4. {ctl'.rx, con'.rx} \ {0} = DOMAIN chan'
  <2> DEFINE r == ctl'.rx
             c == con'.rx
  <2>1. r \in {0} \cup DOMAIN chan /\ c \in {0} \cup DOMAIN chan /\ 0 \notin DOMAIN chan
    BY DEF Held
  <2>2. DOMAIN chan' = DOMAIN chan \cap {r, c}
    BY <1>1
  <2> HIDE DEF r, c
  <2>3. {r, c} \ {0} = DOMAIN chan'
    BY <2>1, <2>2
  <2> QED
    BY <2>3 DEF r, c
<1> QED
  BY <1>2, <1>3, <1>4 DEF Held

\* What changes at most the contents of the channels.
LEMMA SameReceivers ==
  ASSUME Held, ctl'.rx = ctl.rx, con'.rx = con.rx, ctl.epoch \in Nat,
         ctl'.epoch \in {ctl.epoch, ctl.epoch + 1},
         DOMAIN chan' = DOMAIN chan,
         \A i \in DOMAIN chan : chan'[i] \in Channels /\ Len(chan'[i].q) <= QueueCap
  PROVE  Held'
<1>1. DOMAIN chan' \subseteq 1 .. ctl'.epoch
  BY DEF Held
<1> QED
  BY <1>1 DEF Held

LEMMA HeldOperator ==
  ASSUME Held, ctl \in Controls, Operator
  PROVE  Held'
<1>1. con' = con
  BY EventLoopLeaves
<1>2. CASE KeepHeld(ctl'.rx, con.rx)
  <2>1. ctl'.rx \in {0, ctl.rx} /\ ctl'.epoch \in {ctl.epoch, ctl.epoch + 1}
    BY DEF Operator, Play, StartVideo, Stop, ChangeProject, StopAll, ShowImage, ShowText,
       StopText, Pause, Resume, Seek, SeekWith, FrameStep, FrameStepBack, StopVideo, StopImage,
       StopPlayback, FadePlayback, Controls
  <2>2. KeepHeld(ctl'.rx, con'.rx) /\ ctl.epoch \in Nat
    BY <1>1, <1>2 DEF Controls
  <2> QED
    BY <1>1, <2>1, <2>2, KeptHeld DEF Held
<1>3. CASE chan' = chan /\ ctl'.rx = ctl.rx
  <2>1. ctl'.epoch \in {ctl.epoch, ctl.epoch + 1} /\ ctl.epoch \in Nat
    BY DEF Operator, Play, StartVideo, Stop, ChangeProject, StopAll, ShowImage, ShowText,
       StopText, Pause, Resume, Seek, SeekWith, FrameStep, FrameStepBack, StopVideo, StopImage,
       StopPlayback, FadePlayback, Controls
  <2> QED
    BY <1>1, <1>3, <2>1, SameReceivers DEF Held
<1> QED
  BY <1>2, <1>3 DEF Operator, Play, StartVideo, Stop, ChangeProject, StopAll, ShowImage, ShowText,
     StopText, Pause, Resume, Seek, SeekWith, FrameStep, FrameStepBack, StopVideo, StopImage,
     Controls

LEMMA HeldEventLoop ==
  ASSUME Held, ctl \in Controls, app \in Apps, EventLoop
  PROVE  Held'
<1>1. con' = con /\ ctl.epoch \in Nat
  BY EventLoopLeaves DEF Controls
<1>2. CASE SpawnDecode \/ VideoEnds \/ GiveUp \/ FadeDone
  <2>1. ctl'.rx = 0 /\ ctl'.epoch = ctl.epoch + 1 /\ KeepHeld(ctl'.rx, con'.rx)
    BY <1>1, <1>2 DEF SpawnDecode, VideoEnds, GiveUp, FadeDone, StopPlayback, Controls
  <2> QED
    BY <1>1, <2>1, KeptHeld DEF Held
<1>3. CASE VideoLoops \/ StartPutOff \/ EventIgnored \/ RetryDecode \/ FoldShowDelta
  <2>1. chan' = chan /\ ctl'.rx = ctl.rx /\ ctl'.epoch \in {ctl.epoch, ctl.epoch + 1}
    BY <1>3 DEF VideoLoops, StartVideo, StartPutOff, EventIgnored, RetryDecode, FoldShowDelta,
       Controls
  <2> QED
    BY <1>1, <2>1, SameReceivers DEF Held
<1>4. CASE StartDecode
  <2> DEFINE e == ctl.epoch + 1
             new == [q |-> <<>>, open |-> TRUE, inst |-> app.plays]
  <2>1. /\ ctl'.rx = e /\ ctl'.epoch = e
        /\ chan' = [i \in (DOMAIN chan \ {ctl.rx}) \cup {e} |-> IF i = e THEN new ELSE chan[i]]
    BY <1>4 DEF StartDecode, StartsDecode, Controls
  <2>2. new \in Channels /\ Len(new.q) <= QueueCap
    BY BoundsHold DEF Channels, Apps, Bounds
  <2>3. e \notin DOMAIN chan /\ e # 0 /\ e \in Nat /\ DOMAIN chan \subseteq 1 .. e
    BY <1>1 DEF Held
  <2> HIDE DEF e, new
  <2>4. DOMAIN chan' = {e, con.rx} \ {0}
    BY <2>1, <2>3 DEF Held
  <2>5. \A i \in DOMAIN chan' : chan'[i] \in Channels /\ Len(chan'[i].q) <= QueueCap
    BY <2>1, <2>2 DEF Held
  <2>6. DOMAIN chan' \subseteq 1 .. ctl'.epoch
    BY <2>1, <2>3
  <2>7. con.rx # 0 => con.rx # e
    BY <2>3 DEF Held
  <2> QED
    BY <1>1, <2>1, <2>4, <2>5, <2>6, <2>7 DEF Held
<1> QED
  BY <1>2, <1>3, <1>4 DEF EventLoop

LEMMA HeldDecoder ==
  ASSUME Held, ctl \in Controls, dec \in Decoders, Decoder
  PROVE  Held'
<1>1. con' = con /\ ctl'.rx = ctl.rx /\ ctl'.epoch = ctl.epoch /\ ctl.epoch \in Nat
  BY DecoderLeaves DEF Controls, Decoder, DecoderStops, DecoderOpens, DecoderFails, DecoderSends
<1>2. CASE DecoderStops
  <2>1. chan' = [i \in DOMAIN chan |->
                    IF i = dec.id THEN [chan[i] EXCEPT !.open = FALSE] ELSE chan[i]]
    BY <1>2 DEF DecoderStops, DecoderExits
  <2>2. \A i \in DOMAIN chan : [chan[i] EXCEPT !.open = FALSE] \in Channels
                              /\ [chan[i] EXCEPT !.open = FALSE].q = chan[i].q
    BY DEF Held, Channels
  <2> QED
    BY <1>1, <2>1, <2>2, SameReceivers DEF Held
<1>3. CASE DecoderOpens \/ DecoderFails
  BY <1>1, <1>3, SameReceivers DEF DecoderOpens, DecoderFails, Held
<1>4. CASE DecoderSends
  <2>1. /\ dec.id \in DOMAIN chan /\ Len(chan[dec.id].q) < QueueCap
        /\ chan[dec.id] \in Channels /\ dec.next \in Messages
    BY <1>4 DEF DecoderSends, Held, Decoders
  <2> DEFINE q == Append(chan[dec.id].q, dec.next)
  <2>2. q \in Seq(Messages) /\ Len(q) <= QueueCap
    BY <2>1, BoundsHold DEF Channels, Bounds
  <2>3. \/ chan' = [chan EXCEPT ![dec.id] = [chan[dec.id] EXCEPT !.q = q]]
        \/ chan' = [chan EXCEPT ![dec.id] = [chan[dec.id] EXCEPT !.q = q, !.open = FALSE]]
    BY <1>4 DEF DecoderSends, Held
  <2> HIDE DEF q
  <2>4. ASSUME NEW c \in Channels
        PROVE  /\ [c EXCEPT !.q = q] \in Channels /\ [c EXCEPT !.q = q].q = q
               /\ [c EXCEPT !.q = q, !.open = FALSE] \in Channels
               /\ [c EXCEPT !.q = q, !.open = FALSE].q = q
    BY <2>2 DEF Channels
  <2>5. PICK new \in Channels : new.q = q /\ chan' = [chan EXCEPT ![dec.id] = new]
    BY <2>1, <2>3, <2>4
  <2> QED
    BY <1>1, <2>1, <2>2, <2>5, SameReceivers DEF Held
<1> QED
  BY <1>2, <1>3, <1>4 DEF Decoder
LEMMA ChannelWritten ==
  ASSUME NEW c \in Channels, NEW q \in Seq(Messages), Len(q) <= QueueCap
  PROVE  [c EXCEPT !.q = q] \in Channels /\ Len([c EXCEPT !.q = q].q) <= QueueCap
<1>1. [c EXCEPT !.q = q] \in Channels /\ [c EXCEPT !.q = q].q = q
  BY DEF Channels
<1> QED
  BY <1>1

LEMMA HeldConsumer ==
  ASSUME Held, ctl \in Controls, con \in Consumers, Consumer
  PROVE  Held'
<1>0. ctl.epoch \in Nat /\ DOMAIN ctl' = DOMAIN ctl /\ ctl'.epoch = ctl.epoch
  BY DEF Consumer, RunCanvasCommands, Handshake, AwaitFrame, SeekFrameArrives, SeekFrame,
     SelectFrame, CheckEpoch, UploadFrame, WriteBack, WritesBack, history, Controls
<1>1. CASE RunCanvasCommands \/ UploadFrame
  <2>1. ctl'.rx = ctl.rx /\ con'.rx = con.rx /\ chan' = chan
    BY <1>1 DEF RunCanvasCommands, UploadFrame, Consumers
  <2> QED
    BY <1>0, <2>1, SameReceivers DEF Held
<1>2. CASE Handshake
  <2>1. ctl'.rx = 0 /\ KeepHeld(ctl'.rx, con'.rx)
    BY <1>2 DEF Handshake, Controls
  <2>2. con'.rx \in {con.rx, 0, ctl.rx}
    BY <1>2 DEF Handshake, Released, Consumers
  <2> QED
    BY <1>0, <2>1, <2>2, KeptHeld
<1>3. CASE AwaitFrame
  <2>1. ctl'.rx = ctl.rx /\ con'.rx = con.rx
    BY <1>3 DEF AwaitFrame, Consumers
  <2>2. \/ chan' = chan
        \/ /\ con.rx \in DOMAIN chan /\ chan[con.rx].q # <<>>
           /\ chan' = [chan EXCEPT ![con.rx].q = Tail(@)]
    BY <1>3 DEF AwaitFrame, Held
  <2>3. CASE con.rx \in DOMAIN chan /\ chan[con.rx].q # <<>>
             /\ chan' = [chan EXCEPT ![con.rx].q = Tail(@)]
    <3> DEFINE q == Tail(chan[con.rx].q)
               new == [chan[con.rx] EXCEPT !.q = q]
    <3>1. chan[con.rx] \in Channels /\ chan[con.rx].q \in Seq(Messages)
          /\ Len(chan[con.rx].q) <= QueueCap
      BY <2>3 DEF Held, Channels
    <3>2. q \in Seq(Messages) /\ Len(q) = Len(chan[con.rx].q) - 1
      BY <2>3, <3>1
    <3>3. Len(q) <= QueueCap
      BY <3>1, <3>2, BoundsHold DEF Bounds
    <3>4. chan' = [chan EXCEPT ![con.rx] = new]
      BY <2>3
    <3> HIDE DEF q
    <3>5. new \in Channels /\ Len(new.q) <= QueueCap
      BY <3>1, <3>2, <3>3, ChannelWritten
    <3> HIDE DEF new
    <3> QED
      BY <1>0, <2>1, <3>4, <3>5, SameReceivers DEF Held
  <2> QED
    BY <1>0, <2>1, <2>2, <2>3, SameReceivers DEF Held
<1>4. CASE SeekFrameArrives \/ CheckEpoch \/ WriteBack
  <2>1. ctl'.rx = ctl.rx
    BY <1>4 DEF SeekFrameArrives, SeekFrame, CheckEpoch, WriteBack, WritesBack, Controls
  <2>2. con'.rx \in {con.rx, 0}
    BY <1>4 DEF SeekFrameArrives, SeekFrame, CheckEpoch, WriteBack, WritesBack, Released, Consumers
  <2>3. KeepHeld(ctl'.rx, con'.rx)
    BY <1>4, <2>1 DEF SeekFrameArrives, SeekFrame, CheckEpoch, WriteBack, WritesBack
  <2> QED
    BY <1>0, <2>1, <2>2, <2>3, KeptHeld DEF Held
<1>5. CASE SelectFrame
  <2>1. PICK n \in 0 .. Len(Waiting) : TakeFrames(n)
    BY <1>5 DEF SelectFrame
  <2>2. ctl'.rx = ctl.rx
    BY <1>5 DEF SelectFrame, Controls
  <2>3. con'.rx = IF EndAfter(n) # 0 THEN 0 ELSE con.rx
    BY <2>1 DEF TakeFrames, Consumers
  <2> DEFINE rest == SubSeq(Waiting, n + 2, Len(Waiting))
  <2>4. /\ DOMAIN chan' = DOMAIN chan \ (IF EndAfter(n) = 0 THEN {} ELSE {con.rx})
        /\ \A i \in DOMAIN chan' :
              chan'[i] = IF i # con.rx THEN chan[i] ELSE [chan[i] EXCEPT !.q = rest]
    BY <2>1 DEF TakeFrames
  <2>5. ASSUME con.rx \in DOMAIN chan
        PROVE  rest \in Seq(Messages) /\ Len(rest) <= QueueCap
    <3>1. Waiting \in Seq(Messages) /\ Queued \in Seq(Messages) /\ Len(Queued) <= QueueCap
      BY <2>5, WaitingTyped DEF Held, Queued
    <3>2. Len(Waiting) <= Len(Queued) + 1
      <4>1. CASE con.peek = None
        BY <3>1, <4>1 DEF Waiting
      <4>2. CASE con.peek # None
        BY <3>1, <4>2 DEF Waiting
      <4> QED
        BY <4>1, <4>2
    <3>3. rest \in Seq(Messages) /\ (Len(rest) = 0 \/ Len(rest) <= Len(Waiting) - 1)
      BY <3>1
    <3> QED
      BY <3>1, <3>2, <3>3, BoundsHold DEF Bounds
  <2> HIDE DEF rest
  <2>6. \A i \in DOMAIN chan' : chan'[i] \in Channels /\ Len(chan'[i].q) <= QueueCap
    <3> TAKE i \in DOMAIN chan'
    <3>1. i \in DOMAIN chan /\ chan[i] \in Channels /\ Len(chan[i].q) <= QueueCap
      BY <2>4 DEF Held
    <3>2. CASE i # con.rx
      BY <2>4, <3>1, <3>2
    <3>3. CASE i = con.rx
      <4>1. chan'[i] = [chan[i] EXCEPT !.q = rest]
        BY <2>4, <3>3
      <4> QED
        BY <2>5, <3>1, <3>3, <4>1, ChannelWritten
    <3> QED
      BY <3>2, <3>3
  <2>7. DOMAIN chan' \subseteq 1 .. ctl'.epoch
    BY <1>0, <2>4 DEF Held
  <2>8. {ctl'.rx, con'.rx} \ {0} = DOMAIN chan'
    BY <2>2, <2>3, <2>4 DEF Held
  <2>9. con'.rx # 0 => con'.rx # ctl'.rx
    BY <2>2, <2>3 DEF Held
  <2> QED
    BY <2>6, <2>7, <2>8, <2>9 DEF Held
<1> QED
  BY <1>1, <1>2, <1>3, <1>4, <1>5 DEF Consumer

LEMMA HeldStep ==
  ASSUME Held, ctl \in Controls, con \in Consumers, app \in Apps, dec \in Decoders, [Next]_vars
  PROVE  Held'
<1>1. CASE Tick \/ UNCHANGED vars
  <2>1. ctl'.rx = ctl.rx /\ con' = con /\ chan' = chan /\ ctl'.epoch = ctl.epoch /\ ctl.epoch \in Nat
    BY <1>1, TickLeaves DEF vars, Controls
  <2> QED
    BY <2>1, SameReceivers DEF Held
<1> QED
  BY <1>1, Steps, HeldOperator, HeldEventLoop, HeldDecoder, HeldConsumer

\* The commands to the canvas and the reports to the event loop.
LEMMA CmdsStep ==
  ASSUME cmds \in Seq(Commands), [Next]_vars
  PROVE  cmds' \in Seq(Commands)
<1>1. ASSUME NEW further \in Seq(Commands)
      PROVE  cmds \o further \in Seq(Commands)
  OBVIOUS
<1>2. /\ "resize" \in Commands /\ "ensure" \in Commands /\ "blank" \in Commands
      /\ "image" \in Commands /\ "drop" \in Commands
  BY DEF Commands, Sizes, Pictures
<1> HIDE DEF Commands
<1>3. /\ <<>> \in Seq(Commands) /\ <<"blank">> \in Seq(Commands) /\ <<"ensure">> \in Seq(Commands)
      /\ <<"blank", "drop">> \in Seq(Commands) /\ <<"ensure", "image">> \in Seq(Commands)
  BY <1>2
<1>4. CASE Operator
  <2>1. CASE Play
    BY <1>2, <2>1 DEF Play, StartVideo
  <2>2. CASE Stop \/ ChangeProject \/ ShowImage
    BY <1>1, <1>3, <2>2 DEF Stop, ChangeProject, StopAll, ShowImage
  <2>3. CASE ShowText
    <3>1. \/ cmds' = cmds \o <<"ensure">> \o <<"blank">>
          \/ cmds' = cmds \o <<"ensure">> \o <<>>
      BY <2>3 DEF ShowText
    <3>2. cmds \o <<"ensure">> \in Seq(Commands)
      BY <1>3
    <3> DEFINE c == cmds \o <<"ensure">>
    <3>3. c \in Seq(Commands)
      BY <3>2
    <3> HIDE DEF c
    <3>4. c \o <<"blank">> \in Seq(Commands) /\ c \o <<>> \in Seq(Commands)
      BY <1>3, <3>3
    <3> QED
      BY <3>1, <3>4 DEF c
  <2>4. CASE \E f \in BOOLEAN : StopVideo(f) \/ StopImage(f)
    BY <1>1, <1>3, <2>4 DEF StopVideo, StopImage, StopPlayback, FadePlayback
  <2>5. CASE StopText \/ Pause \/ Resume \/ Seek \/ FrameStep \/ FrameStepBack
    BY <2>5 DEF StopText, Pause, Resume, Seek, SeekWith, FrameStep, FrameStepBack
  <2> QED
    BY <1>4, <2>1, <2>2, <2>3, <2>4, <2>5 DEF Operator
<1>5. CASE EventLoop
  <2>1. CASE VideoLoops
    BY <1>2, <2>1 DEF VideoLoops, StartVideo
  <2>2. CASE VideoEnds \/ GiveUp \/ FadeDone
    BY <1>1, <1>3, <2>2 DEF VideoEnds, GiveUp, FadeDone, StopPlayback
  <2>3. CASE \/ SpawnDecode \/ StartPutOff \/ StartDecode \/ EventIgnored \/ RetryDecode
             \/ FoldShowDelta
    BY <2>3 DEF SpawnDecode, StartPutOff, StartDecode, StartsDecode, EventIgnored, RetryDecode,
       FoldShowDelta
  <2> QED
    BY <1>5, <2>1, <2>2, <2>3 DEF EventLoop
<1>6. CASE Decoder \/ Consumer \/ Tick \/ UNCHANGED vars
  BY <1>3, <1>6, ConsumerLeaves, DecoderLeaves, TickLeaves DEF vars
<1> QED
  BY <1>4, <1>5, <1>6, Steps

\* Only the consume thread reports, at its write-back.
LEMMA EventsAre ==
  ASSUME [Next]_vars
  PROVE  \/ events' = events
         \/ events # <<>> /\ events' = Tail(events)
         \/ /\ WriteBack /\ Ended
            /\ events' = Append(events, [kind |-> IF con.terminal = Eof THEN "eof" ELSE "failed",
                                         epoch |-> con.epoch])
<1>1. CASE Operator
  BY <1>1, EventLoopLeaves DEF Operator, Play, StartVideo, Stop, ChangeProject, StopAll, ShowImage,
     ShowText, StopText, Pause, Resume, Seek, SeekWith, FrameStep, FrameStepBack, StopVideo,
     StopImage
<1>2. CASE EventLoop
  BY <1>2 DEF EventLoop, SpawnDecode, StartPutOff, StartDecode, StartsDecode, EventIgnored,
     VideoEnds, VideoLoops, RetryDecode, GiveUp, FoldShowDelta, FadeDone, Event
<1>3. CASE Consumer
  BY <1>3 DEF Consumer, RunCanvasCommands, Handshake, AwaitFrame, SeekFrameArrives, SeekFrame,
     SelectFrame, CheckEpoch, UploadFrame, WriteBack, WritesBack
<1>4. CASE Decoder \/ Tick \/ UNCHANGED vars
  BY <1>4, DecoderLeaves, TickLeaves DEF vars
<1> QED
  BY <1>1, <1>2, <1>3, <1>4, Steps

LEMMA EventsStep ==
  ASSUME events \in Seq(Reports), con \in Consumers, [Next]_vars
  PROVE  events' \in Seq(Reports)
<1>1. CASE events # <<>> /\ events' = Tail(events)
  BY <1>1
<1>2. con.epoch \in Nat
  BY DEF Consumers
<1>3. ASSUME NEW kind \in {"eof", "failed"}
      PROVE  Append(events, [kind |-> kind, epoch |-> con.epoch]) \in Seq(Reports)
  <2>1. [kind |-> kind, epoch |-> con.epoch] \in Reports
    BY <1>2 DEF Reports
  <2> QED
    BY <2>1
<1> QED
  BY <1>1, <1>3, EventsAre
LEMMA Skewed ==
  ASSUME skew \in Int, lit \in BOOLEAN, image \in BOOLEAN, paused \in BOOLEAN,
         adrift \in BOOLEAN, ctl \in Controls, con \in Consumers, dec \in Decoders, [Next]_vars
  PROVE  /\ skew' \in Int /\ lit' \in BOOLEAN /\ image' \in BOOLEAN /\ paused' \in BOOLEAN
         /\ adrift' \in BOOLEAN
<1> USE BoundsHold
<1>0. ctl.pos \in Int /\ ctl.peek \in Int /\ Position \in Int
  BY DEF Controls, OneFrame, FrameNumbers, None, Position, GreaterOf, Bounds
<1>1. image' \in BOOLEAN /\ paused' \in BOOLEAN /\ adrift' \in BOOLEAN
  <2>1. CASE Operator
    BY <2>1 DEF Operator, Play, StartVideo, Stop, ChangeProject, StopAll, ShowImage, ShowText,
       StopText, Pause, Resume, Seek, SeekWith, FrameStep, FrameStepBack, StopVideo, StopImage,
       engine, history
  <2>2. CASE EventLoop
    BY <2>2 DEF EventLoop, SpawnDecode, StartPutOff, StartDecode, StartsDecode, EventIgnored,
       VideoEnds, VideoLoops, StartVideo, RetryDecode, GiveUp, FoldShowDelta, FadeDone, engine,
       history
  <2>3. CASE Decoder \/ Consumer \/ Tick \/ UNCHANGED vars
    BY <2>3, DecoderLeaves, ConsumerLeaves, TickLeaves DEF vars, engine, history
  <2> QED
    BY <2>1, <2>2, <2>3, Steps
<1>2. lit' \in BOOLEAN
  <2>1. CASE Consumer
    <3>1. lit' = lit \/ \E b \in BOOLEAN : lit' = Lit(b)
      <4>1. CASE WriteBack
        <5>1. lit' = Lit(ctl'.hasFrame) /\ ctl'.hasFrame \in BOOLEAN
          <6>1. PICK has \in BOOLEAN : has = (con.consumed # None)
            BY Zenon
          <6>2. \A b \in BOOLEAN : (b \/ has) \in BOOLEAN
            BY Zenon
          <6>3. ctl.hasFrame \in BOOLEAN
            BY DEF Controls
          <6>4. ctl'.hasFrame \in {ctl.hasFrame, ctl.hasFrame \/ has}
            BY <4>1, <6>1 DEF WriteBack, WritesBack, Controls
          <6> QED
            BY <4>1, <6>2, <6>3, <6>4, Zenon DEF WriteBack
        <5> QED
          BY <5>1
      <4> QED
        BY <2>1, <4>1 DEF Consumer, RunCanvasCommands, Handshake, AwaitFrame, SeekFrameArrives,
           SeekFrame, SelectFrame, CheckEpoch, UploadFrame, output
    <3>2. \A b \in BOOLEAN : Lit(b) \in BOOLEAN
      BY Zenon DEF Lit
    <3> QED
      BY <3>1, <3>2, Zenon
  <2>2. CASE Operator \/ EventLoop \/ Decoder \/ Tick \/ UNCHANGED vars
    BY <2>2, EventLoopLeaves, DecoderLeaves, TickLeaves DEF vars, output
  <2> QED
    BY <2>1, <2>2, Steps
<1>3. skew' \in Int
  <2>1. CASE Operator
    <3>1. CASE FrameStep
      <4>1. PICK forward \in {ctl.peek - Position, 0} : skew' = skew + forward
        BY <3>1 DEF FrameStep, GreaterOf
      <4> QED
        BY <1>0, <4>1
    <3>2. ~FrameStep => skew' = skew \/ skew' = 0
      BY <2>1 DEF Operator, Play, StartVideo, Stop, ChangeProject, StopAll, ShowImage,
         ShowText, StopText, Pause, Resume, Seek, SeekWith, FrameStepBack, StopVideo, StopImage,
         StopPlayback, FadePlayback, history
    <3> QED
      BY <3>1, <3>2
  <2>2. CASE EventLoop
    <3>1. skew' = skew \/ skew' = 0
      BY <2>2 DEF EventLoop, SpawnDecode, StartPutOff, StartDecode, StartsDecode, EventIgnored,
         VideoEnds, VideoLoops, StartVideo, StopPlayback, RetryDecode, GiveUp, FoldShowDelta,
         FadeDone, history
    <3> QED
      BY <3>1
  <2>3. CASE Decoder
    <3>1. CASE DecoderOpens
      <4>1. PICK actual \in {dec.from, LesserOf(dec.from, Frames)} :
              skew' \in {skew, skew + actual - ctl.pos}
        BY <3>1 DEF DecoderOpens
      <4>2. actual \in Int
        BY DEF Decoders, LesserOf, Bounds
      <4> QED
        BY <1>0, <4>1, <4>2
    <3> QED
      BY <2>3, <3>1 DEF Decoder, DecoderStops, DecoderFails, DecoderSends, history
  <2>4. CASE Consumer
    <3>1. CASE SeekFrameArrives
      <4> DEFINE back == IF con.req.adjust THEN GreaterOf(con.req.at - con.msg, 0) ELSE 0
      <4>1. skew' = skew \/ (con.msg \in FrameNumbers /\ skew' = skew - back)
        <5>1. SeekFrame(TRUE)
          BY <3>1 DEF SeekFrameArrives
        <5>3. CASE con.epoch = ctl.epoch /\ con.msg # None /\ con.msg \in FrameNumbers
          BY <5>1, <5>3 DEF SeekFrame
        <5>4. CASE ~(con.epoch = ctl.epoch /\ con.msg # None /\ con.msg \in FrameNumbers)
          BY <5>1, <5>4 DEF SeekFrame, history
        <5> QED
          BY <5>3, <5>4
      <4>2. con.msg \in FrameNumbers => back \in Int
        BY DEF Consumers, Seeks, FrameNumbers, GreaterOf, Bounds
      <4> HIDE DEF back
      <4> QED
        BY <4>1, <4>2
    <3> QED
      BY <2>4, <3>1 DEF Consumer, RunCanvasCommands, Handshake, AwaitFrame, SelectFrame,
         CheckEpoch, UploadFrame, WriteBack, WritesBack, history
  <2>5. CASE Tick \/ UNCHANGED vars
    BY <2>5, TickLeaves DEF vars, history
  <2> QED
    BY <2>1, <2>2, <2>3, <2>4, <2>5, Steps
<1> QED
  BY <1>1, <1>2, <1>3

LEMMA NextTypes == TypeOK /\ [Next]_vars => TypeOK'
<1> SUFFICES ASSUME TypeOK, [Next]_vars PROVE TypeOK'
  OBVIOUS
<1>1. /\ cue \in Cues /\ ctl \in Controls /\ app \in Apps /\ win \in Handlers
      /\ cmds \in Seq(Commands) /\ dec \in Decoders /\ con \in Consumers
      /\ events \in Seq(Reports)
  BY DEF TypeOK
<1>2. /\ image \in BOOLEAN /\ paused \in BOOLEAN /\ lit \in BOOLEAN /\ adrift \in BOOLEAN
      /\ skew \in Int
  BY DEF TypeOK
<1>3. Held
  BY DEF TypeOK, Held
<1>4. /\ \A i \in DOMAIN chan : chan[i] \in Channels
      /\ con.rx \in DOMAIN chan \cup {0} /\ ctl.rx \in DOMAIN chan \cup {0}
  BY <1>3 DEF Held
<1>5. app.plays \in Nat /\ win.req \in Requests /\ ctl.epoch \in Nat
  BY <1>1 DEF Apps, Handlers, Controls
<1>6. cue' \in Cues
  BY <1>1, <1>2, <1>5, CueStep
<1>7. ctl' \in Controls
  BY <1>1, <1>2, CtlStep
<1>8. app' \in Apps /\ win' \in Handlers /\ dec' \in Decoders
  BY <1>1, <1>5, AppStep, WinStep, DecStep
<1>9. con' \in Consumers
  BY <1>1, <1>4, ConStep
<1>10. Held'
  BY <1>1, <1>3, HeldStep
<1>11. cmds' \in Seq(Commands) /\ events' \in Seq(Reports)
  BY <1>1, CmdsStep, EventsStep
<1>12. /\ image' \in BOOLEAN /\ paused' \in BOOLEAN /\ lit' \in BOOLEAN /\ adrift' \in BOOLEAN
       /\ skew' \in Int
  BY <1>1, <1>2, Skewed
<1> QED
  BY <1>6, <1>7, <1>8, <1>9, <1>10, <1>11, <1>12 DEF TypeOK, Held

\* Whatever is asked for and however the threads interleave, every field holds
\* what it is declared to hold, and every channel has a receiver in the hands
\* of exactly one thread: none is lost while a decoder still sends to it.
THEOREM TypeCorrect == Spec => []TypeOK
  BY InitTypes, NextTypes, PTL DEF Spec

-----------------------------------------------------------------------------
(* The picture is on the cue's time *)

\* While the engine plays a video the picture has a clock, nothing fades and no
\* image is shown; a decoder is only asked for, and only works for the current
\* stream, while there is such a clock.
Shown ==
    /\ cue # NoCue => ctl.on /\ ~ctl.fade /\ ~image /\ cue.frozen = paused
    /\ win.pc = "spawn" => ctl.on
    /\ app.pending => ctl.on
    /\ dec.alive /\ dec.id = ctl.epoch => ctl.on
    /\ dec.id <= ctl.epoch

\* Stopping leaves nothing that needs a clock.
LEMMA StoppedShown ==
  ASSUME TypeOK, Shown, win.pc # "spawn", win'.pc = win.pc, ~app'.pending,
         dec'.id = dec.id, ctl'.epoch = ctl.epoch + 1, cue' = NoCue
  PROVE  Shown'
<1>1. dec.id \in Nat /\ ctl.epoch \in Nat
  BY DEF TypeOK, Decoders, Controls
<1> QED
  BY <1>1 DEF Shown

\* What leaves the clock's state, the epoch and all requests alone.
LEMMA UnseenShown ==
  ASSUME Shown, UNCHANGED <<cue, image, paused>>, ctl'.on = ctl.on, ctl'.fade = ctl.fade,
         ctl'.epoch = ctl.epoch, win'.pc # "spawn" \/ win'.pc = win.pc,
         app'.pending = app.pending, dec'.id = dec.id \/ dec'.id = 0,
         dec'.alive => dec.alive /\ dec'.id = dec.id, ctl.epoch \in Nat
  PROVE  Shown'
  BY DEF Shown

LEMMA ShownOperator ==
  ASSUME TypeOK, Shown, Operator
  PROVE  Shown'
<1>0. /\ ctl \in Controls /\ app \in Apps /\ win \in Handlers /\ dec \in Decoders /\ cue \in Cues
      /\ image \in BOOLEAN /\ paused \in BOOLEAN /\ ctl.epoch \in Nat /\ dec.id \in Nat
  BY DEF TypeOK, Controls, Decoders
<1>1. win.pc = "idle"
  BY DEF Operator, Play, Stop, ChangeProject, ShowImage, ShowText, StopText, Pause, Resume, Seek,
     SeekWith, FrameStep, FrameStepBack, StopVideo, StopImage, Command, Idle
<1>2. CASE Play
  <2>1. PICK c, late : StartVideo(c, late)
    BY <1>2 DEF Play
  <2>2. /\ ctl'.on /\ ~ctl'.fade /\ ctl'.epoch = ctl.epoch + 1
    BY <1>0, <2>1 DEF StartVideo, Controls
  <2>3. ~image' /\ paused' = paused /\ dec' = dec
    BY <1>2 DEF Play
  <2>4. cue'.frozen = paused
    <3>1. PICK d \in Cues : StartVideo(d, 0) \/ \E n \in 0 .. MaxLate : StartVideo(d, n)
      <4>1. PICK mode \in Modes, n \in 0 .. MaxLate :
              StartVideo([NoCue EXCEPT !.inst = app.plays + 1, !.mode = mode], n)
        BY <1>2 DEF Play
      <4>2. app.plays + 1 \in Nat /\ NoCue \in Cues
        BY <1>0, Nothing DEF Apps
      <4>3. ASSUME NEW e \in Cues, NEW m \in Nat
            PROVE  [e EXCEPT !.inst = m, !.mode = mode] \in Cues
        BY DEF Cues
      <4>4. [NoCue EXCEPT !.inst = app.plays + 1, !.mode = mode] \in Cues
        BY <4>2, <4>3, Zenon
      <4> QED
        BY <4>1, <4>4
    <3> QED
      BY <3>1 DEF StartVideo, Cues
  <2> QED
    BY <1>0, <2>2, <2>3, <2>4 DEF Shown
<1>3. CASE Stop \/ ChangeProject \/ ShowImage
  <2>1. CASE Stop \/ ChangeProject
    <3>1. /\ cue' = NoCue /\ win' = win /\ dec' = [dec EXCEPT !.stop = dec.alive]
          /\ app' = [app EXCEPT !.pending = FALSE, !.req = NoRequest, !.shown = "none",
                                !.text = FALSE]
      BY <2>1 DEF Stop, ChangeProject, StopAll
    <3>2. ctl'.epoch = ctl.epoch + 1
      BY <1>0, <2>1 DEF Stop, ChangeProject, StopAll, Controls
    <3> QED
      BY <1>0, <1>1, <3>1, <3>2, StoppedShown DEF Apps, Decoders
  <2>2. CASE ShowImage
    <3>1. /\ cue' = NoCue /\ win' = win /\ dec' = [dec EXCEPT !.stop = dec.alive]
          /\ app' = [app EXCEPT !.pending = FALSE, !.req = NoRequest, !.shown = "image"]
      BY <2>2 DEF ShowImage
    <3>2. ctl'.epoch = ctl.epoch + 1
      BY <1>0, <2>2 DEF ShowImage, Controls
    <3> QED
      BY <1>0, <1>1, <3>1, <3>2, StoppedShown DEF Apps, Decoders
  <2> QED
    BY <1>3, <2>1, <2>2
<1>4. CASE \E f \in BOOLEAN : StopVideo(f)
  <2>1. cue' = NoCue /\ win' = win
    BY <1>4 DEF StopVideo
  <2>2. CASE StopPlayback(<<"blank">>)
    BY <1>0, <1>1, <2>1, <2>2, StoppedShown DEF StopPlayback, Apps, Controls, Decoders
  <2>3. CASE FadePlayback
    BY <1>0, <1>1, <2>1, <2>3 DEF FadePlayback, Shown, Controls
  <2> QED
    BY <1>4, <2>2, <2>3 DEF StopVideo
<1>5. CASE \E f \in BOOLEAN : StopImage(f)
  <2>1. cue' = cue /\ cue = NoCue /\ win' = win
    BY <1>5 DEF StopImage, Shown
  <2>2. CASE StopPlayback(<<>>)
    BY <1>0, <1>1, <2>1, <2>2, StoppedShown DEF StopPlayback, Apps, Controls, Decoders
  <2>3. CASE FadePlayback \/ UNCHANGED <<ctl, app, dec>>
    BY <1>0, <1>1, <2>1, <2>3 DEF FadePlayback, Shown, Controls
  <2> QED
    BY <1>5, <2>2, <2>3 DEF StopImage
<1>6. CASE Pause \/ Resume
  <2>1. /\ cue' # NoCue => cue # NoCue /\ cue'.frozen = paused'
        /\ image' = image /\ app' = app /\ win' = win /\ dec' = dec
    <3>1. UNCHANGED <<image, app, win, dec>> /\ paused' \in BOOLEAN
      BY <1>6 DEF Pause, Resume
    <3>2. CASE Resume
      BY <1>0, <3>1, <3>2, Nothing DEF Resume, Cues, NoCue
    <3>3. CASE Pause /\ cue = NoCue
      <4>1. cue' = [cue EXCEPT !.frozen = FALSE]
        BY <3>3 DEF Pause
      <4>2. cue' = NoCue
        BY <3>3, <4>1 DEF NoCue
      <4> QED
        BY <3>1, <4>2
    <3>4. CASE Pause /\ cue # NoCue
      <4>1. cue' = [cue EXCEPT !.frozen = TRUE] /\ paused' = TRUE
        BY <3>4 DEF Pause
      <4> QED
        BY <1>0, <3>1, <3>4, <4>1 DEF Cues
    <3> QED
      BY <1>6, <3>2, <3>3, <3>4
  <2>2. ctl'.on = ctl.on /\ ctl'.fade = ctl.fade /\ ctl'.epoch = ctl.epoch
    BY <1>0, <1>6 DEF Pause, Resume, Controls
  <2> QED
    BY <2>1, <2>2 DEF Shown
<1>7. CASE Seek
  <2>1. PICK t : cue' = [cue EXCEPT !.pos = t]
    BY <1>7 DEF Seek, SeekWith
  <2>2. cue'.frozen = cue.frozen
    BY <1>0, <2>1 DEF Cues
  <2>3. /\ cue # NoCue /\ UNCHANGED <<image, paused, app, dec>>
        /\ ctl'.on /\ ctl'.fade = ctl.fade /\ ctl'.epoch = ctl.epoch
    BY <1>0, <1>7 DEF Seek, SeekWith, Controls
  <2> QED
    BY <2>2, <2>3 DEF Shown
<1>8. CASE FrameStepBack
  <2>1. ctl.on /\ UNCHANGED <<cue, image, paused, ctl, app, dec>>
    BY <1>8 DEF FrameStepBack, engine
  <2> QED
    BY <2>1 DEF Shown
<1>9. CASE FrameStep
  <2>1. /\ UNCHANGED <<cue, image, paused, app, win, dec>>
        /\ ctl'.on = ctl.on /\ ctl'.fade = ctl.fade /\ ctl'.epoch = ctl.epoch
    BY <1>0, <1>9 DEF FrameStep, engine, Controls
  <2> QED
    BY <1>0, <2>1, UnseenShown
<1>10. CASE ShowText \/ StopText
  <2>1. UNCHANGED <<cue, image, paused, ctl, win, dec>> /\ app'.pending = app.pending
    BY <1>0, <1>10 DEF ShowText, StopText, engine, Apps
  <2> QED
    BY <1>0, <2>1, UnseenShown
<1> QED
  BY <1>2, <1>3, <1>4, <1>5, <1>6, <1>7, <1>8, <1>9, <1>10 DEF Operator

LEMMA ShownEventLoop ==
  ASSUME TypeOK, Shown, EventLoop
  PROVE  Shown'
<1>0. /\ ctl \in Controls /\ app \in Apps /\ win \in Handlers /\ dec \in Decoders /\ cue \in Cues
      /\ image \in BOOLEAN /\ paused \in BOOLEAN /\ ctl.epoch \in Nat /\ dec.id \in Nat
  BY DEF TypeOK, Controls, Decoders
<1>1. CASE SpawnDecode
  <2>1. /\ UNCHANGED <<cue, image, paused>> /\ win'.pc = "start" /\ win.pc = "spawn"
        /\ ctl'.on = ctl.on /\ ctl'.fade = ctl.fade /\ ctl'.epoch = ctl.epoch + 1
        /\ dec'.id = dec.id
    BY <1>0, <1>1 DEF SpawnDecode, engine, Asleep, Controls, Decoders
  <2> QED
    BY <1>0, <2>1 DEF Shown
<1>2. CASE StartDecode
  <2>1. /\ UNCHANGED <<cue, image, paused>> /\ win'.pc = "idle" /\ app.pending
        /\ ctl'.on = ctl.on /\ ctl'.fade = ctl.fade /\ ctl'.epoch = ctl.epoch + 1
        /\ dec'.id = ctl.epoch + 1
    BY <1>0, <1>2 DEF StartDecode, StartsDecode, engine, Asleep, Controls, NoDecoder
  <2> QED
    BY <1>0, <2>1 DEF Shown
<1>3. CASE StartPutOff \/ EventIgnored
  BY <1>0, <1>3, UnseenShown DEF StartPutOff, EventIgnored, engine, Asleep
<1>4. CASE VideoEnds \/ GiveUp
  <2>1. /\ cue' = NoCue /\ win' = win /\ win.pc = "idle" /\ StopPlayback(<<"blank">>)
    BY <1>4 DEF VideoEnds, GiveUp, Event, Idle
  <2> QED
    BY <1>0, <2>1, StoppedShown DEF StopPlayback, Apps, Controls, Decoders
<1>5. CASE FadeDone
  <2>1. cue' = NoCue /\ win' = win /\ win.pc = "idle" /\ StopPlayback(<<>>)
    BY <1>5 DEF FadeDone, Idle, engine, Shown
  <2> QED
    BY <1>0, <2>1, StoppedShown DEF StopPlayback, Apps, Controls, Decoders
<1>6. CASE VideoLoops
  <2>1. StartVideo([cue EXCEPT !.loops = @ + 1], 0) /\ ~image
    BY <1>6 DEF VideoLoops, Stale, Shown
  <2>2. /\ ctl'.on /\ ~ctl'.fade /\ ctl'.epoch = ctl.epoch + 1
    BY <1>0, <2>1 DEF StartVideo, Controls
  <2>3. cue'.frozen = paused
    <3>1. cue' = [[cue EXCEPT !.loops = @ + 1] EXCEPT !.pos = IF paused THEN 0 ELSE 0,
                                                      !.frozen = paused]
      BY <2>1 DEF StartVideo
    <3> QED
      BY <1>0, <3>1 DEF Cues
  <2>4. UNCHANGED <<image, paused, dec>>
    BY <1>6 DEF VideoLoops
  <2> QED
    BY <1>0, <2>1, <2>2, <2>3, <2>4 DEF Shown
<1>7. CASE RetryDecode
  <2>1. /\ UNCHANGED <<cue, image, paused, ctl, dec>> /\ app'.pending = app.pending
        /\ cue # NoCue
    BY <1>0, <1>7 DEF RetryDecode, Stale, engine, Apps
  <2> QED
    BY <2>1 DEF Shown
<1>8. CASE FoldShowDelta
  <2>1. /\ UNCHANGED <<cue, image, paused, app, win, dec>>
        /\ ctl'.on = ctl.on /\ ctl'.fade = ctl.fade /\ ctl'.epoch = ctl.epoch
    BY <1>0, <1>8 DEF FoldShowDelta, engine, Controls
  <2> QED
    BY <1>0, <2>1, UnseenShown
<1> QED
  BY <1>1, <1>2, <1>3, <1>4, <1>5, <1>6, <1>7, <1>8 DEF EventLoop

LEMMA NextShown == TypeOK /\ Shown /\ [Next]_vars => Shown'
<1> SUFFICES ASSUME TypeOK, Shown, [Next]_vars PROVE Shown'
  OBVIOUS
<1>0. /\ ctl \in Controls /\ dec \in Decoders /\ con \in Consumers /\ cue \in Cues
      /\ ctl.epoch \in Nat /\ dec.id \in Nat
  BY DEF TypeOK, Controls, Decoders
<1>1. CASE Decoder
  <2>1. UNCHANGED <<cue, image, paused, app, win>>
    BY <1>1, DecoderLeaves DEF engine
  <2>2. /\ ctl'.on = ctl.on \/ ctl'.on
        /\ ctl'.fade = ctl.fade /\ ctl'.epoch = ctl.epoch
    BY <1>0, <1>1 DEF Decoder, DecoderStops, DecoderOpens, DecoderFails, DecoderSends, Controls
  <2>3. /\ dec'.id = dec.id \/ dec'.id = 0
        /\ dec'.alive => dec.alive /\ dec'.id = dec.id
    <3>1. \/ dec' = NoDecoder
          \/ dec.alive /\ \E n : dec' = [dec EXCEPT !.next = n]
          \/ dec.alive /\ \E n : dec' = [dec EXCEPT !.pc = "send", !.next = n]
      BY <1>1 DEF Decoder, DecoderStops, DecoderExits, DecoderOpens, DecoderFails, DecoderSends
    <3>2. CASE dec' = NoDecoder
      BY <3>2 DEF NoDecoder
    <3>3. ASSUME NEW n, dec.alive, dec' = [dec EXCEPT !.next = n]
          PROVE  dec'.id = dec.id /\ dec.alive
      BY <1>0, <3>3 DEF Decoders
    <3>4. ASSUME NEW n, dec.alive, dec' = [dec EXCEPT !.pc = "send", !.next = n]
          PROVE  dec'.id = dec.id /\ dec.alive
      BY <1>0, <3>4 DEF Decoders
    <3> QED
      BY <3>1, <3>2, <3>3, <3>4
  <2> QED
    BY <1>0, <2>1, <2>2, <2>3 DEF Shown
<1>2. CASE Consumer
  <2>1. UNCHANGED <<cue, image, paused, app, win, dec>>
    BY <1>2, ConsumerLeaves DEF engine
  <2>2. ctl'.on = ctl.on /\ ctl'.fade = ctl.fade /\ ctl'.epoch = ctl.epoch
    BY <1>0, <1>2 DEF Consumer, RunCanvasCommands, Handshake, AwaitFrame, SeekFrameArrives,
       SeekFrame, SelectFrame, CheckEpoch, UploadFrame, WriteBack, WritesBack, Controls
  <2> QED
    BY <1>0, <2>1, <2>2, UnseenShown
<1>3. CASE Tick
  <2>1. /\ UNCHANGED <<image, paused, app, win, dec>>
        /\ ctl'.on = ctl.on /\ ctl'.fade = ctl.fade /\ ctl'.epoch = ctl.epoch
    BY <1>0, <1>3, TickLeaves DEF Controls
  <2>2. (cue' # NoCue => cue # NoCue) /\ cue'.frozen = cue.frozen
    BY <1>0, <1>3, TickLeaves DEF CueRuns, Cues
  <2> QED
    BY <2>1, <2>2 DEF Shown
<1>4. CASE UNCHANGED vars
  BY <1>4 DEF vars, engine, Shown
<1> QED
  BY <1>1, <1>2, <1>3, <1>4, ShownOperator, ShownEventLoop, Steps

\* Both clocks stand where they stood.
LEMMA SameTime ==
  ASSUME PictureOnCueTime, Shown', UNCHANGED <<cue, paused, skew, adrift>>,
         ctl'.pos = ctl.pos, ctl'.frozen = ctl.frozen
  PROVE  PictureOnCueTime'
  BY DEF PictureOnCueTime, Shown

LEMMA NoTime ==
  ASSUME cue' = NoCue
  PROVE  PictureOnCueTime'
  BY DEF PictureOnCueTime, NoCue

LEMMA StartedOnTime ==
  ASSUME TypeOK, Shown', NEW c \in Cues, NEW late \in Nat, StartVideo(c, late), paused' = paused
  PROVE  PictureOnCueTime'
<1>1. ctl \in Controls /\ paused \in BOOLEAN
  BY DEF TypeOK
<1>2. /\ cue' = [c EXCEPT !.pos = IF paused THEN 0 ELSE late, !.frozen = paused]
      /\ skew' = 0 /\ adrift' = paused
  BY DEF StartVideo
<1>3. ctl'.pos = MediaOffset + late /\ ctl'.frozen = FALSE
  BY <1>1 DEF StartVideo, Controls
<1>4. ~paused => cue'.pos = late
  BY <1>2 DEF Cues
<1>5. MediaOffset + late + 0 = MediaOffset + late
  BY BoundsHold DEF Bounds
<1> QED
  BY <1>1, <1>2, <1>3, <1>4, <1>5 DEF PictureOnCueTime, Shown

LEMMA OnTimeOperator ==
  ASSUME TypeOK, Shown, Shown', PictureOnCueTime, Operator
  PROVE  PictureOnCueTime'
<1>0. /\ ctl \in Controls /\ app \in Apps /\ cue \in Cues /\ paused \in BOOLEAN /\ skew \in Int
      /\ ctl.pos \in Int /\ cue.pos \in Int /\ MediaOffset \in Int
  BY BoundsHold DEF TypeOK, Controls, Cues, Bounds
<1>1. CASE Play
  <2>1. PICK mode \in Modes, late \in 0 .. MaxLate :
          StartVideo([NoCue EXCEPT !.inst = app.plays + 1, !.mode = mode], late)
    BY <1>1 DEF Play
  <2>2. app.plays + 1 \in Nat /\ NoCue \in Cues /\ late \in Nat
    BY <1>0, Nothing, BoundsHold DEF Apps, Bounds
  <2>3. ASSUME NEW e \in Cues, NEW m \in Nat
        PROVE  [e EXCEPT !.inst = m, !.mode = mode] \in Cues
    BY DEF Cues
  <2>4. [NoCue EXCEPT !.inst = app.plays + 1, !.mode = mode] \in Cues
    BY <2>2, <2>3, Zenon
  <2>5. paused' = paused
    BY <1>1 DEF Play
  <2> QED
    BY <2>1, <2>2, <2>4, <2>5, StartedOnTime
<1>2. CASE Stop \/ ChangeProject \/ ShowImage \/ \E f \in BOOLEAN : StopVideo(f)
  BY <1>2, NoTime DEF Stop, ChangeProject, StopAll, ShowImage, StopVideo
<1>3. CASE \E f \in BOOLEAN : StopImage(f)
  BY <1>3, NoTime DEF StopImage, Shown
<1>4. CASE Pause \/ Resume
  <2>1. cue' # NoCue => cue # NoCue
    <3>1. CASE cue = NoCue
      <4>1. cue' = [cue EXCEPT !.frozen = FALSE]
        BY <1>4, <3>1 DEF Pause, Resume
      <4> QED
        BY <3>1, <4>1 DEF NoCue
    <3> QED
      BY <3>1
  <2>2. cue'.pos = cue.pos /\ UNCHANGED <<skew, adrift>>
    BY <1>0, <1>4 DEF Pause, Resume, Cues, history
  <2>3. ctl'.pos = ctl.pos /\ ctl'.frozen = paused'
    BY <1>0, <1>4 DEF Pause, Resume, Controls
  <2> QED
    BY <2>1, <2>2, <2>3 DEF PictureOnCueTime, Shown
<1>5. CASE Seek
  <2>1. PICK t \in 0 .. Frames - MediaOffset + 1 :
          /\ cue' = [cue EXCEPT !.pos = t]
          /\ ctl' = [ctl EXCEPT !.on = TRUE, !.pos = MediaOffset + t,
                                !.frozen = paused, !.peek = None, !.last = None]
    BY <1>5 DEF Seek, SeekWith
  <2>2. skew' = 0 /\ paused' = paused
    BY <1>5 DEF Seek, SeekWith
  <2>3. cue'.pos = t /\ ctl'.pos = MediaOffset + t /\ ctl'.frozen = paused
    BY <1>0, <2>1 DEF Cues, Controls
  <2>4. MediaOffset + t + 0 = MediaOffset + t
    BY <1>0
  <2> QED
    BY <2>2, <2>3, <2>4 DEF PictureOnCueTime, Shown
<1>6. CASE FrameStep
  <2>1. PICK forward \in {ctl.peek - Position, 0} :
          ctl' = [ctl EXCEPT !.pos = @ + forward, !.step = TRUE] /\ skew' = skew + forward
    BY <1>6 DEF FrameStep, GreaterOf
  <2>2. forward \in Int
    BY <1>0, <2>1, BoundsHold DEF Controls, OneFrame, FrameNumbers, None, Position, GreaterOf,
       Bounds
  <2>3. ctl'.pos = ctl.pos + forward /\ ctl'.frozen = ctl.frozen
    BY <1>0, <2>1 DEF Controls
  <2>4. UNCHANGED <<cue, paused, adrift>>
    BY <1>6 DEF FrameStep, engine
  <2>5. ctl.pos = MediaOffset + cue.pos + skew
          => ctl.pos + forward = MediaOffset + cue.pos + (skew + forward)
    BY <1>0, <2>2
  <2> QED
    BY <2>1, <2>3, <2>4, <2>5 DEF PictureOnCueTime, Shown
<1>7. CASE ShowText \/ StopText \/ FrameStepBack
  BY <1>7, SameTime DEF ShowText, StopText, FrameStepBack, engine, history
<1> QED
  BY <1>1, <1>2, <1>3, <1>4, <1>5, <1>6, <1>7 DEF Operator

LEMMA OnTimeEventLoop ==
  ASSUME TypeOK, Shown, Shown', PictureOnCueTime, EventLoop
  PROVE  PictureOnCueTime'
<1>0. ctl \in Controls /\ cue \in Cues /\ paused \in BOOLEAN
  BY DEF TypeOK
<1>1. CASE VideoEnds \/ GiveUp
  BY <1>1, NoTime DEF VideoEnds, GiveUp
<1>2. CASE FadeDone
  BY <1>2, NoTime DEF FadeDone, engine, Shown
<1>3. CASE VideoLoops
  <2>1. StartVideo([cue EXCEPT !.loops = @ + 1], 0) /\ paused' = paused /\ 0 \in Nat
    BY <1>3 DEF VideoLoops
  <2>2. [cue EXCEPT !.loops = @ + 1] \in Cues
    BY <1>0, <1>3, BoundsHold DEF VideoLoops, Cues, Bounds
  <2> QED
    BY <2>1, <2>2, StartedOnTime, Zenon
<1>4. CASE SpawnDecode \/ StartDecode \/ FoldShowDelta
  <2>1. ctl'.pos = ctl.pos /\ ctl'.frozen = ctl.frozen
    BY <1>0, <1>4 DEF SpawnDecode, StartDecode, StartsDecode, FoldShowDelta, Controls
  <2> QED
    BY <1>4, <2>1, SameTime DEF SpawnDecode, StartDecode, StartsDecode, FoldShowDelta, engine,
       history
<1>5. CASE StartPutOff \/ EventIgnored \/ RetryDecode
  BY <1>5, SameTime DEF StartPutOff, EventIgnored, RetryDecode, engine, history
<1> QED
  BY <1>1, <1>2, <1>3, <1>4, <1>5 DEF EventLoop

LEMMA NextOnTime == TypeOK /\ Shown /\ PictureOnCueTime /\ [Next]_vars => PictureOnCueTime'
<1> SUFFICES ASSUME TypeOK, Shown, PictureOnCueTime, [Next]_vars PROVE PictureOnCueTime'
  OBVIOUS
<1>0. /\ ctl \in Controls /\ cue \in Cues /\ dec \in Decoders /\ con \in Consumers
      /\ paused \in BOOLEAN /\ skew \in Int
      /\ ctl.pos \in Int /\ cue.pos \in Int /\ MediaOffset \in Int
  BY BoundsHold DEF TypeOK, Controls, Cues, Bounds
<1>1. Shown'
  BY NextShown
<1>2. CASE Decoder
  <2>1. UNCHANGED <<cue, image, paused, adrift>>
    BY <1>2, DecoderLeaves DEF engine
  <2>2. CASE DecoderOpens
    <3>1. CASE ctl' = ctl /\ skew' = skew
      BY <1>1, <2>1, <3>1, SameTime
    <3>2. CASE ~(ctl' = ctl /\ skew' = skew)
      <4>1. PICK actual \in {dec.from, LesserOf(dec.from, Frames)} :
              /\ ctl' = [ctl EXCEPT !.on = TRUE, !.pos = actual, !.frozen = paused]
              /\ skew' = skew + actual - ctl.pos
        BY <2>2, <3>2 DEF DecoderOpens
      <4>2. actual \in Int
        BY <1>0, BoundsHold DEF Decoders, LesserOf, Bounds
      <4>3. ctl'.pos = actual /\ ctl'.frozen = paused
        BY <1>0, <4>1 DEF Controls
      <4>4. ctl.pos = MediaOffset + cue.pos + skew
              => actual = MediaOffset + cue.pos + (skew + actual - ctl.pos)
        BY <1>0, <4>2
      <4> QED
        BY <1>1, <2>1, <4>1, <4>3, <4>4 DEF PictureOnCueTime, Shown
    <3> QED
      BY <3>1, <3>2
  <2>3. CASE DecoderStops \/ DecoderFails \/ DecoderSends
    BY <1>1, <2>1, <2>3, SameTime DEF DecoderStops, DecoderFails, DecoderSends, history
  <2> QED
    BY <1>2, <2>2, <2>3 DEF Decoder
<1>3. CASE Consumer
  <2>1. UNCHANGED <<cue, image, paused, adrift>>
    BY <1>3, ConsumerLeaves DEF engine
  <2>2. CASE SeekFrameArrives
    <3>1. CASE UNCHANGED history
      <4>1. ctl'.pos = ctl.pos /\ ctl'.frozen = ctl.frozen
        <5>1. SeekFrame(TRUE)
          BY <2>2 DEF SeekFrameArrives
        <5>2. CASE con.epoch = ctl.epoch /\ con.msg # None /\ con.msg \in FrameNumbers
          <6> DEFINE back == IF con.req.adjust THEN GreaterOf(con.req.at - con.msg, 0) ELSE 0
          <6>1. /\ skew' = skew - back
                /\ ctl' = [ctl EXCEPT !.pos = @ - back, !.peek = con.msg, !.step = TRUE,
                                      !.delta = IF back > 0 THEN back ELSE @]
            BY <5>1, <5>2 DEF SeekFrame
          <6>2. back \in Int
            BY <1>0, <5>2, BoundsHold DEF Consumers, Seeks, FrameNumbers, GreaterOf, Bounds
          <6> HIDE DEF back
          <6>3. back = 0
            BY <1>0, <3>1, <6>1, <6>2 DEF history
          <6>4. ctl'.pos = ctl.pos - back /\ ctl'.frozen = ctl.frozen
            BY <1>0, <6>1 DEF Controls
          <6> QED
            BY <1>0, <6>3, <6>4
        <5>3. CASE ~(con.epoch = ctl.epoch /\ con.msg # None /\ con.msg \in FrameNumbers)
          BY <1>0, <5>1, <5>3 DEF SeekFrame, Controls
        <5> QED
          BY <5>2, <5>3
      <4> QED
        BY <1>1, <2>1, <3>1, <4>1, SameTime DEF history
    <3>2. CASE ~UNCHANGED history
      <4> DEFINE back == IF con.req.adjust THEN GreaterOf(con.req.at - con.msg, 0) ELSE 0
      <4>1. /\ con.msg \in FrameNumbers /\ skew' = skew - back
            /\ ctl' = [ctl EXCEPT !.pos = @ - back, !.peek = con.msg, !.step = TRUE,
                                  !.delta = IF back > 0 THEN back ELSE @]
        BY <2>2, <3>2 DEF SeekFrameArrives, SeekFrame
      <4>2. back \in Int
        BY <1>0, <4>1, BoundsHold DEF Consumers, Seeks, FrameNumbers, GreaterOf, Bounds
      <4> HIDE DEF back
      <4>3. ctl'.pos = ctl.pos - back /\ ctl'.frozen = ctl.frozen
        BY <1>0, <4>1 DEF Controls
      <4>4. ctl.pos = MediaOffset + cue.pos + skew
              => ctl.pos - back = MediaOffset + cue.pos + (skew - back)
        BY <1>0, <4>2
      <4> QED
        BY <1>1, <2>1, <4>1, <4>3, <4>4 DEF PictureOnCueTime, Shown
    <3> QED
      BY <3>1, <3>2
  <2>3. CASE ~SeekFrameArrives
    <3>1. ctl'.pos = ctl.pos /\ ctl'.frozen = ctl.frozen /\ UNCHANGED skew
      BY <1>0, <1>3, <2>3 DEF Consumer, RunCanvasCommands, Handshake, AwaitFrame, SelectFrame,
         CheckEpoch, UploadFrame, WriteBack, WritesBack, history, Controls
    <3> QED
      BY <1>1, <2>1, <3>1, SameTime
  <2> QED
    BY <2>2, <2>3
<1>4. CASE Tick
  <2>1. UNCHANGED <<image, paused, skew, adrift>>
    BY <1>4, TickLeaves DEF history
  <2>2. CASE cue = NoCue
    <3>1. cue' = [cue EXCEPT !.pos = @]
      BY <1>4, <2>2, TickLeaves DEF CueRuns
    <3> QED
      BY <2>2, <3>1, NoTime DEF NoCue
  <2>3. CASE cue # NoCue /\ ~adrift /\ paused
    <3>1. ~ClockRuns /\ ~CueRuns
      BY <2>3 DEF ClockRuns, CueRuns, PictureOnCueTime, Shown
    <3>2. cue'.pos = cue.pos /\ ctl'.pos = ctl.pos /\ ctl'.frozen = ctl.frozen
      BY <1>0, <1>4, <3>1, TickLeaves DEF Cues, Controls
    <3> QED
      BY <1>1, <2>1, <2>3, <3>2 DEF PictureOnCueTime, Shown
  <2>4. CASE cue # NoCue /\ ~adrift /\ ~paused
    <3>1. ClockRuns /\ CueRuns
      BY <2>4 DEF ClockRuns, CueRuns, PictureOnCueTime, Shown
    <3>2. cue'.pos = cue.pos + 1 /\ ctl'.pos = ctl.pos + 1 /\ ctl'.frozen = ctl.frozen
      BY <1>0, <1>4, <3>1, TickLeaves DEF Cues, Controls
    <3>3. ctl.pos = MediaOffset + cue.pos + skew
            => ctl.pos + 1 = MediaOffset + (cue.pos + 1) + skew
      BY <1>0
    <3> QED
      BY <1>1, <2>1, <2>4, <3>2, <3>3 DEF PictureOnCueTime, Shown
  <2>5. CASE adrift
    BY <2>1, <2>5 DEF PictureOnCueTime
  <2> QED
    BY <2>2, <2>3, <2>4, <2>5
<1>5. CASE UNCHANGED vars
  BY <1>1, <1>5, SameTime DEF vars, engine, history
<1> QED
  BY <1>1, <1>2, <1>3, <1>4, <1>5, OnTimeOperator, OnTimeEventLoop, Steps

\* The picture is on the cue's time through every pause, seek, step by hand,
\* restart and retry, whatever the length of the file turns out to be, and
\* whichever thread comes first (VideoControl's clock against the engine's).
THEOREM PictureCorrect == Spec => []PictureOnCueTime
<1> DEFINE I == TypeOK /\ Shown /\ PictureOnCueTime
<1>1. Init => I
  <2>1. Init => Shown /\ PictureOnCueTime
    BY DEF Init, Shown, PictureOnCueTime, Asleep, NoDecoder
  <2> QED
    BY <2>1, InitTypes
<1>2. I /\ [Next]_vars => I'
  BY NextTypes, NextShown, NextOnTime
<1> QED
  BY <1>1, <1>2, PTL DEF Spec

-----------------------------------------------------------------------------
(* No frame is passed over *)

\* One turn of the consume thread's loop: what it holds belongs to a stream, an
\* end leaves nothing to receive, and each pass starts with empty hands.
Turn ==
    /\ con.epoch = 0 =>
          con.rx = 0 /\ con.peek = None /\ con.consumed = None /\ con.msg = None
    /\ con.terminal # 0 => con.rx = 0 /\ con.epoch # 0
    /\ con.terminal # 0 /\ con.pc = "due" => con.peek = None
    /\ con.pc \in {"cmds", "hands", "wait", "got"} => con.terminal = 0
    /\ con.pc \in {"cmds", "hands", "wait", "got", "due"} => con.consumed = None
    /\ con.pc \in {"wait", "got"} => con.peek = None
    /\ con.msg # None => con.pc = "got"
    /\ con.rx <= con.epoch /\ con.epoch <= ctl.epoch

\* Outside the consume thread only the epoch moves.
LEMMA TurnKept ==
  ASSUME TypeOK, Turn, con' = con, ctl'.epoch \in {ctl.epoch, ctl.epoch + 1}
  PROVE  Turn'
<1>1. con.epoch \in Nat /\ ctl.epoch \in Nat
  BY DEF TypeOK, Consumers, Controls
<1> QED
  BY <1>1 DEF Turn

\* Without a stream there is nothing at hand; after an end neither.
LEMMA NothingWaits ==
  ASSUME Turn, con.epoch = 0 \/ (con.terminal # 0 /\ At("due"))
  PROVE  Waiting = <<>> /\ \A n \in 0 .. Len(Waiting) : n = 0 /\ Reached(n) = None
<1>1. Waiting = <<>>
  BY DEF Turn, Waiting, Queued, At
<1> QED
  BY <1>1 DEF Reached

LEMMA TurnConsumer ==
  ASSUME TypeOK, Turn, Consumer
  PROVE  Turn'
<1>0. /\ con \in Consumers /\ ctl \in Controls /\ ctl.epoch \in Nat /\ con.epoch \in Nat
      /\ ctl.rx \in Nat /\ con.rx \in Nat /\ ctl.rx <= ctl.epoch
      /\ Bounds
  BY BoundsHold DEF TypeOK, Controls, Consumers
<1>1. ctl'.epoch = ctl.epoch
  BY <1>0 DEF Consumer, RunCanvasCommands, Handshake, AwaitFrame, SeekFrameArrives, SeekFrame,
     SelectFrame, CheckEpoch, UploadFrame, WriteBack, WritesBack, history, Controls
<1>2. CASE RunCanvasCommands \/ UploadFrame
  BY <1>0, <1>1, <1>2 DEF RunCanvasCommands, UploadFrame, At, Turn, Consumers
<1>3. CASE Handshake
  BY <1>0, <1>1, <1>3 DEF Handshake, Released, At, Turn, Consumers
<1>4. CASE AwaitFrame
  BY <1>0, <1>1, <1>4 DEF AwaitFrame, At, Turn, Consumers
<1>5. CASE SeekFrameArrives
  <2>1. con.pc = "got"
    BY <1>5 DEF SeekFrameArrives, SeekFrame, At
  <2>2. \/ con' = [Released(con) EXCEPT !.pc = "due", !.msg = None, !.req = NoSeek]
        \/ con.msg = None /\ con' = [con EXCEPT !.pc = "due", !.req = NoSeek]
        \/ /\ con.msg # None
           /\ con' = [con EXCEPT !.pc = "due", !.peek = con.msg, !.msg = None, !.req = NoSeek]
        \/ /\ con.msg # None
           /\ con' = [con EXCEPT !.pc = "due", !.rx = 0, !.terminal = con.msg, !.msg = None,
                                 !.req = NoSeek]
    BY <1>5 DEF SeekFrameArrives, SeekFrame, FrameNumbers, None
  <2>3. CASE con' = [Released(con) EXCEPT !.pc = "due", !.msg = None, !.req = NoSeek]
    BY <1>0, <1>1, <2>1, <2>3 DEF Released, Turn, Consumers
  <2>4. CASE con.msg = None /\ con' = [con EXCEPT !.pc = "due", !.req = NoSeek]
    BY <1>0, <1>1, <2>1, <2>4 DEF Turn, Consumers
  <2>5. CASE /\ con.msg # None
             /\ con' = [con EXCEPT !.pc = "due", !.peek = con.msg, !.msg = None, !.req = NoSeek]
    BY <1>0, <1>1, <2>1, <2>5 DEF Turn, Consumers
  <2>6. CASE /\ con.msg # None
             /\ con' = [con EXCEPT !.pc = "due", !.rx = 0, !.terminal = con.msg, !.msg = None,
                                   !.req = NoSeek]
    BY <1>0, <1>1, <2>1, <2>6 DEF Turn, Consumers
  <2> QED
    BY <2>2, <2>3, <2>4, <2>5, <2>6
<1>6. CASE CheckEpoch
  BY <1>0, <1>1, <1>6 DEF CheckEpoch, Released, At, Turn, Consumers
<1>7. CASE WriteBack
  BY <1>0, <1>1, <1>7 DEF WriteBack, WritesBack, Ended, Current, Released, At, Turn, Consumers
<1>8. CASE SelectFrame
  <2>1. PICK n \in 0 .. Len(Waiting) :
          TakeFrames(n) /\ (n > 0 => Streaming)
    BY <1>8 DEF SelectFrame, IsDue, Running, Stepping
  <2>2. con.pc = "due"
    BY <1>8 DEF SelectFrame, At
  <2>3. /\ con'.pc = (IF n > 0 THEN "check" ELSE "wrote")
        /\ con'.consumed = (IF n > 0 THEN Waiting[n] ELSE None)
        /\ con'.peek = (IF Reached(n) >= Frames THEN None ELSE Reached(n))
        /\ con'.terminal = EndAfter(n)
        /\ con'.rx = (IF EndAfter(n) # 0 THEN 0 ELSE con.rx)
        /\ con'.epoch = con.epoch /\ con'.msg = con.msg
    BY <1>0, <2>1 DEF TakeFrames, Consumers
  <2>4. con.epoch = 0 => n = 0 /\ Reached(n) = None /\ EndAfter(n) = 0
    BY <1>0, NothingWaits DEF EndAfter, Turn, None, Bounds
  <2> QED
    BY <1>0, <1>1, <2>1, <2>2, <2>3, <2>4 DEF Turn
<1> QED
  BY <1>2, <1>3, <1>4, <1>5, <1>6, <1>7, <1>8 DEF Consumer

\* Outside the two threads the stream goes on, if no decoder is about to be
\* asked for, ...
SameChannels ==
    DOMAIN chan' = DOMAIN chan /\ \A i \in DOMAIN chan : chan'[i] = chan[i]
GoesOn ==
    /\ ctl'.epoch = ctl.epoch
    /\ dec' = dec
    /\ SameChannels
    /\ ctl'.peek \in {ctl.peek, None}
    /\ \/ win'.pc = "spawn"
       \/ /\ win.pc # "spawn"
          /\ ctl'.rx = ctl.rx /\ ctl'.last = ctl.last /\ ctl'.seek = ctl.seek

\* ... or another takes its place, whose channel is new and empty.
StartsAnew ==
    /\ ctl'.epoch = ctl.epoch + 1
    /\ win'.pc = "spawn" \/ ctl'.rx \in {0, ctl.epoch + 1}
    /\ \A i \in DOMAIN chan' :
          \/ /\ i \in DOMAIN chan /\ chan'[i] = chan[i]
             /\ dec'.alive /\ dec'.id = i => dec.alive /\ dec.id = i
          \/ /\ i = ctl.epoch + 1 /\ chan'[i].q = <<>> /\ chan'[i].open
             /\ dec'.next # Eof

LEMMA Stopped ==
  ASSUME dec \in Decoders, ctl'.epoch = ctl.epoch + 1, ctl'.rx = 0, KeepHeld(ctl'.rx, con.rx),
         dec' = [dec EXCEPT !.stop = dec.alive]
  PROVE  StartsAnew
<1>1. dec'.alive = dec.alive /\ dec'.id = dec.id
  BY DEF Decoders
<1>2. \A i \in DOMAIN chan' : i \in DOMAIN chan /\ chan'[i] = chan[i]
  BY DEF KeepHeld
<1> QED
  BY <1>1, <1>2 DEF StartsAnew

LEMMA AllHeld ==
  ASSUME Held, KeepHeld(ctl'.rx, con.rx), ctl'.rx = ctl.rx
  PROVE  SameChannels
<1>1. DOMAIN chan \subseteq {ctl.rx, con.rx}
  BY DEF Held
<1> QED
  BY <1>1 DEF KeepHeld, SameChannels

LEMMA Started ==
  ASSUME ctl \in Controls, chan' = chan, dec' = dec, NEW c, NEW late, StartVideo(c, late)
  PROVE  StartsAnew
<1>1. ctl'.epoch = ctl.epoch + 1 /\ win'.pc = "spawn"
  BY DEF StartVideo, Decode, Controls
<1> QED
  BY <1>1 DEF StartsAnew

LEMMA OperatorStreams ==
  ASSUME TypeOK, Operator
  PROVE  GoesOn \/ StartsAnew
<1>0. ctl \in Controls /\ dec \in Decoders /\ Held /\ win \in Handlers
  BY DEF TypeOK, Held
<1>1. win.pc = "idle"
  BY DEF Operator, Play, Stop, ChangeProject, ShowImage, ShowText, StopText, Pause, Resume, Seek,
     SeekWith, FrameStep, FrameStepBack, StopVideo, StopImage, Command, Idle
<1>2. CASE Play
  BY <1>0, <1>2, Started DEF Play
<1>3. CASE Stop \/ ChangeProject \/ ShowImage
  <2>1. ctl'.epoch = ctl.epoch + 1 /\ ctl'.rx = 0
    BY <1>0, <1>3 DEF Stop, ChangeProject, StopAll, ShowImage, Controls
  <2>2. dec' = [dec EXCEPT !.stop = dec.alive] /\ KeepHeld(ctl'.rx, con.rx)
    BY <1>3 DEF Stop, ChangeProject, StopAll, ShowImage
  <2> QED
    BY <1>0, <2>1, <2>2, Stopped
<1>4. CASE \E f \in BOOLEAN : StopVideo(f) \/ StopImage(f)
  <2>1. KeepHeld(ctl'.rx, con.rx) /\ win' = win
    BY <1>4 DEF StopVideo, StopImage
  <2>2. CASE \E further : StopPlayback(further)
    <3>1. ctl'.epoch = ctl.epoch + 1 /\ ctl'.rx = 0 /\ dec' = [dec EXCEPT !.stop = dec.alive]
      BY <1>0, <2>2 DEF StopPlayback, Controls
    <3> QED
      BY <1>0, <2>1, <3>1, Stopped
  <2>3. CASE FadePlayback \/ UNCHANGED <<ctl, dec>>
    <3>1. /\ ctl'.epoch = ctl.epoch /\ ctl'.rx = ctl.rx /\ ctl'.peek = ctl.peek
          /\ ctl'.last = ctl.last /\ ctl'.seek = ctl.seek /\ dec' = dec
      BY <1>0, <2>3 DEF FadePlayback, Controls
    <3> QED
      BY <1>0, <1>1, <2>1, <3>1, AllHeld DEF GoesOn
  <2> QED
    BY <1>4, <2>2, <2>3 DEF StopVideo, StopImage
<1>5. CASE Seek
  <2>1. /\ ctl'.epoch = ctl.epoch /\ ctl'.peek = None /\ dec' = dec /\ chan' = chan
        /\ win'.pc = "spawn"
    BY <1>0, <1>5 DEF Seek, SeekWith, Decode, Controls
  <2> QED
    BY <2>1 DEF GoesOn, SameChannels
<1>6. CASE FrameStepBack
  <2>1. ctl' = ctl /\ dec' = dec /\ chan' = chan /\ win'.pc = "spawn"
    BY <1>6 DEF FrameStepBack, Decode
  <2> QED
    BY <2>1 DEF GoesOn, SameChannels
<1>7. CASE Pause \/ Resume \/ FrameStep \/ ShowText \/ StopText
  <2>1. /\ ctl'.epoch = ctl.epoch /\ ctl'.rx = ctl.rx /\ ctl'.peek = ctl.peek
        /\ ctl'.last = ctl.last /\ ctl'.seek = ctl.seek
    BY <1>0, <1>7 DEF Pause, Resume, FrameStep, ShowText, StopText, Controls
  <2>2. dec' = dec /\ chan' = chan /\ win' = win
    BY <1>7 DEF Pause, Resume, FrameStep, ShowText, StopText
  <2> QED
    BY <1>1, <2>1, <2>2 DEF GoesOn, SameChannels
<1> QED
  BY <1>2, <1>3, <1>4, <1>5, <1>6, <1>7 DEF Operator

LEMMA EventLoopStreams ==
  ASSUME TypeOK, EventLoop
  PROVE  GoesOn \/ StartsAnew
<1>0. /\ ctl \in Controls /\ dec \in Decoders /\ Held /\ win \in Handlers /\ ctl.epoch \in Nat
  BY DEF TypeOK, Held, Controls
<1>1. CASE SpawnDecode
  <2>1. ctl'.epoch = ctl.epoch + 1 /\ ctl'.rx = 0
    BY <1>0, <1>1 DEF SpawnDecode, Controls
  <2>2. dec' = [dec EXCEPT !.stop = dec.alive] /\ KeepHeld(ctl'.rx, con.rx)
    BY <1>1 DEF SpawnDecode
  <2> QED
    BY <1>0, <2>1, <2>2, Stopped
<1>2. CASE VideoEnds \/ GiveUp \/ FadeDone
  <2>1. ctl'.epoch = ctl.epoch + 1 /\ ctl'.rx = 0
    BY <1>0, <1>2 DEF VideoEnds, GiveUp, FadeDone, StopPlayback, Controls
  <2>2. dec' = [dec EXCEPT !.stop = dec.alive] /\ KeepHeld(ctl'.rx, con.rx)
    BY <1>2 DEF VideoEnds, GiveUp, FadeDone, StopPlayback
  <2> QED
    BY <1>0, <2>1, <2>2, Stopped
<1>3. CASE VideoLoops
  BY <1>0, <1>3, Started DEF VideoLoops
<1>4. CASE RetryDecode
  <2>1. ctl' = ctl /\ dec' = dec /\ chan' = chan /\ win'.pc = "spawn"
    BY <1>4 DEF RetryDecode, Decode
  <2> QED
    BY <2>1 DEF GoesOn, SameChannels
<1>5. CASE StartPutOff \/ EventIgnored \/ FoldShowDelta
  <2>1. /\ ctl'.epoch = ctl.epoch /\ ctl'.rx = ctl.rx /\ ctl'.peek = ctl.peek
        /\ ctl'.last = ctl.last /\ ctl'.seek = ctl.seek
    BY <1>0, <1>5 DEF StartPutOff, EventIgnored, FoldShowDelta, Controls
  <2>2. dec' = dec /\ chan' = chan /\ win.pc # "spawn"
    BY <1>5 DEF StartPutOff, EventIgnored, FoldShowDelta, Idle
  <2> QED
    BY <2>1, <2>2 DEF GoesOn, SameChannels
<1>6. CASE StartDecode
  <2> DEFINE e == ctl.epoch + 1
             new == [q |-> <<>>, open |-> TRUE, inst |-> app.plays]
  <2>1. /\ ctl'.rx = e /\ ctl'.epoch = e
        /\ chan' = [i \in (DOMAIN chan \ {ctl.rx}) \cup {e} |-> IF i = e THEN new ELSE chan[i]]
    BY <1>0, <1>6 DEF StartDecode, StartsDecode, Controls
  <2>2. dec'.next = 0 /\ dec'.id = e
    BY <1>6, <1>0, Nothing DEF StartDecode, StartsDecode, NoDecoder, Decoders
  <2>3. new.q = <<>> /\ new.open
    OBVIOUS
  <2>4. Eof # 0
    BY BoundsHold DEF Bounds, Eof
  <2> HIDE DEF e, new
  <2>5. ASSUME NEW i \in DOMAIN chan', i # e
        PROVE  i \in DOMAIN chan /\ chan'[i] = chan[i]
    BY <2>1, <2>5
  <2>6. e \in DOMAIN chan' => chan'[e] = new
    BY <2>1
  <2> QED
    BY <2>1, <2>2, <2>3, <2>4, <2>5, <2>6 DEF StartsAnew, e
<1> QED
  BY <1>1, <1>2, <1>3, <1>4, <1>5, <1>6 DEF EventLoop

\* A marker of the end stands right behind the last frame: in what is queued, or
\* behind what was taken before it.
LastFrame == Frames - 1
InOrderAfter(before, q) ==
    \A i \in 1 .. Len(q) :
        q[i] = Eof => IF i = 1 THEN before = LastFrame ELSE q[i - 1] = LastFrame
LastAfter(before, q) == IF q = <<>> THEN before = LastFrame ELSE q[Len(q)] = LastFrame

\* What nothing precedes is in order behind anything.
LEMMA AfterNothing ==
  ASSUME NEW q \in Seq(Messages), NEW before
  PROVE  /\ InOrderAfter(None, q) => InOrderAfter(before, q)
         /\ LastAfter(None, q) => LastAfter(before, q)
<1>1. None # LastFrame
  BY BoundsHold DEF None, LastFrame, Bounds
<1> QED
  BY <1>1 DEF InOrderAfter, LastAfter

\* What is sent keeps the order, if the end is sent behind the last frame.
LEMMA SentInOrder ==
  ASSUME NEW q \in Seq(Messages), NEW before, NEW m \in Messages, InOrderAfter(before, q),
         m = Eof => LastAfter(before, q)
  PROVE  /\ InOrderAfter(before, Append(q, m))
         /\ m = LastFrame => LastAfter(before, Append(q, m))
<1> DEFINE r == Append(q, m)
<1>1. /\ r \in Seq(Messages) /\ Len(r) = Len(q) + 1 /\ r[Len(r)] = m
      /\ \A i \in 1 .. Len(q) : r[i] = q[i]
  OBVIOUS
<1>2. Len(q) \in Nat /\ (q = <<>> <=> Len(q) = 0)
  OBVIOUS
<1> HIDE DEF r
<1>3. InOrderAfter(before, r)
  BY <1>1, <1>2 DEF InOrderAfter, LastAfter
<1>4. m = LastFrame => LastAfter(before, r)
  BY <1>1, <1>2 DEF LastAfter
<1> QED
  BY <1>3, <1>4 DEF r

\* What is left behind the first k is in order behind the last of them.
LEMMA RestInOrder ==
  ASSUME NEW q \in Seq(Messages), NEW before, NEW k \in 0 .. Len(q)
  PROVE  LET last == IF k = 0 THEN before ELSE q[k]
             rest == SubSeq(q, k + 1, Len(q))
         IN  /\ InOrderAfter(before, q) => InOrderAfter(last, rest)
             /\ LastAfter(before, q) => LastAfter(last, rest)
<1> DEFINE last == IF k = 0 THEN before ELSE q[k]
           rest == SubSeq(q, k + 1, Len(q))
<1>1. /\ rest \in Seq(Messages) /\ Len(rest) = Len(q) - k
      /\ \A i \in 1 .. Len(q) - k : rest[i] = q[k + i]
  OBVIOUS
<1>2. Len(q) \in Nat /\ (q = <<>> <=> Len(q) = 0) /\ (rest = <<>> <=> Len(rest) = 0)
  <2>1. ASSUME NEW r \in Seq(Messages)
        PROVE  Len(r) \in Nat /\ (r = <<>> <=> Len(r) = 0)
    OBVIOUS
  <2> HIDE DEF rest
  <2> QED
    BY <1>1, <2>1
<1> HIDE DEF rest
<1>3. InOrderAfter(before, q) => InOrderAfter(last, rest)
  <2> SUFFICES ASSUME InOrderAfter(before, q), NEW i \in 1 .. Len(rest), rest[i] = Eof
               PROVE  IF i = 1 THEN last = LastFrame ELSE rest[i - 1] = LastFrame
    BY DEF InOrderAfter
  <2>1. k + i \in 1 .. Len(q) /\ q[k + i] = Eof
    BY <1>1, <1>2
  <2>2. IF k + i = 1 THEN before = LastFrame ELSE q[k + i - 1] = LastFrame
    BY <2>1 DEF InOrderAfter
  <2> QED
    BY <1>1, <1>2, <2>2
<1>4. LastAfter(before, q) => LastAfter(last, rest)
  <2>1. CASE k = Len(q)
    BY <1>1, <1>2, <2>1 DEF LastAfter
  <2>2. CASE k < Len(q)
    <3>1. Len(rest) \in 1 .. Len(q) - k /\ k + Len(rest) = Len(q)
      BY <1>1, <1>2, <2>2
    <3>2. rest[Len(rest)] = q[Len(q)]
      BY <1>1, <3>1
    <3> QED
      BY <1>2, <2>2, <3>1, <3>2 DEF LastAfter
  <2> QED
    BY <1>2, <2>1, <2>2
<1> QED
  BY <1>3, <1>4 DEF rest

\* The same for the first one.
LEMMA TailInOrder ==
  ASSUME NEW q \in Seq(Messages), NEW before, q # <<>>
  PROVE  /\ InOrderAfter(before, q) => InOrderAfter(Head(q), Tail(q))
         /\ LastAfter(before, q) => LastAfter(Head(q), Tail(q))
<1>1. Tail(q) = SubSeq(q, 1 + 1, Len(q)) /\ 1 \in 0 .. Len(q) /\ Head(q) = q[1]
  OBVIOUS
<1>2. /\ InOrderAfter(before, q) => InOrderAfter(q[1], SubSeq(q, 1 + 1, Len(q)))
      /\ LastAfter(before, q) => LastAfter(q[1], SubSeq(q, 1 + 1, Len(q)))
  BY <1>1, RestInOrder
<1> QED
  BY <1>1, <1>2

\* A peeked frame stands before the queue.
LEMMA PutBackInOrder ==
  ASSUME NEW q \in Seq(Messages), NEW frame \in FrameNumbers, NEW before
  PROVE  /\ InOrderAfter(frame, q) => InOrderAfter(before, <<frame>> \o q)
         /\ LastAfter(frame, q) => LastAfter(before, <<frame>> \o q)
<1> DEFINE r == <<frame>> \o q
<1>1. /\ Len(r) = Len(q) + 1 /\ r[1] = frame /\ \A i \in 1 .. Len(q) : r[i + 1] = q[i]
      /\ Len(q) \in Nat
  OBVIOUS
<1>2. (q = <<>> <=> Len(q) = 0) /\ r # <<>> /\ frame # Eof
  BY BoundsHold DEF FrameNumbers, Eof, Bounds
<1> HIDE DEF r
<1>3. InOrderAfter(frame, q) => InOrderAfter(before, r)
  <2> SUFFICES ASSUME InOrderAfter(frame, q), NEW i \in 1 .. Len(r), r[i] = Eof
               PROVE  IF i = 1 THEN before = LastFrame ELSE r[i - 1] = LastFrame
    BY DEF InOrderAfter
  <2>1. i # 1 /\ i - 1 \in 1 .. Len(q) /\ q[i - 1] = Eof
    BY <1>1, <1>2
  <2>2. IF i - 1 = 1 THEN frame = LastFrame ELSE q[i - 1 - 1] = LastFrame
    BY <2>1 DEF InOrderAfter
  <2>3. i - 1 # 1 => i - 1 - 1 \in 1 .. Len(q) /\ i - 1 - 1 + 1 = i - 1
    BY <2>1
  <2> QED
    BY <1>1, <2>1, <2>2, <2>3
<1>4. LastAfter(frame, q) => LastAfter(before, r)
  BY <1>1, <1>2 DEF LastAfter
<1> QED
  BY <1>3, <1>4 DEF r

\* What the consume thread took last from the current stream.
Before ==
    IF con.epoch # ctl.epoch THEN None
    ELSE IF con.msg # None THEN con.msg
    ELSE IF con.peek # None THEN con.peek
    ELSE IF con.consumed # None THEN con.consumed
    ELSE ctl.last

\* The receiver of the current stream is offered or taken over, and what the
\* consume thread has reported it has let go of.
OneStream ==
    /\ ctl.rx # 0 => ctl.rx = ctl.epoch /\ con.epoch # ctl.epoch
    /\ con.epoch = ctl.epoch /\ con.rx # 0 => con.rx = ctl.epoch
    /\ ctl.seek # NoSeek => con.epoch # ctl.epoch
    /\ \A i \in DOMAIN events :
          events[i].epoch = ctl.epoch => ctl.rx = 0 /\ con.epoch # ctl.epoch

\* The marker of the end comes behind the last frame in what is sent, ...
QueueInOrder ==
    ctl.epoch \in DOMAIN chan =>
        /\ InOrderAfter(Before, chan[ctl.epoch].q)
        /\ dec.alive /\ dec.id = ctl.epoch /\ dec.next = Eof =>
              LastAfter(Before, chan[ctl.epoch].q)

\* ... and in what the consume thread does with it.
EndInOrder ==
    /\ con.epoch = ctl.epoch /\ con.msg = Eof => ctl.last = LastFrame
    /\ con.epoch = ctl.epoch /\ con.terminal = Eof =>
          IF con.consumed # None THEN con.consumed = LastFrame ELSE ctl.last = LastFrame
    /\ \A i \in DOMAIN events :
          events[i].kind = "eof" /\ events[i].epoch = ctl.epoch => ctl.last = LastFrame

\* A decoder that works has not closed its channel, and reports are about
\* streams there were.
Opened == dec.alive /\ dec.id \in DOMAIN chan => chan[dec.id].open
Reported == \A i \in DOMAIN events : events[i].epoch \in 1 .. ctl.epoch

Flow ==
    /\ Turn /\ Opened /\ Reported /\ PeekIsNext
    /\ win.pc # "spawn" => OneStream /\ QueueInOrder /\ EndInOrder

LEMMA FlowShowsInOrder == Flow => FramesInOrder
<1> SUFFICES ASSUME Flow PROVE FramesInOrder
  OBVIOUS
<1>1. EofAfterLastFrame
  BY DEF Flow, EndInOrder, EofAfterLastFrame, Idle, LastFrame
<1> QED
  BY <1>1 DEF Flow, FramesInOrder

LEMMA InitFlow == Init => Flow
<1> SUFFICES ASSUME Init PROVE Flow
  OBVIOUS
<1>1. con = Unbound /\ dec = NoDecoder /\ events = <<>> /\ DOMAIN chan = {}
  BY DEF Init
<1>2. ctl.epoch = 0 /\ ctl.rx = 0 /\ ctl.seek = NoSeek /\ ctl.peek = None
  BY DEF Init
<1>3. None # Eof /\ Eof # 0
  BY BoundsHold DEF Bounds, None, Eof
<1>4. Turn
  BY <1>1, <1>2 DEF Turn, Unbound
<1>5. Opened /\ Reported /\ PeekIsNext
  BY <1>1, <1>2 DEF Opened, Reported, PeekIsNext, Unbound, NoDecoder
<1>6. OneStream /\ QueueInOrder /\ EndInOrder
  BY <1>1, <1>2, <1>3 DEF OneStream, QueueInOrder, EndInOrder, Unbound
<1> QED
  BY <1>4, <1>5, <1>6 DEF Flow

\* The reports that are left are some of those before.
FewerEvents == \A i \in DOMAIN events' : \E j \in DOMAIN events : events'[i] = events[j]
LEMMA EventsLeft ==
  ASSUME TypeOK, events' = events \/ (events # <<>> /\ events' = Tail(events))
  PROVE  FewerEvents
<1>1. events \in Seq(Reports)
  BY DEF TypeOK
<1>2. CASE events # <<>> /\ events' = Tail(events)
  <2>1. \A i \in DOMAIN Tail(events) : i + 1 \in DOMAIN events /\ Tail(events)[i] = events[i + 1]
    BY <1>1, <1>2
  <2> QED
    BY <1>2, <2>1 DEF FewerEvents
<1> QED
  BY <1>2 DEF FewerEvents

LEMMA FlowAnew ==
  ASSUME TypeOK, TypeOK', Flow, StartsAnew, con' = con, FewerEvents
  PROVE  Flow'
<1>0. /\ ctl.epoch \in Nat /\ con.epoch \in Nat /\ con.epoch <= ctl.epoch
      /\ con.epoch # ctl'.epoch /\ ctl'.epoch = ctl.epoch + 1
      /\ ctl.epoch + 1 \notin DOMAIN chan
  BY DEF TypeOK, Controls, Consumers, Flow, Turn, StartsAnew
<1>1. Turn'
  BY <1>0, TurnKept DEF Flow
<1>2. Reported' /\ \A i \in DOMAIN events' : events'[i].epoch # ctl'.epoch
  BY <1>0 DEF Flow, Reported, FewerEvents
<1>3. Opened'
  BY DEF Flow, Opened, StartsAnew
<1>4. PeekIsNext'
  BY <1>0 DEF PeekIsNext
<1>5. ASSUME win'.pc # "spawn"
      PROVE  (OneStream /\ QueueInOrder /\ EndInOrder)'
  <2>1. OneStream'
    BY <1>0, <1>2, <1>5 DEF OneStream, StartsAnew
  <2>2. QueueInOrder'
    <3>1. ASSUME ctl'.epoch \in DOMAIN chan'
          PROVE  chan'[ctl'.epoch].q = <<>> /\ dec'.next # Eof
      BY <1>0, <3>1 DEF StartsAnew
    <3>2. ASSUME NEW before
          PROVE  InOrderAfter(before, <<>>)
      BY DEF InOrderAfter
    <3> QED
      BY <3>1, <3>2 DEF QueueInOrder
  <2>3. EndInOrder'
    BY <1>0, <1>2 DEF EndInOrder
  <2> QED
    BY <2>1, <2>2, <2>3
<1> QED
  BY <1>1, <1>2, <1>3, <1>4, <1>5 DEF Flow

LEMMA FlowGoesOn ==
  ASSUME TypeOK, TypeOK', Flow, GoesOn, con' = con, FewerEvents
  PROVE  Flow'
<1>1. Turn'
  BY TurnKept DEF Flow, GoesOn
<1>2. Reported'
  BY DEF Flow, Reported, FewerEvents, GoesOn
<1>3. Opened'
  BY DEF Flow, Opened, GoesOn, SameChannels
<1>4. PeekIsNext'
  BY DEF Flow, PeekIsNext, GoesOn
<1>5. ASSUME win'.pc # "spawn"
      PROVE  (OneStream /\ QueueInOrder /\ EndInOrder)'
  <2>1. /\ OneStream /\ QueueInOrder /\ EndInOrder /\ ctl'.epoch = ctl.epoch
        /\ ctl'.rx = ctl.rx /\ ctl'.last = ctl.last /\ ctl'.seek = ctl.seek /\ dec' = dec
    BY <1>5 DEF Flow, GoesOn
  <2>2. OneStream'
    BY <2>1 DEF OneStream, FewerEvents
  <2>3. Before' = Before
    BY <2>1 DEF Before
  <2>4. QueueInOrder'
    BY <2>1, <2>3 DEF QueueInOrder, GoesOn, SameChannels
  <2>5. EndInOrder'
    BY <2>1 DEF EndInOrder, FewerEvents
  <2> QED
    BY <2>2, <2>4, <2>5
<1> QED
  BY <1>1, <1>2, <1>3, <1>4, <1>5 DEF Flow
LEMMA FlowDecoder ==
  ASSUME TypeOK, TypeOK', Flow, Decoder
  PROVE  Flow'
<1>0. /\ dec \in Decoders /\ ctl \in Controls
      /\ \A i \in DOMAIN chan : chan[i] \in Channels /\ chan[i].q \in Seq(Messages)
      /\ con' = con /\ events' = events /\ win' = win
  BY DecoderLeaves DEF TypeOK, Channels
<1>1. /\ ctl'.epoch = ctl.epoch /\ ctl'.rx = ctl.rx /\ ctl'.last = ctl.last
      /\ ctl'.seek = ctl.seek /\ ctl'.peek = ctl.peek
  BY <1>0 DEF Decoder, DecoderStops, DecoderOpens, DecoderFails, DecoderSends, Controls
<1>2. Turn'
  BY <1>0, <1>1, TurnKept DEF Flow
<1>3. Reported' /\ PeekIsNext'
  BY <1>0, <1>1 DEF Flow, Reported, PeekIsNext
<1>4. Before' = Before
  BY <1>0, <1>1 DEF Before
<1>5. Opened' /\ (QueueInOrder => QueueInOrder')
  <2>1. CASE DecoderStops
    <3>1. ~dec'.alive
      BY <2>1 DEF DecoderStops, DecoderExits, NoDecoder
    <3>2. DOMAIN chan' = DOMAIN chan /\ \A i \in DOMAIN chan' : chan'[i].q = chan[i].q
      <4>1. chan' = [i \in DOMAIN chan |->
                        IF i = dec.id THEN [chan[i] EXCEPT !.open = FALSE] ELSE chan[i]]
        BY <2>1 DEF DecoderStops, DecoderExits
      <4>2. \A i \in DOMAIN chan : [chan[i] EXCEPT !.open = FALSE].q = chan[i].q
        BY <1>0 DEF Channels
      <4> QED
        BY <4>1, <4>2
    <3> QED
      BY <1>1, <1>4, <3>1, <3>2 DEF Opened, QueueInOrder
  <2>2. CASE DecoderOpens \/ DecoderFails
    <3>1. chan' = chan
      BY <2>2 DEF DecoderOpens, DecoderFails
    <3>2. dec'.alive = dec.alive /\ dec'.id = dec.id
      BY <1>0, <2>2 DEF DecoderOpens, DecoderFails, Decoders
    <3>3. dec'.next # Eof
      <4>1. CASE DecoderOpens
        <5>1. \A from \in Int : FirstDelivered(from) \in 0 .. Frames - 1
          BY BoundsHold DEF FirstDelivered, LesserOf, GreaterOf, Bounds, None
        <5>2. PICK from \in Int : dec' = [dec EXCEPT !.pc = "send", !.next = FirstDelivered(from)]
          <6>1. dec.from \in Int /\ LesserOf(dec.from, Frames) \in Int
            BY <1>0, BoundsHold DEF Decoders, LesserOf, Bounds
          <6> QED
            BY <4>1, <6>1 DEF DecoderOpens
        <5>3. dec'.next \in 0 .. Frames - 1
          BY <1>0, <5>1, <5>2 DEF Decoders
        <5> QED
          BY <5>3, BoundsHold DEF Eof, Bounds
      <4>2. CASE DecoderFails
        <5>1. dec'.next = Failed
          BY <1>0, <4>2 DEF DecoderFails, Decoders
        <5> QED
          BY <5>1, BoundsHold DEF Eof, Failed, Bounds
      <4> QED
        BY <2>2, <4>1, <4>2
    <3> QED
      BY <1>1, <1>4, <3>1, <3>2, <3>3 DEF Flow, Opened, QueueInOrder
  <2>3. CASE DecoderSends
    <3> DEFINE id == dec.id
               q == chan[id].q
               m == dec.next
    <3>1. /\ id \in DOMAIN chan /\ m \in Messages /\ q \in Seq(Messages) /\ dec.alive
          /\ chan[id] \in Channels
      BY <1>0, <2>3 DEF DecoderSends, Decoders
    <3>2. ASSUME NEW c \in Channels, NEW r \in Seq(Messages)
          PROVE  /\ [c EXCEPT !.q = r].q = r /\ [c EXCEPT !.q = r].open = c.open
                 /\ [c EXCEPT !.q = r, !.open = FALSE].q = r
      BY DEF Channels
    <3>3. /\ DOMAIN chan' = DOMAIN chan
          /\ chan'[id].q = Append(q, m)
          /\ \A i \in DOMAIN chan : i # id => chan'[i] = chan[i]
          /\ m < Frames => chan'[id].open = chan[id].open
      <4>1. Append(q, m) \in Seq(Messages)
        BY <3>1
      <4>2. \/ /\ m < Frames
               /\ chan' = [chan EXCEPT ![id] = [chan[id] EXCEPT !.q = Append(q, m)]]
            \/ /\ ~(m < Frames)
               /\ chan' = [chan EXCEPT ![id] = [chan[id] EXCEPT !.q = Append(q, m),
                                                               !.open = FALSE]]
        BY <2>3, <3>1, BoundsHold DEF DecoderSends, Messages, Bounds
      <4> HIDE DEF q, m, id
      <4>3. ASSUME NEW c, chan' = [chan EXCEPT ![id] = c]
            PROVE  /\ DOMAIN chan' = DOMAIN chan /\ chan'[id] = c
                   /\ \A i \in DOMAIN chan : i # id => chan'[i] = chan[i]
        BY <3>1, <4>3
      <4> DEFINE more == [chan[id] EXCEPT !.q = Append(q, m)]
                 closed == [chan[id] EXCEPT !.q = Append(q, m), !.open = FALSE]
      <4>4. /\ more.q = Append(q, m) /\ more.open = chan[id].open
            /\ closed.q = Append(q, m)
        BY <3>1, <3>2, <4>1
      <4>5. \/ m < Frames /\ chan' = [chan EXCEPT ![id] = more]
            \/ ~(m < Frames) /\ chan' = [chan EXCEPT ![id] = closed]
        BY <4>2
      <4> HIDE DEF more, closed
      <4> QED
        BY <4>3, <4>4, <4>5
    <3>4. IF m < Frames
          THEN dec'.id = id /\ dec'.next = m + 1 /\ dec'.alive
          ELSE ~dec'.alive
      <4>1. m \in Int /\ Frames \in Int
        BY <3>1, BoundsHold DEF Messages, Failed, Bounds
      <4>2. \/ m < Frames /\ dec' = [dec EXCEPT !.next = m + 1]
            \/ ~(m < Frames) /\ dec' = NoDecoder
        BY <2>3, <4>1 DEF DecoderSends
      <4> QED
        BY <1>0, <3>1, <4>2 DEF Decoders, NoDecoder
    <3>5. m < Frames => m # Eof /\ (m + 1 = Eof <=> m = LastFrame)
      BY <3>1, BoundsHold DEF Messages, Eof, LastFrame, Bounds
    <3>6. Opened'
      BY <3>1, <3>3, <3>4 DEF Flow, Opened
    <3>7. ASSUME QueueInOrder, ctl.epoch \in DOMAIN chan
          PROVE  /\ InOrderAfter(Before, chan'[ctl.epoch].q)
                 /\ dec'.alive /\ dec'.id = ctl.epoch /\ dec'.next = Eof =>
                        LastAfter(Before, chan'[ctl.epoch].q)
      <4>1. CASE ctl.epoch = id
        <5>1. InOrderAfter(Before, q) /\ (m = Eof => LastAfter(Before, q))
          BY <3>1, <3>7, <4>1 DEF QueueInOrder
        <5>2. /\ InOrderAfter(Before, Append(q, m))
              /\ m = LastFrame => LastAfter(Before, Append(q, m))
          BY <3>1, <5>1, SentInOrder
        <5> QED
          BY <3>3, <3>4, <3>5, <4>1, <5>2
      <4>2. CASE ctl.epoch # id
        BY <3>3, <3>4, <3>7, <4>2 DEF QueueInOrder
      <4> QED
        BY <4>1, <4>2
    <3>8. QueueInOrder => QueueInOrder'
      BY <1>1, <1>4, <3>3, <3>7 DEF QueueInOrder
    <3> QED
      BY <3>6, <3>8
  <2> QED
    BY <2>1, <2>2, <2>3 DEF Decoder
<1>6. OneStream => OneStream'
  BY <1>0, <1>1 DEF OneStream
<1>7. EndInOrder => EndInOrder'
  BY <1>0, <1>1 DEF EndInOrder
<1> QED
  BY <1>0, <1>2, <1>3, <1>5, <1>6, <1>7 DEF Flow

\* What the consume thread's steps have in common.
LEMMA ConsumerTyped ==
  ASSUME TypeOK, Flow
  PROVE  /\ con \in Consumers /\ ctl \in Controls /\ ctl.epoch \in Nat /\ con.epoch \in Nat
         /\ ctl.rx \in Nat /\ con.rx \in Nat /\ con.rx <= con.epoch /\ con.epoch <= ctl.epoch
         /\ \A i \in DOMAIN chan : chan[i] \in Channels /\ chan[i].q \in Seq(Messages)
         /\ {ctl.rx, con.rx} \ {0} = DOMAIN chan
         /\ Turn
         /\ None # Eof /\ None # Failed /\ Eof # 0 /\ Eof # Failed
         /\ \A m \in FrameNumbers : m # None /\ m # Eof /\ m \in Messages
  BY BoundsHold DEF TypeOK, Controls, Consumers, Channels, Flow, Turn, Bounds, None, Eof, Failed,
     FrameNumbers, Messages

\* A stream that is not the current one any more is let go of.
LEMMA LetsGo ==
  ASSUME TypeOK, Flow, win.pc # "spawn", con.epoch # ctl.epoch, con'.epoch = 0,
         UNCHANGED <<ctl.epoch, ctl.rx, ctl.last, ctl.seek, dec, events>>,
         \A i \in DOMAIN chan' : i \in DOMAIN chan /\ chan'[i] = chan[i]
  PROVE  (OneStream /\ QueueInOrder /\ EndInOrder)'
<1>1. con'.epoch # ctl'.epoch
  BY ConsumerTyped
<1>2. Before = None /\ Before' = None
  BY <1>1 DEF Before
<1>3. OneStream /\ QueueInOrder /\ EndInOrder
  BY DEF Flow
<1>4. OneStream'
  BY <1>1, <1>3 DEF OneStream
<1>5. QueueInOrder'
  BY <1>2, <1>3 DEF QueueInOrder
<1>6. EndInOrder'
  BY <1>1, <1>3 DEF EndInOrder
<1> QED
  BY <1>4, <1>5, <1>6

\* What the consume thread had from it comes to nothing new.
LEMMA SameStream ==
  ASSUME TypeOK, Flow, win.pc # "spawn", Before' = Before, con'.epoch = con.epoch,
         con'.rx = con.rx, con'.terminal = con.terminal, con'.consumed = con.consumed,
         con'.msg = con.msg \/ con'.msg # Eof,
         UNCHANGED <<ctl.epoch, ctl.rx, ctl.last, ctl.seek, dec, events>>,
         \A i \in DOMAIN chan' : i \in DOMAIN chan /\ chan'[i] = chan[i]
  PROVE  (OneStream /\ QueueInOrder /\ EndInOrder)'
<1>1. OneStream /\ QueueInOrder /\ EndInOrder
  BY DEF Flow
<1>2. OneStream'
  BY <1>1 DEF OneStream
<1>3. QueueInOrder'
  BY <1>1 DEF QueueInOrder
<1>4. EndInOrder'
  BY <1>1 DEF EndInOrder
<1> QED
  BY <1>2, <1>3, <1>4

\* The handshake.
LEMMA FlowHandshake ==
  ASSUME TypeOK, TypeOK', Flow, win.pc # "spawn", Handshake
  PROVE  (OneStream /\ QueueInOrder /\ EndInOrder)'
<1> DEFINE dropped == con.epoch # 0 /\ con.epoch # ctl.epoch
           taken == ctl.rx # 0
           retired == ~ctl.on
           stream == IF retired \/ (dropped /\ ~taken) THEN Released(con)
                     ELSE IF taken THEN [Released(con) EXCEPT !.rx = ctl.rx, !.epoch = ctl.epoch,
                                                              !.inst = chan[ctl.rx].inst]
                     ELSE con
           seeks == stream.epoch = ctl.epoch /\ ctl.seek # NoSeek
<1>0. OneStream /\ QueueInOrder /\ EndInOrder /\ Reported
  BY DEF Flow
<1>1. /\ con.pc = "hands"
      /\ con' = [stream EXCEPT !.pc = IF seeks THEN "wait" ELSE "due",
                               !.peek = IF seeks THEN None ELSE @,
                               !.consumed = None, !.msg = None,
                               !.req = IF seeks THEN ctl.seek ELSE NoSeek]
      /\ ctl' = [ctl EXCEPT !.rx = 0, !.seek = IF seeks THEN NoSeek ELSE @,
                            !.peek = IF dropped \/ taken \/ retired THEN None ELSE @]
      /\ KeepHeld(ctl'.rx, con'.rx)
      /\ dec' = dec /\ events' = events
  BY DEF Handshake, At
<1>2. /\ ctl'.rx = 0 /\ ctl'.epoch = ctl.epoch /\ ctl'.last = ctl.last
      /\ ctl'.seek = (IF seeks THEN NoSeek ELSE ctl.seek)
  <2> HIDE DEF seeks, dropped, taken, retired
  <2> QED
    BY <1>1, ConsumerTyped DEF Controls
<1>3. /\ con.terminal = 0 /\ con.consumed = None /\ con.msg = None
  BY <1>1 DEF Flow, Turn
<1>4. \A i \in DOMAIN chan' : i \in DOMAIN chan /\ chan'[i] = chan[i] /\ i = con'.rx
  BY <1>1, <1>2, ConsumerTyped DEF KeepHeld
<1>5. stream \in Consumers /\ stream.terminal = 0
  <2>1. Released(con) \in Consumers
    BY ConsumerTyped, ReleasedTyped
  <2>2. taken => chan[ctl.rx].inst \in Nat
    BY ConsumerTyped DEF Channels
  <2>3. \A c \in Consumers, r \in Nat, e \in Nat, n \in Nat :
            [c EXCEPT !.rx = r, !.epoch = e, !.inst = n] \in Consumers
    BY DEF Consumers
  <2>4. taken => [Released(con) EXCEPT !.rx = ctl.rx, !.epoch = ctl.epoch,
                                       !.inst = chan[ctl.rx].inst] \in Consumers
    BY <2>1, <2>2, <2>3, ConsumerTyped, Zenon
  <2>5. stream \in Consumers
    BY <2>1, <2>4, ConsumerTyped
  <2>6. Released(con).terminal = 0
    BY ConsumerTyped DEF Released, Consumers
  <2>7. [Released(con) EXCEPT !.rx = ctl.rx, !.epoch = ctl.epoch,
                              !.inst = chan[ctl.rx].inst].terminal = 0
    BY <2>1, <2>6 DEF Consumers
  <2> QED
    BY <1>3, <2>5, <2>6, <2>7
<1>6. /\ con'.epoch = stream.epoch /\ con'.rx = stream.rx /\ con'.terminal = 0
      /\ con'.consumed = None /\ con'.msg = None
      /\ con'.peek = (IF seeks THEN None ELSE stream.peek)
  <2> HIDE DEF stream, seeks
  <2> QED
    BY <1>1, <1>5 DEF Consumers
<1>7. ctl'.seek # NoSeek => con'.epoch # ctl'.epoch
  BY <1>2, <1>6
<1>8. CASE retired \/ (dropped /\ ~taken)
  <2>1. stream.epoch = 0 /\ stream.rx = 0
    BY <1>8, ConsumerTyped DEF Released, Consumers
  <2>2. DOMAIN chan' = {}
    BY <1>4, <1>6, <2>1, ConsumerTyped
  <2>3. OneStream'
    <3>1. \A i \in DOMAIN events : events[i].epoch = ctl.epoch => ctl.epoch # 0
      BY <1>0, ConsumerTyped DEF Reported
    <3> QED
      BY <1>0, <1>1, <1>2, <1>6, <1>7, <2>1, <3>1, ConsumerTyped DEF OneStream
  <2>4. QueueInOrder'
    BY <2>2 DEF QueueInOrder
  <2>5. EndInOrder'
    BY <1>0, <1>1, <1>2, <1>6, ConsumerTyped DEF EndInOrder
  <2> QED
    BY <2>3, <2>4, <2>5
<1>9. CASE ~retired /\ taken
  <2>1. stream.epoch = ctl.epoch /\ stream.rx = ctl.rx /\ stream.peek = None
    BY <1>9, ConsumerTyped DEF Released, Consumers
  <2>2. ctl.rx = ctl.epoch /\ con.epoch # ctl.epoch
    BY <1>0, <1>9 DEF OneStream
  <2>3. OneStream'
    BY <1>0, <1>1, <1>2, <1>6, <1>7, <1>9, <2>1, <2>2 DEF OneStream
  <2>4. QueueInOrder'
    <3>1. Before = None
      BY <2>2 DEF Before
    <3>2. ASSUME ctl'.epoch \in DOMAIN chan'
          PROVE  /\ InOrderAfter(Before', chan'[ctl'.epoch].q)
                 /\ dec'.alive /\ dec'.id = ctl'.epoch /\ dec'.next = Eof =>
                        LastAfter(Before', chan'[ctl'.epoch].q)
      <4> DEFINE q == chan[ctl.epoch].q
                 b == Before'
      <4>1. ctl.epoch \in DOMAIN chan /\ chan'[ctl'.epoch].q = q /\ q \in Seq(Messages)
        BY <1>2, <1>4, <3>2, ConsumerTyped
      <4>2. /\ InOrderAfter(None, q)
            /\ dec.alive /\ dec.id = ctl.epoch /\ dec.next = Eof => LastAfter(None, q)
        BY <1>0, <3>1, <4>1 DEF QueueInOrder
      <4> HIDE DEF q, b
      <4>3. /\ InOrderAfter(b, q)
            /\ dec.alive /\ dec.id = ctl.epoch /\ dec.next = Eof => LastAfter(b, q)
        BY <4>1, <4>2, AfterNothing
      <4> QED
        BY <1>1, <1>2, <4>1, <4>3 DEF b
    <3> QED
      BY <3>2 DEF QueueInOrder
  <2>5. EndInOrder'
    BY <1>0, <1>1, <1>2, <1>6, ConsumerTyped DEF EndInOrder
  <2> QED
    BY <2>3, <2>4, <2>5
<1>10. CASE ~retired /\ ~taken /\ ~dropped
  <2>1. stream = con /\ ~seeks
    BY <1>0, <1>10, ConsumerTyped DEF OneStream
  <2>2. UNCHANGED <<ctl.epoch, ctl.rx, ctl.last, ctl.seek, dec, events>>
    BY <1>1, <1>2, <1>10, <2>1
  <2>3. Before' = Before
    BY <1>3, <1>6, <2>1, <2>2 DEF Before
  <2> QED
    BY <1>3, <1>4, <1>6, <2>1, <2>2, <2>3, SameStream
<1> QED
  BY <1>8, <1>9, <1>10

\* What is awaited during a pause.
LEMMA FlowAwaits ==
  ASSUME TypeOK, TypeOK', Flow, win.pc # "spawn", AwaitFrame
  PROVE  (OneStream /\ QueueInOrder /\ EndInOrder)'
<1>0. /\ OneStream /\ QueueInOrder /\ EndInOrder /\ Opened
      /\ UNCHANGED <<ctl, dec, events>>
  BY DEF Flow, AwaitFrame
<1>1. /\ con.peek = None /\ con.consumed = None /\ con.msg = None /\ con.terminal = 0
      /\ con.pc = "wait"
  BY DEF AwaitFrame, At, Flow, Turn
<1>2. CASE con' = [con EXCEPT !.pc = "got"] /\ chan' = chan
  <2>1. /\ con'.rx = con.rx /\ con'.epoch = con.epoch /\ con'.terminal = con.terminal
        /\ con'.consumed = con.consumed /\ con'.msg = con.msg /\ con'.peek = con.peek
    BY <1>2, ConsumerTyped DEF Consumers
  <2>2. Before' = Before
    BY <1>0, <2>1 DEF Before
  <2> QED
    BY <1>0, <1>2, <2>1, <2>2, SameStream
<1>3. CASE /\ con.rx # 0
           /\ chan[con.rx] = [chan[con.rx] EXCEPT !.q = <<>>, !.open = FALSE]
           /\ con' = [con EXCEPT !.pc = "got", !.msg = Failed]
           /\ chan' = chan
  <2>1. /\ con'.rx = con.rx /\ con'.epoch = con.epoch /\ con'.terminal = con.terminal
        /\ con'.consumed = con.consumed /\ con'.msg = Failed
    BY <1>3, ConsumerTyped DEF Consumers
  <2>2. chan[con.rx].q = <<>> /\ ~chan[con.rx].open /\ con.rx \in DOMAIN chan
    BY <1>3, ConsumerTyped DEF Channels
  <2>3. OneStream'
    BY <1>0, <2>1 DEF OneStream
  <2>4. EndInOrder'
    BY <1>0, <2>1, ConsumerTyped DEF EndInOrder
  <2>5. QueueInOrder'
    <3>1. CASE con.epoch = ctl.epoch
      <4>1. con.rx = ctl.epoch /\ ~(dec.alive /\ dec.id = ctl.epoch)
        BY <1>0, <1>3, <2>2, <3>1 DEF OneStream, Opened
      <4>2. ASSUME NEW before
            PROVE  InOrderAfter(before, <<>>)
        BY DEF InOrderAfter
      <4> QED
        BY <1>0, <1>3, <2>2, <4>1, <4>2 DEF QueueInOrder
    <3>2. CASE con.epoch # ctl.epoch
      <4>1. Before' = Before
        BY <1>0, <2>1, <3>2 DEF Before
      <4> QED
        BY <1>0, <1>3, <4>1 DEF QueueInOrder
    <3> QED
      BY <3>1, <3>2
  <2> QED
    BY <2>3, <2>4, <2>5
<1>4. CASE /\ con.rx # 0
           /\ chan[con.rx].q # <<>>
           /\ chan' = [chan EXCEPT ![con.rx].q = Tail(@)]
           /\ con' = [con EXCEPT !.pc = "got", !.msg = Head(chan[con.rx].q)]
  <2> DEFINE q == chan[con.rx].q
             m == Head(q)
  <2>1. con.rx \in DOMAIN chan /\ q \in Seq(Messages) /\ m \in Messages /\ chan[con.rx] \in Channels
    BY <1>4, ConsumerTyped
  <2>2. m # None
    BY <2>1 DEF Messages, None
  <2>3. /\ con'.rx = con.rx /\ con'.epoch = con.epoch /\ con'.terminal = con.terminal
        /\ con'.consumed = con.consumed /\ con'.msg = m
    <3> HIDE DEF q, m
    <3>1. con' = [con EXCEPT !.pc = "got", !.msg = m]
      BY <1>4 DEF m, q
    <3> QED
      BY <3>1, <2>1, ConsumerTyped DEF Consumers
  <2>4. DOMAIN chan' = DOMAIN chan /\ chan'[con.rx].q = Tail(q)
        /\ \A i \in DOMAIN chan : i # con.rx => chan'[i] = chan[i]
    BY <1>4, <2>1 DEF Channels
  <2>5. OneStream'
    BY <1>0, <2>3 DEF OneStream
  <2>6. CASE con.epoch = ctl.epoch
    <3>1. con.rx = ctl.epoch /\ Before = ctl.last /\ Before' = m
      BY <1>0, <1>1, <1>4, <2>2, <2>3, <2>6 DEF OneStream, Before
    <3>2. /\ InOrderAfter(ctl.last, q)
          /\ dec.alive /\ dec.id = ctl.epoch /\ dec.next = Eof => LastAfter(ctl.last, q)
      BY <1>0, <2>1, <3>1 DEF QueueInOrder
    <3>3. /\ InOrderAfter(m, Tail(q))
          /\ dec.alive /\ dec.id = ctl.epoch /\ dec.next = Eof => LastAfter(m, Tail(q))
      BY <1>4, <2>1, <3>2, TailInOrder
    <3>4. QueueInOrder'
      <4> HIDE DEF m, q
      <4> QED
        BY <1>0, <2>1, <2>4, <3>1, <3>3 DEF QueueInOrder
    <3>5. m = Eof => ctl.last = LastFrame
      <4>1. 1 \in 1 .. Len(q) /\ m = q[1]
        BY <1>4, <2>1
      <4> HIDE DEF m, q
      <4> QED
        BY <3>2, <4>1 DEF InOrderAfter
    <3>6. EndInOrder'
      <4> HIDE DEF m, q
      <4> QED
        BY <1>0, <2>3, <3>5 DEF EndInOrder
    <3> QED
      BY <2>5, <3>4, <3>6
  <2>7. CASE con.epoch # ctl.epoch
    <3>1. con.rx # ctl.epoch
      BY <2>7, ConsumerTyped
    <3>2. Before = None /\ Before' = None
      BY <1>0, <2>3, <2>7 DEF Before
    <3>3. QueueInOrder'
      BY <1>0, <2>4, <3>1, <3>2 DEF QueueInOrder
    <3>4. EndInOrder'
      <4> HIDE DEF m, q
      <4> QED
        BY <1>0, <2>3, <2>7 DEF EndInOrder
    <3> QED
      BY <2>5, <3>3, <3>4
  <2> QED
    BY <2>6, <2>7
<1> QED
  BY <1>2, <1>3, <1>4 DEF AwaitFrame

\* The frame of a paused seek is peeked, or its end is noted.
LEMMA FlowPeeks ==
  ASSUME TypeOK, TypeOK', Flow, win.pc # "spawn", SeekFrameArrives
  PROVE  (OneStream /\ QueueInOrder /\ EndInOrder)'
<1>0. /\ OneStream /\ QueueInOrder /\ EndInOrder /\ UNCHANGED <<dec, events>>
      /\ KeepHeld(ctl'.rx, con'.rx)
  BY DEF Flow, SeekFrameArrives, SeekFrame
<1>1. /\ con.peek = None /\ con.consumed = None /\ con.terminal = 0 /\ con.pc = "got"
  BY DEF SeekFrameArrives, SeekFrame, At, Flow, Turn
<1>2. /\ ctl'.rx = ctl.rx /\ ctl'.epoch = ctl.epoch /\ ctl'.last = ctl.last
      /\ ctl'.seek = ctl.seek
  BY ConsumerTyped DEF SeekFrameArrives, SeekFrame, Controls
<1>3. \A i \in DOMAIN chan' : i \in DOMAIN chan /\ chan'[i] = chan[i] /\ i \in {ctl.rx, con'.rx}
  BY <1>0, <1>2 DEF KeepHeld
<1>4. CASE con.epoch # ctl.epoch
  <2>1. con' = [Released(con) EXCEPT !.pc = "due", !.msg = None, !.req = NoSeek]
    BY <1>4 DEF SeekFrameArrives, SeekFrame
  <2>2. con'.epoch = 0
    BY <2>1, ConsumerTyped DEF Released, Consumers
  <2> QED
    BY <1>0, <1>2, <1>3, <1>4, <2>2, LetsGo
<1>5. CASE con.epoch = ctl.epoch /\ con.msg = None
  <2>1. con' = [con EXCEPT !.pc = "due", !.req = NoSeek]
    BY <1>5 DEF SeekFrameArrives, SeekFrame
  <2>2. /\ con'.rx = con.rx /\ con'.epoch = con.epoch /\ con'.terminal = con.terminal
        /\ con'.consumed = con.consumed /\ con'.msg = con.msg /\ con'.peek = con.peek
    BY <2>1, ConsumerTyped DEF Consumers
  <2>3. Before' = Before
    BY <1>2, <2>2 DEF Before
  <2> QED
    BY <1>0, <1>2, <1>3, <2>2, <2>3, SameStream
<1>6. CASE con.epoch = ctl.epoch /\ con.msg \in FrameNumbers
  <2>1. con' = [con EXCEPT !.pc = "due", !.peek = con.msg, !.msg = None, !.req = NoSeek]
    BY <1>6, ConsumerTyped DEF SeekFrameArrives, SeekFrame
  <2>2. /\ con'.rx = con.rx /\ con'.epoch = con.epoch /\ con'.terminal = con.terminal
        /\ con'.consumed = con.consumed /\ con'.msg = None /\ con'.peek = con.msg
    BY <2>1, ConsumerTyped DEF Consumers
  <2>3. Before' = Before
    BY <1>2, <1>6, <2>2, ConsumerTyped DEF Before
  <2> QED
    BY <1>0, <1>2, <1>3, <2>2, <2>3, ConsumerTyped, SameStream
<1>7. CASE con.epoch = ctl.epoch /\ con.msg # None /\ con.msg \notin FrameNumbers
  <2>1. con' = [con EXCEPT !.pc = "due", !.rx = 0, !.terminal = con.msg, !.msg = None,
                           !.req = NoSeek]
    BY <1>7 DEF SeekFrameArrives, SeekFrame
  <2>2. /\ con'.rx = 0 /\ con'.epoch = con.epoch /\ con'.terminal = con.msg
        /\ con'.consumed = con.consumed /\ con'.msg = None
    BY <2>1, ConsumerTyped DEF Consumers
  <2>3. ctl.rx = 0 /\ DOMAIN chan' = {}
    <3>1. ctl.rx = 0
      BY <1>0, <1>7 DEF OneStream
    <3> QED
      BY <1>3, <2>2, <3>1, ConsumerTyped
  <2>4. OneStream'
    BY <1>0, <1>2, <2>2 DEF OneStream
  <2>5. QueueInOrder'
    BY <2>3 DEF QueueInOrder
  <2>6. EndInOrder'
    BY <1>0, <1>1, <1>2, <1>7, <2>2, ConsumerTyped DEF EndInOrder
  <2> QED
    BY <2>4, <2>5, <2>6
<1> QED
  BY <1>4, <1>5, <1>6, <1>7

\* Canvas commands, the test before the upload, and the upload.
LEMMA FlowUploads ==
  ASSUME TypeOK, TypeOK', Flow, win.pc # "spawn", RunCanvasCommands \/ CheckEpoch \/ UploadFrame
  PROVE  (OneStream /\ QueueInOrder /\ EndInOrder)'
<1>0. UNCHANGED <<ctl, dec, events>>
  BY DEF RunCanvasCommands, CheckEpoch, UploadFrame
<1>1. \A i \in DOMAIN chan' : i \in DOMAIN chan /\ chan'[i] = chan[i]
  BY DEF RunCanvasCommands, CheckEpoch, UploadFrame, KeepHeld
<1>2. CASE CheckEpoch /\ con.epoch # ctl.epoch
  <2>1. con' = [Released(con) EXCEPT !.pc = "wrote", !.consumed = None]
    BY <1>2 DEF CheckEpoch
  <2>2. con'.epoch = 0
    BY <2>1, ConsumerTyped DEF Released, Consumers
  <2> QED
    BY <1>0, <1>1, <1>2, <2>2, LetsGo
<1>3. CASE \E pc : con' = [con EXCEPT !.pc = pc]
  <2>1. /\ con'.rx = con.rx /\ con'.epoch = con.epoch /\ con'.terminal = con.terminal
        /\ con'.consumed = con.consumed /\ con'.msg = con.msg /\ con'.peek = con.peek
    BY <1>3, ConsumerTyped DEF Consumers
  <2>2. Before' = Before
    BY <1>0, <2>1 DEF Before
  <2> QED
    BY <1>0, <1>1, <2>1, <2>2, SameStream
<1> QED
  BY <1>2, <1>3 DEF RunCanvasCommands, CheckEpoch, UploadFrame

\* The write-back: the last frame taken becomes the last one shown, and then the
\* end is reported.
LEMMA FlowWritesBack ==
  ASSUME TypeOK, TypeOK', Flow, win.pc # "spawn", WriteBack
  PROVE  (OneStream /\ QueueInOrder /\ EndInOrder)'
<1>0. /\ OneStream /\ QueueInOrder /\ EndInOrder /\ dec' = dec
      /\ KeepHeld(ctl'.rx, con'.rx) /\ con.pc = "wrote" /\ con.msg = None
  BY DEF Flow, WriteBack, WritesBack, At, Turn
<1>1. /\ ctl'.rx = ctl.rx /\ ctl'.epoch = ctl.epoch /\ ctl'.seek = ctl.seek
      /\ ctl'.last = IF Current /\ con.consumed # None THEN con.consumed ELSE ctl.last
  BY ConsumerTyped DEF WriteBack, WritesBack, Controls
<1>2. \A i \in DOMAIN chan' : i \in DOMAIN chan /\ chan'[i] = chan[i] /\ i \in {ctl.rx, con'.rx}
  BY <1>0, <1>1 DEF KeepHeld
<1>3. CASE ~Current
  <2>1. con' = [Released(con) EXCEPT !.pc = "cmds", !.consumed = None] /\ events' = events
    BY <1>3 DEF WriteBack, WritesBack, Ended
  <2>2. con'.epoch = 0
    BY <2>1, ConsumerTyped DEF Released, Consumers
  <2>3. con.epoch # ctl.epoch /\ ctl'.last = ctl.last
    BY <1>1, <1>3 DEF Current
  <2> QED
    BY <1>0, <1>1, <1>2, <2>1, <2>2, <2>3, LetsGo
<1>4. CASE Current /\ ~Ended /\ ~(con.rx = 0 /\ con.peek = None)
  <2>1. con' = [con EXCEPT !.pc = "cmds", !.consumed = None] /\ events' = events
    BY <1>4 DEF WriteBack, WritesBack
  <2>2. /\ con'.rx = con.rx /\ con'.epoch = con.epoch /\ con'.terminal = con.terminal
        /\ con'.consumed = None /\ con'.msg = con.msg /\ con'.peek = con.peek
    BY <2>1, ConsumerTyped DEF Consumers
  <2>3. Before' = Before
    BY <1>0, <1>1, <1>4, <2>2 DEF Before, Current
  <2>4. con.terminal = 0 /\ con.epoch = ctl.epoch
    BY <1>4 DEF Ended, Current
  <2>5. OneStream'
    BY <1>0, <1>1, <2>1, <2>2 DEF OneStream
  <2>6. QueueInOrder'
    BY <1>0, <1>1, <1>2, <2>3 DEF QueueInOrder
  <2>7. EndInOrder'
    <3>1. \A i \in DOMAIN events : events[i].epoch # ctl.epoch
      BY <1>0, <2>4 DEF OneStream
    <3> QED
      BY <1>0, <1>1, <2>1, <2>2, <2>4, <3>1, ConsumerTyped DEF EndInOrder
  <2> QED
    BY <2>5, <2>6, <2>7
<1>5. CASE Current /\ (Ended \/ (con.rx = 0 /\ con.peek = None))
  <2>1. con' = [Released(con) EXCEPT !.pc = "cmds", !.consumed = None]
    BY <1>5 DEF WriteBack, WritesBack
  <2>2. /\ con'.rx = 0 /\ con'.epoch = 0 /\ con'.terminal = 0 /\ con'.msg = None
    BY <1>0, <2>1, ConsumerTyped DEF Released, Consumers
  <2>3. con.epoch = ctl.epoch /\ ctl.rx = 0 /\ DOMAIN chan' = {}
    BY <1>0, <1>2, <1>5, <2>2, ConsumerTyped DEF OneStream, Current
  <2>4. QueueInOrder'
    BY <2>3 DEF QueueInOrder
  <2>5. CASE Ended
    <3> DEFINE report == [kind |-> IF con.terminal = Eof THEN "eof" ELSE "failed",
                          epoch |-> con.epoch]
    <3>1. events' = Append(events, report) /\ events \in Seq(Reports)
      BY <2>5 DEF WriteBack, WritesBack, TypeOK
    <3>2. ctl.epoch # 0
      BY <2>3, <2>5, ConsumerTyped DEF Ended, Turn
    <3>3. \A i \in DOMAIN events' :
             (i \in DOMAIN events /\ events'[i] = events[i]) \/ events'[i] = report
      BY <3>1
    <3>4. \A i \in DOMAIN events : events[i].epoch # ctl.epoch
      BY <1>0, <2>3 DEF OneStream
    <3>5. OneStream'
      BY <1>1, <2>2, <2>3, <3>2 DEF OneStream
    <3>6. report.kind = "eof" => ctl'.last = LastFrame
      BY <1>0, <1>1, <2>3, <2>5 DEF EndInOrder, Ended
    <3> HIDE DEF report
    <3>7. EndInOrder'
      BY <1>1, <2>2, <3>2, <3>3, <3>4, <3>6, ConsumerTyped DEF EndInOrder
    <3> QED
      BY <2>4, <3>5, <3>7
  <2>6. CASE ~Ended
    <3>1. events' = events
      BY <2>6 DEF WriteBack, WritesBack
    <3>2. \A i \in DOMAIN events : events[i].epoch # ctl.epoch
      BY <1>0, <2>3 DEF OneStream
    <3>3. OneStream'
      BY <1>0, <1>1, <2>2, <2>3, <3>1, <3>2 DEF OneStream
    <3>4. EndInOrder'
      BY <1>1, <2>2, <3>1, <3>2, ConsumerTyped DEF EndInOrder
    <3> QED
      BY <2>4, <3>3, <3>4
  <2> QED
    BY <2>5, <2>6
<1> QED
  BY <1>3, <1>4, <1>5

\* What the consume thread has at hand of the current stream is in order behind
\* the last frame shown.
LEMMA WaitingInOrder ==
  ASSUME TypeOK, Flow, win.pc # "spawn", At("due"), con.epoch = ctl.epoch
  PROVE  /\ Waiting \in Seq(Messages)
         /\ InOrderAfter(ctl.last, Waiting)
         /\ con.rx # 0 /\ dec.alive /\ dec.id = ctl.epoch /\ dec.next = Eof =>
               LastAfter(ctl.last, Waiting)
<1> DEFINE b == IF con.peek # None THEN con.peek ELSE ctl.last
<1>0. /\ OneStream /\ QueueInOrder /\ con.consumed = None /\ con.msg = None
      /\ con.rx \in DOMAIN chan \cup {0}
  BY ConsumerTyped DEF Flow, At, Turn
<1>1. Waiting \in Seq(Messages) /\ Queued \in Seq(Messages)
  BY <1>0, WaitingTyped, ConsumerTyped
<1>2. /\ InOrderAfter(b, Queued)
      /\ con.rx # 0 /\ dec.alive /\ dec.id = ctl.epoch /\ dec.next = Eof => LastAfter(b, Queued)
  <2>1. CASE con.rx = 0
    BY <2>1 DEF Queued, InOrderAfter
  <2>2. CASE con.rx # 0
    <3>1. con.rx = ctl.epoch /\ Queued = chan[ctl.epoch].q /\ ctl.epoch \in DOMAIN chan
      BY <1>0, <2>2 DEF OneStream, Queued
    <3>2. Before = b
      BY <1>0 DEF Before
    <3> HIDE DEF b
    <3> QED
      BY <1>0, <3>1, <3>2 DEF QueueInOrder
  <2> QED
    BY <2>1, <2>2
<1>3. CASE con.peek = None
  <2>1. Waiting = Queued
    BY <1>1, <1>3 DEF Waiting
  <2> QED
    BY <1>1, <1>2, <1>3, <2>1
<1>4. CASE con.peek # None
  <2>1. con.peek \in FrameNumbers /\ Waiting = <<con.peek>> \o Queued /\ b = con.peek
    BY <1>4, ConsumerTyped DEF Waiting, Consumers, OneFrame
  <2> HIDE DEF b
  <2>2. /\ InOrderAfter(con.peek, Queued) => InOrderAfter(ctl.last, <<con.peek>> \o Queued)
        /\ LastAfter(con.peek, Queued) => LastAfter(ctl.last, <<con.peek>> \o Queued)
    BY <1>1, <2>1, PutBackInOrder
  <2> QED
    BY <1>1, <1>2, <2>1, <2>2
<1> QED
  BY <1>3, <1>4

\* The selection takes the frames that are due, in order.
LEMMA FlowSelects ==
  ASSUME TypeOK, TypeOK', Flow, win.pc # "spawn", SelectFrame
  PROVE  (OneStream /\ QueueInOrder /\ EndInOrder)'
<1>0. /\ OneStream /\ QueueInOrder /\ EndInOrder /\ dec' = dec /\ events' = events
      /\ At("due") /\ con.consumed = None /\ con.msg = None /\ Turn
  BY DEF Flow, SelectFrame, At, Turn
<1>1. /\ ctl'.rx = ctl.rx /\ ctl'.epoch = ctl.epoch /\ ctl'.seek = ctl.seek /\ ctl'.last = ctl.last
  BY ConsumerTyped DEF SelectFrame, Controls
<1>2. PICK n \in 0 .. Len(Waiting) :
        TakeFrames(n) /\ \A i \in 1 .. n : Waiting[i] < Frames
  BY DEF SelectFrame, IsDue
<1> DEFINE rest == SubSeq(Waiting, n + 2, Len(Waiting))
<1>3. /\ con'.epoch = con.epoch /\ con'.msg = None
      /\ con'.consumed = (IF n > 0 THEN Waiting[n] ELSE None)
      /\ con'.peek = (IF Reached(n) >= Frames THEN None ELSE Reached(n))
      /\ con'.terminal = EndAfter(n)
      /\ con'.rx = (IF EndAfter(n) # 0 THEN 0 ELSE con.rx)
  BY <1>0, <1>2, ConsumerTyped DEF TakeFrames, Consumers
<1>4. /\ DOMAIN chan' = DOMAIN chan \ (IF EndAfter(n) = 0 THEN {} ELSE {con.rx})
      /\ \A i \in DOMAIN chan' :
            chan'[i] = IF i # con.rx THEN chan[i] ELSE [chan[i] EXCEPT !.q = rest]
  BY <1>2 DEF TakeFrames
<1>5. OneStream'
  BY <1>0, <1>1, <1>3 DEF OneStream
<1>6. CASE con.epoch # ctl.epoch
  <2>1. con.rx # ctl.epoch
    BY <1>6, ConsumerTyped
  <2>2. Before = None /\ Before' = None
    BY <1>1, <1>3, <1>6 DEF Before
  <2>3. QueueInOrder'
    BY <1>0, <1>1, <1>4, <2>1, <2>2 DEF QueueInOrder
  <2>4. EndInOrder'
    BY <1>0, <1>1, <1>3, <1>6 DEF EndInOrder
  <2> QED
    BY <1>5, <2>3, <2>4
<1>7. CASE con.epoch = ctl.epoch
  <2>1. /\ Waiting \in Seq(Messages) /\ Len(Waiting) \in Nat
        /\ InOrderAfter(ctl.last, Waiting)
        /\ con.rx # 0 /\ dec.alive /\ dec.id = ctl.epoch /\ dec.next = Eof =>
               LastAfter(ctl.last, Waiting)
    BY <1>0, <1>7, WaitingInOrder
  <2>2. ctl.rx = 0 /\ DOMAIN chan = {con.rx} \ {0} /\ (con.rx # 0 => con.rx = ctl.epoch)
        /\ \A i \in DOMAIN events : events[i].epoch # ctl.epoch
    BY <1>0, <1>7, ConsumerTyped DEF OneStream
  <2>3. Frames \in Nat \ {0} /\ None = -1 /\ Eof = Frames /\ Failed = Frames + 1
    BY BoundsHold DEF Bounds, None, Eof, Failed
  <2>4. \A i \in 1 .. Len(Waiting) : Waiting[i] \in 0 .. Frames + 1
    <3>1. \A i \in 1 .. Len(Waiting) : Waiting[i] \in Messages
      BY <2>1
    <3> QED
      BY <2>3, <3>1 DEF Messages
  <2>5. Reached(n) = IF n < Len(Waiting) THEN Waiting[n + 1] ELSE None
    BY DEF Reached
  <2>6. CASE EndAfter(n) = 0
    <3> DEFINE k == IF n < Len(Waiting) THEN n + 1 ELSE n
               last == IF k = 0 THEN ctl.last ELSE Waiting[k]
    <3>1. Reached(n) < Frames
      <4>1. Reached(n) \in Int
        BY <2>3, <2>4, <2>5
      <4> QED
        BY <2>3, <2>6, <4>1 DEF EndAfter
    <3>2. k \in 0 .. Len(Waiting) /\ rest = SubSeq(Waiting, k + 1, Len(Waiting))
      BY <2>1
    <3>3. /\ InOrderAfter(last, rest)
          /\ con.rx # 0 /\ dec.alive /\ dec.id = ctl.epoch /\ dec.next = Eof => LastAfter(last, rest)
      <4>1. /\ InOrderAfter(ctl.last, Waiting) =>
                  InOrderAfter(last, SubSeq(Waiting, k + 1, Len(Waiting)))
            /\ LastAfter(ctl.last, Waiting) =>
                  LastAfter(last, SubSeq(Waiting, k + 1, Len(Waiting)))
        <5> HIDE DEF k
        <5> QED
          BY <2>1, <3>2, RestInOrder
      <4> HIDE DEF k, last, rest
      <4> QED
        BY <2>1, <3>2, <4>1
    <3>4. Before' = last
      <4>1. CASE n < Len(Waiting)
        <5>1. Reached(n) = Waiting[n + 1] /\ Waiting[n + 1] \in 0 .. Frames + 1
          BY <2>1, <2>4, <2>5, <4>1
        <5>2. con'.peek = Waiting[n + 1] /\ con'.peek # None
          BY <1>3, <2>3, <3>1, <5>1
        <5> QED
          BY <1>1, <1>3, <1>7, <4>1, <5>2 DEF Before
      <4>2. CASE n = Len(Waiting)
        <5>1. con'.peek = None
          BY <1>3, <2>3, <2>5, <4>2
        <5>2. n > 0 => Waiting[n] # None
          BY <2>1, <2>3, <2>4
        <5> QED
          BY <1>1, <1>3, <1>7, <4>2, <5>1, <5>2 DEF Before
      <4> QED
        BY <2>1, <4>1, <4>2
    <3>5. QueueInOrder'
      <4> SUFFICES ASSUME ctl'.epoch \in DOMAIN chan'
                   PROVE  /\ InOrderAfter(Before', chan'[ctl'.epoch].q)
                          /\ dec'.alive /\ dec'.id = ctl'.epoch /\ dec'.next = Eof =>
                                 LastAfter(Before', chan'[ctl'.epoch].q)
        BY DEF QueueInOrder
      <4>1. con.rx = ctl.epoch /\ con.rx # 0 /\ con.rx \in DOMAIN chan
        BY <1>1, <1>4, <2>2
      <4> HIDE DEF rest, last
      <4>2. chan'[ctl.epoch] = [chan[con.rx] EXCEPT !.q = rest]
        BY <1>1, <1>4, <4>1
      <4>3. chan'[ctl.epoch].q = rest
        BY <4>1, <4>2, ConsumerTyped DEF Channels
      <4> QED
        BY <1>0, <1>1, <3>3, <3>4, <4>1, <4>3
    <3>6. EndInOrder'
      BY <1>0, <1>1, <1>3, <2>2, <2>6, ConsumerTyped DEF EndInOrder
    <3> QED
      BY <1>5, <3>5, <3>6
  <2>7. CASE EndAfter(n) # 0
    <3>1. QueueInOrder'
      BY <1>1, <1>4, <2>2, <2>7 DEF QueueInOrder
    <3>2. ASSUME EndAfter(n) = Eof
          PROVE  IF con'.consumed # None THEN con'.consumed = LastFrame ELSE ctl.last = LastFrame
      <4>1. CASE Reached(n) = Eof
        <5>1. n < Len(Waiting) /\ Waiting[n + 1] = Eof /\ n + 1 \in 1 .. Len(Waiting)
          BY <2>1, <2>3, <2>5, <4>1
        <5>2. IF n + 1 = 1 THEN ctl.last = LastFrame ELSE Waiting[n + 1 - 1] = LastFrame
          BY <2>1, <5>1 DEF InOrderAfter
        <5>3. n > 0 => Waiting[n] # None
          BY <2>1, <2>3, <2>4
        <5> QED
          BY <1>3, <5>2, <5>3
      <4>2. CASE Reached(n) # Eof
        <5>1. con.terminal = Eof
          BY <2>3, <3>2, <4>2 DEF EndAfter
        <5>2. n = 0
          BY <1>0, <2>3, <5>1, NothingWaits
        <5> QED
          BY <1>0, <1>3, <1>7, <5>1, <5>2 DEF EndInOrder
      <4> QED
        BY <4>1, <4>2
    <3>3. EndInOrder'
      BY <1>0, <1>1, <1>3, <2>2, <3>2, ConsumerTyped DEF EndInOrder
    <3> QED
      BY <1>5, <3>1, <3>3
  <2> QED
    BY <2>6, <2>7
<1> QED
  BY <1>6, <1>7

\* What frame_step takes for the next frame is renewed at each write-back.
LEMMA PeekConsumer ==
  ASSUME TypeOK, Flow, Consumer
  PROVE  PeekIsNext'
<1>0. PeekIsNext /\ Turn /\ con \in Consumers /\ ctl \in Controls
  BY ConsumerTyped DEF Flow
<1>1. CASE RunCanvasCommands
  BY <1>0, <1>1 DEF RunCanvasCommands, At, PeekIsNext, Consumers
<1>2. CASE Handshake \/ AwaitFrame \/ SeekFrameArrives \/ SelectFrame \/ CheckEpoch \/ UploadFrame
  <2>1. con'.pc \in {"wait", "due", "got", "check", "wrote", "upload"}
    <3>1. CASE Handshake
      <4>1. PICK stream \in Consumers, pc \in {"wait", "due"} :
              \E p, r : con' = [stream EXCEPT !.pc = pc, !.peek = p, !.consumed = None,
                                              !.msg = None, !.req = r]
        <5>1. \A c \in Consumers, x \in Nat, e \in Nat, m \in Nat :
                [c EXCEPT !.rx = x, !.epoch = e, !.inst = m] \in Consumers
          BY DEF Consumers
        <5>2. Released(con) \in Consumers
          BY <1>0, ReleasedTyped
        <5>3. ctl.rx # 0 => ctl.rx \in Nat /\ ctl.epoch \in Nat /\ chan[ctl.rx].inst \in Nat
          BY ConsumerTyped DEF Channels
        <5>4. ctl.rx # 0 => [Released(con) EXCEPT !.rx = ctl.rx, !.epoch = ctl.epoch,
                                                  !.inst = chan[ctl.rx].inst] \in Consumers
          BY <5>1, <5>2, <5>3, Zenon
        <5> QED
          BY <1>0, <3>1, <5>2, <5>4 DEF Handshake
      <4> QED
        BY <4>1 DEF Consumers
    <3>2. CASE AwaitFrame \/ SeekFrameArrives \/ SelectFrame \/ CheckEpoch \/ UploadFrame
      BY <1>0, <3>2 DEF AwaitFrame, SeekFrameArrives, SeekFrame, SelectFrame, TakeFrames, CheckEpoch,
         UploadFrame, Released, Consumers
    <3> QED
      BY <1>2, <3>1, <3>2
  <2> QED
    BY <2>1 DEF PeekIsNext
<1>3. CASE WriteBack
  <2>1. \/ con' = [Released(con) EXCEPT !.pc = "cmds", !.consumed = None]
        \/ /\ con' = [con EXCEPT !.pc = "cmds", !.consumed = None]
           /\ Current
    <3>1. con' = IF ~Current \/ Ended \/ (con.rx = 0 /\ con.peek = None)
                 THEN [Released(con) EXCEPT !.pc = "cmds", !.consumed = None]
                 ELSE [con EXCEPT !.pc = "cmds", !.consumed = None]
      BY <1>3 DEF WriteBack, WritesBack
    <3> QED
      BY <3>1
  <2>2. ctl'.epoch = ctl.epoch /\ (Current => ctl'.peek = con.peek)
    BY <1>0, <1>3 DEF WriteBack, WritesBack, Controls
  <2>3. CASE con' = [con EXCEPT !.pc = "cmds", !.consumed = None] /\ Current
    BY <1>0, <2>2, <2>3 DEF PeekIsNext, Consumers
  <2>4. CASE con' = [Released(con) EXCEPT !.pc = "cmds", !.consumed = None]
    <3>1. con'.epoch = 0 /\ con'.peek = None
      BY <1>0, <2>4 DEF Released, Consumers
    <3>2. ctl.epoch = 0 => con.epoch = 0 /\ con.peek = None
      BY <1>0, ConsumerTyped DEF Turn
    <3> QED
      BY <2>2, <3>1, <3>2 DEF PeekIsNext, Current
  <2> QED
    BY <2>1, <2>3, <2>4
<1> QED
  BY <1>1, <1>2, <1>3 DEF Consumer

LEMMA FlowConsumer ==
  ASSUME TypeOK, TypeOK', Flow, Consumer
  PROVE  Flow'
<1>1. Turn' /\ PeekIsNext'
  BY TurnConsumer, PeekConsumer DEF Flow
<1>2. win' = win /\ dec' = dec
  BY ConsumerLeaves
<1>3. ctl'.epoch = ctl.epoch
  BY ConsumerTyped DEF Consumer, RunCanvasCommands, Handshake, AwaitFrame, SeekFrameArrives, SeekFrame,
     SelectFrame, CheckEpoch, UploadFrame, WriteBack, WritesBack, history, Controls
<1>4. Opened'
  <2>1. \A i \in DOMAIN chan' : i \in DOMAIN chan /\ chan'[i].open = chan[i].open
    <3>1. CASE \A i \in DOMAIN chan' : i \in DOMAIN chan /\ chan'[i] = chan[i]
      BY <3>1
    <3>2. ASSUME DOMAIN chan' \subseteq DOMAIN chan,
                 \A i \in DOMAIN chan' :
                    chan'[i] = chan[i] \/ \E q : chan'[i] = [chan[i] EXCEPT !.q = q]
          PROVE  \A i \in DOMAIN chan' : i \in DOMAIN chan /\ chan'[i].open = chan[i].open
      BY <3>2, ConsumerTyped DEF Channels
    <3>3. CASE AwaitFrame
      <4>1. chan' = chan \/ \E q : chan' = [chan EXCEPT ![con.rx] = [chan[con.rx] EXCEPT !.q = q]]
        BY <3>3 DEF AwaitFrame
      <4>2. CASE chan' = chan
        BY <3>1, <4>2
      <4>3. ASSUME NEW q, chan' = [chan EXCEPT ![con.rx] = [chan[con.rx] EXCEPT !.q = q]]
            PROVE  /\ DOMAIN chan' \subseteq DOMAIN chan
                   /\ \A i \in DOMAIN chan' :
                        chan'[i] = chan[i] \/ chan'[i] = [chan[i] EXCEPT !.q = q]
        BY <4>3
      <4> QED
        BY <3>2, <4>1, <4>2, <4>3
    <3>4. CASE SelectFrame
      <4>1. PICK n : TakeFrames(n)
        BY <3>4 DEF SelectFrame
      <4> QED
        BY <3>2, <4>1 DEF TakeFrames
    <3>5. CASE ~AwaitFrame /\ ~SelectFrame
      BY <3>1, <3>5 DEF Consumer, RunCanvasCommands, Handshake, SeekFrameArrives, SeekFrame, CheckEpoch,
         UploadFrame, WriteBack, WritesBack, KeepHeld
    <3> QED
      BY <3>3, <3>4, <3>5
  <2> QED
    BY <1>2, <2>1 DEF Flow, Opened
<1>5. Reported'
  <2>1. Reported /\ events \in Seq(Reports)
    BY DEF Flow, TypeOK
  <2>2. CASE WriteBack /\ Ended /\ events' # events
    <3> DEFINE report == [kind |-> IF con.terminal = Eof THEN "eof" ELSE "failed",
                          epoch |-> con.epoch]
    <3>1. events' = Append(events, report)
      BY <2>2 DEF WriteBack, WritesBack
    <3>2. report.epoch \in 1 .. ctl.epoch
      BY <2>2, ConsumerTyped DEF Ended, Turn
    <3> HIDE DEF report
    <3>3. \A i \in DOMAIN events' :
             (i \in DOMAIN events /\ events'[i] = events[i]) \/ events'[i] = report
      BY <2>1, <3>1
    <3> QED
      BY <1>3, <2>1, <3>2, <3>3 DEF Reported
  <2>3. CASE events' = events
    BY <1>3, <2>1, <2>3 DEF Reported
  <2>4. events' = events \/ (WriteBack /\ Ended)
    BY DEF Consumer, RunCanvasCommands, Handshake, AwaitFrame, SeekFrameArrives, SeekFrame,
       SelectFrame, CheckEpoch, UploadFrame, WriteBack, WritesBack
  <2> QED
    BY <2>2, <2>3, <2>4
<1>6. ASSUME win.pc # "spawn"
      PROVE  (OneStream /\ QueueInOrder /\ EndInOrder)'
  BY <1>6, FlowHandshake, FlowAwaits, FlowPeeks, FlowUploads, FlowSelects, FlowWritesBack DEF Consumer
<1> QED
  BY <1>1, <1>2, <1>4, <1>5, <1>6 DEF Flow

LEMMA NextFlow == TypeOK /\ TypeOK' /\ Flow /\ [Next]_vars => Flow'
<1> SUFFICES ASSUME TypeOK, TypeOK', Flow, [Next]_vars PROVE Flow'
  OBVIOUS
<1>1. CASE Operator \/ EventLoop
  <2>1. con' = con
    BY <1>1, EventLoopLeaves
  <2>3. events' = events \/ (events # <<>> /\ events' = Tail(events))
    <3>1. CASE Operator
      BY <3>1 DEF Operator, Play, StartVideo, Stop, ChangeProject, StopAll, ShowImage, ShowText,
         StopText, Pause, Resume, Seek, SeekWith, FrameStep, FrameStepBack, StopVideo, StopImage
    <3>2. CASE EventLoop
      BY <3>2 DEF EventLoop, SpawnDecode, StartPutOff, StartDecode, StartsDecode, EventIgnored,
         VideoEnds, VideoLoops, RetryDecode, GiveUp, FoldShowDelta, FadeDone, Event
    <3> QED
      BY <1>1, <3>1, <3>2
  <2>4. FewerEvents
    BY <2>3, EventsLeft
  <2>5. GoesOn \/ StartsAnew
    BY <1>1, OperatorStreams, EventLoopStreams
  <2> QED
    BY <2>1, <2>4, <2>5, FlowAnew, FlowGoesOn
<1>2. CASE Tick \/ UNCHANGED vars
  <2>1. UNCHANGED <<win, chan, dec, con, events>>
    BY <1>2, TickLeaves DEF vars
  <2>2. /\ ctl'.epoch = ctl.epoch /\ ctl'.rx = ctl.rx /\ ctl'.last = ctl.last
        /\ ctl'.seek = ctl.seek /\ ctl'.peek = ctl.peek
    BY <1>2, TickLeaves DEF vars, TypeOK, Controls
  <2>3. GoesOn /\ FewerEvents
    BY <2>1, <2>2, EventsLeft DEF GoesOn, SameChannels
  <2> QED
    BY <2>1, <2>3, FlowGoesOn
<1> QED
  BY <1>1, <1>2, FlowDecoder, FlowConsumer, Steps

\* No frame is passed over: the event loop learns of the end of a stream only
\* when its last frame has been shown, and a step by hand shows the next one
\* (video_consume_thread, video_decode_thread, frame_step).
THEOREM FramesCorrect == Spec => []FramesInOrder
<1>1. Init => TypeOK /\ Flow
  BY InitTypes, InitFlow
<1>2. TypeOK /\ Flow /\ [Next]_vars => TypeOK' /\ Flow'
  BY NextTypes, NextFlow
<1>3. Flow => FramesInOrder
  BY FlowShowsInOrder
<1> QED
  BY <1>1, <1>2, <1>3, PTL DEF Spec
=============================================================================
