---------------------------- MODULE VideoStream ----------------------------
(***************************************************************************)
(* How the picture of a video, image or text cue gets to the canvas: the   *)
(* handlers of the event loop (crates/cuepool/src/main.rs), the consume    *)
(* thread and the decode thread (crates/cuepool/src/video_pipeline.rs).    *)
(*                                                                         *)
(*   - The event loop owns what the operator does.  A handler that plays,  *)
(*     seeks or steps back takes the lock of VideoControl (`ctl`) several  *)
(*     times, and the consume thread may run in between.                   *)
(*   - The decode thread sends frames and an end or failure marker through *)
(*     a bounded channel.  A new one starts only when the one before is    *)
(*     gone; until then the newest request waits (`app.pending`).          *)
(*   - The consume thread takes over the receiver, uploads the frames that *)
(*     are due and reports the end to the event loop.                      *)
(*                                                                         *)
(* Every stream has an epoch, raised by each change of what plays; work    *)
(* done under an older one must be thrown away.                            *)
(*                                                                         *)
(* Time is measured in frames.  A clock anchored at an instant is kept as  *)
(* the media position it shows, which `Tick` moves while the clock runs.   *)
(***************************************************************************)
EXTENDS Integers, Sequences

CONSTANTS
    Frames,      \* number of frames of every video file
    QueueCap,    \* VIDEO_QUEUE_CAP
    MaxRetries,  \* MAX_VIDEO_OPEN_RETRIES
    MediaOffset, \* start_time of the video cues: the frame at which they begin
    MaxLate,     \* bound: frames that pass while output windows are created
    Lookahead,   \* bound: frames between two refreshes of the display
    Scripts,     \* bound: the sequences of commands an operator gives
    MaxLoops,    \* bound: restarts of a looped video
    Modes,       \* loop modes of the video cues
    Faults       \* what may go wrong: "OpenFails", "ReadFails", "Timeout"

ASSUME StreamAssumption ==
    /\ Frames \in Nat \ {0} /\ QueueCap \in Nat \ {0} /\ MaxRetries \in Nat
    /\ MediaOffset \in 0 .. Frames - 1 /\ MaxLate \in Nat /\ Lookahead \in Nat
    /\ MaxLoops \in Nat
    /\ Modes \subseteq {"OneShot", "Looped", "HoldLast"}

VARIABLES
    cue,     \* the show engine's current_video; its media positions start at 0
    image,   \* the show engine's current_picture_qid is set
    paused,  \* App::paused, ShowEngine::paused and VideoControl::paused
    ctl,     \* VideoControl
    app,     \* fields of App: pending_video_decode, video_open_retries,
             \* current_video_qid (shown), current_text_qid (text)
    win,     \* the handler the event loop is in
    cmds,    \* the channel of CanvasCommands
    chan,    \* the channels from decoders, by the epoch of their stream
    dec,     \* the decode thread
    con,     \* the consume thread
    canvas,  \* the canvas texture
    lit,     \* OutputFrameState::has_content
    events,  \* AppEvents on their way to the event loop
    script,  \* bound: the commands still to come
    skew,    \* history: frames stepped or clamped since the last play or seek
    adrift   \* history: the video was started during a pause

engine == <<cue, image, paused>>
output == <<canvas, lit>>
history == <<skew, adrift>>
vars == <<engine, ctl, app, win, cmds, chan, dec, con, output, events, script, history>>

None == -1      \* Option::None of a frame or position
Eof == Frames   \* VideoMessage::Eof and VideoMessage::Failed
Failed == Frames + 1
FrameNumbers == 0 .. Frames - 1

LesserOf(m, n) == IF m <= n THEN m ELSE n
GreaterOf(m, n) == IF m >= n THEN m ELSE n

NoCue == [inst |-> 0, mode |-> "OneShot", pos |-> 0, frozen |-> FALSE, loops |-> 0]
NoSeek == [at |-> None, adjust |-> FALSE]
NoRequest == [from |-> None, seek |-> NoSeek, clamp |-> FALSE]
Asleep == [pc |-> "idle", req |-> NoRequest]
NoDecoder == [alive |-> FALSE, stop |-> FALSE, id |-> 0, from |-> None,
              clamp |-> FALSE, pc |-> "open", next |-> 0]
Unbound == [pc |-> "cmds", rx |-> 0, epoch |-> 0, inst |-> 0, peek |-> None, terminal |-> 0,
            consumed |-> None, msg |-> None, req |-> NoSeek]
Black == [kind |-> "black", inst |-> 0]
NoCanvas == [Black EXCEPT !.kind = "none"]
Still == [Black EXCEPT !.kind = "image"]

\* A channel lives as long as somebody holds its receiver.
KeepHeld(inControl, inConsumer) ==
    chan' = [i \in DOMAIN chan \cap {inControl, inConsumer} |-> chan[i]]

Init ==
    /\ cue = NoCue /\ image = FALSE /\ paused = FALSE
    /\ ctl = [epoch |-> 0, rx |-> 0, on |-> FALSE, pos |-> 0, frozen |-> FALSE,
              step |-> FALSE, peek |-> None, last |-> None, seek |-> NoSeek,
              delta |-> None, fade |-> FALSE, hasFrame |-> FALSE]
    /\ app = [pending |-> FALSE, req |-> NoRequest, retries |-> 0, plays |-> 0,
              shown |-> "none", text |-> FALSE]
    /\ win = Asleep
    /\ cmds = <<>>
    /\ chan = <<>>
    /\ dec = NoDecoder
    /\ con = Unbound
    /\ canvas = NoCanvas
    /\ lit = FALSE
    /\ events = <<>>
    /\ script \in Scripts
    /\ skew = 0 /\ adrift = FALSE

-----------------------------------------------------------------------------
(* The event loop: changing what plays *)

Idle == win.pc = "idle"
Command(name) ==
    /\ Idle
    /\ script # <<>>
    /\ Head(script) = name
    /\ script' = Tail(script)

\* The handler goes on to spawn_video_decode.
Decode(from, seek, clamp) ==
    win' = [pc |-> "spawn", req |-> [from |-> from, seek |-> seek, clamp |-> clamp]]

FirstFrame == IF MediaOffset > 0 THEN MediaOffset ELSE None

\* play_video up to spawn_video_decode, behind the engine's PlayVideo: a clock
\* that has run for `late` frames when the output windows are ready.
StartVideo(c, late) ==
    /\ cue' = [c EXCEPT !.pos = IF paused THEN 0 ELSE late, !.frozen = paused]
    /\ ctl' = [ctl EXCEPT !.epoch = @ + 1, !.on = TRUE, !.pos = MediaOffset + late,
                          !.frozen = FALSE, !.peek = None, !.last = None,
                          !.hasFrame = FALSE, !.fade = FALSE, !.seek = NoSeek]
    /\ app' = [app EXCEPT !.retries = 0, !.shown = "video", !.plays = c.inst]
    /\ cmds' = Append(cmds, "resize")
    /\ Decode(FirstFrame, NoSeek, FALSE)
    /\ skew' = 0
    /\ adrift' = paused

Play ==
    /\ Command("Play")
    /\ \E mode \in Modes, late \in 0 .. MaxLate :
        StartVideo([NoCue EXCEPT !.inst = app.plays + 1, !.mode = mode], late)
    /\ image' = FALSE
    /\ UNCHANGED <<paused, chan, dec, con, output, events>>

\* stop_video_playback, with the further canvas commands of its caller.
StopPlayback(further) ==
    /\ ctl' = [ctl EXCEPT !.epoch = @ + 1, !.rx = 0, !.on = FALSE, !.pos = 0,
                          !.peek = None, !.last = None, !.hasFrame = FALSE,
                          !.fade = FALSE, !.seek = NoSeek]
    /\ app' = [app EXCEPT !.pending = FALSE, !.req = NoRequest, !.shown = "none"]
    /\ dec' = [dec EXCEPT !.stop = dec.alive]
    /\ cmds' = cmds \o further
    /\ skew' = 0

FadePlayback ==
    /\ ctl' = [ctl EXCEPT !.fade = TRUE]
    /\ UNCHANGED <<app, dec, cmds, skew>>

\* A Stop cue on the video: the engine forgets it at once, also when it fades.
StopVideo(fades) ==
    /\ Command(IF fades THEN "Fade" ELSE "Stop")
    /\ cue # NoCue
    /\ cue' = NoCue
    /\ IF fades THEN FadePlayback ELSE StopPlayback(<<"blank">>)
    /\ KeepHeld(ctl'.rx, con.rx)
    /\ UNCHANGED <<image, paused, win, con, output, events, adrift>>

\* A Stop cue on the image.
StopImage(fades) ==
    /\ Command(IF fades THEN "Fade" ELSE "Stop")
    /\ image
    /\ image' = FALSE
    /\ IF app.shown # "image" THEN UNCHANGED <<ctl, app, dec, cmds, skew>>
       ELSE IF fades THEN FadePlayback ELSE StopPlayback(<<>>)
    /\ KeepHeld(ctl'.rx, con.rx)
    /\ UNCHANGED <<cue, paused, win, con, output, events, adrift>>

\* The transport's Stop, and opening a project, which also drops the canvas.
StopAll(further) ==
    /\ cue' = NoCue
    /\ image' = FALSE
    /\ paused' = FALSE
    /\ LET stopped == [ctl EXCEPT !.frozen = FALSE] IN
       ctl' = [stopped EXCEPT !.epoch = @ + 1, !.rx = 0, !.on = FALSE, !.pos = 0,
                              !.peek = None, !.last = None, !.hasFrame = FALSE,
                              !.fade = FALSE, !.seek = NoSeek]
    /\ app' = [app EXCEPT !.pending = FALSE, !.req = NoRequest, !.shown = "none",
                          !.text = FALSE]
    /\ dec' = [dec EXCEPT !.stop = dec.alive]
    /\ cmds' = cmds \o further
    /\ skew' = 0
    /\ KeepHeld(ctl'.rx, con.rx)
    /\ UNCHANGED <<win, con, output, events, adrift>>

Stop == Command("StopAll") /\ StopAll(<<"blank">>)
ChangeProject == Command("Project") /\ StopAll(<<"blank", "drop">>)

\* An Image cue takes the place of the video.
ShowImage ==
    /\ Command("Image")
    /\ cue' = NoCue
    /\ image' = TRUE
    /\ ctl' = [ctl EXCEPT !.epoch = @ + 1, !.on = FALSE, !.pos = 0, !.rx = 0,
                          !.peek = None, !.last = None]
    /\ app' = [app EXCEPT !.pending = FALSE, !.req = NoRequest, !.shown = "image"]
    /\ dec' = [dec EXCEPT !.stop = dec.alive]
    /\ cmds' = cmds \o <<"ensure", "image">>
    /\ skew' = 0
    /\ KeepHeld(ctl'.rx, con.rx)
    /\ UNCHANGED <<paused, win, con, output, events, adrift>>

\* A Text cue lies over whatever the canvas shows, or over black.
ShowText ==
    /\ Command("Text")
    /\ cmds' = cmds \o <<"ensure">>
                    \o (IF app.shown = "none" /\ ~ctl.hasFrame THEN <<"blank">>
                                                               ELSE <<>>)
    /\ app' = [app EXCEPT !.text = TRUE]
    /\ UNCHANGED <<engine, ctl, win, chan, dec, con, output, events, history>>

StopText ==
    /\ Command("Stop")
    /\ app.text
    /\ app' = [app EXCEPT !.text = FALSE]
    /\ UNCHANGED <<engine, ctl, win, cmds, chan, dec, con, output, events, history>>

-----------------------------------------------------------------------------
(* The event loop: pause, seek and step *)

Pause ==
    /\ Command("Pause")
    /\ ~paused
    /\ paused' = TRUE
    /\ cue' = [cue EXCEPT !.frozen = cue # NoCue]
    /\ ctl' = [ctl EXCEPT !.frozen = TRUE]
    /\ UNCHANGED <<image, app, win, cmds, chan, dec, con, output, events, history>>

\* The clock is moved by the length of the pause: it goes on where it stood.
Resume ==
    /\ Command("Pause")
    /\ paused
    /\ paused' = FALSE
    /\ cue' = [cue EXCEPT !.frozen = FALSE]
    /\ ctl' = [ctl EXCEPT !.frozen = FALSE]
    /\ UNCHANGED <<image, app, win, cmds, chan, dec, con, output, events, history>>

\* seek_video_cue; the engine's position is the target, which may lie behind
\* the end of the media.
SeekWith(offset) ==
    /\ Command("Seek")
    /\ cue # NoCue
    /\ \E t \in 0 .. Frames - MediaOffset + 1 :
        /\ cue' = [cue EXCEPT !.pos = t]
        /\ ctl' = [ctl EXCEPT !.on = TRUE, !.pos = offset + t,
                              !.frozen = paused, !.peek = None, !.last = None]
        /\ Decode(MediaOffset + t,
                  IF paused THEN [at |-> MediaOffset + t, adjust |-> FALSE] ELSE NoSeek,
                  TRUE)
    /\ skew' = 0
    /\ adrift' = FALSE
    /\ UNCHANGED <<image, paused, app, cmds, chan, dec, con, output, events>>

\* Fault: the clock is set to the position in the cue, not in the media.
SeekOnCueTime == SeekWith(0)

Seek == SeekWith(MediaOffset)

\* The clock may have been set to an instant ahead; elapsed() saturates.
Position == GreaterOf(ctl.pos, 0)

\* frame_step with a video: the next frame becomes due; the show clock follows.
FrameStep ==
    /\ Command("Step")
    /\ paused /\ ctl.on
    /\ ctl.peek # None
    /\ LET forward == GreaterOf(ctl.peek - Position, 0) IN
       /\ ctl' = [ctl EXCEPT !.pos = @ + forward, !.step = TRUE]
       /\ skew' = skew + forward
    /\ UNCHANGED <<engine, app, win, cmds, chan, dec, con, output, events, adrift>>

\* frame_step_back: decode again from before the frame that is shown.
FrameStepBack ==
    LET current == IF ctl.last # None THEN ctl.last ELSE Position IN
    /\ Command("StepBack")
    /\ paused /\ ctl.on
    /\ current > 0
    /\ app.shown = "video"
    /\ Decode(current, [at |-> Position, adjust |-> TRUE], FALSE)
    /\ UNCHANGED <<engine, ctl, app, cmds, chan, dec, con, output, events, history>>

-----------------------------------------------------------------------------
(* The event loop: decode threads *)

\* spawn_video_decode: the newest request replaces the one that waits; the old
\* stream is told to stop and its receiver retired.
SpawnDecode ==
    /\ win.pc = "spawn"
    /\ app' = [app EXCEPT !.pending = TRUE, !.req = win.req]
    /\ dec' = [dec EXCEPT !.stop = dec.alive]
    /\ ctl' = [ctl EXCEPT !.epoch = @ + 1, !.rx = 0, !.peek = None]
    /\ win' = [Asleep EXCEPT !.pc = "start"]
    /\ KeepHeld(ctl'.rx, con.rx)
    /\ UNCHANGED <<engine, cmds, con, output, events, script, history>>

\* take_ready_video_decode refuses while the thread before is running.
StartPutOff ==
    /\ win.pc = "start"
    /\ dec.alive
    /\ win' = Asleep
    /\ UNCHANGED <<engine, ctl, app, cmds, chan, dec, con, output, events, script, history>>

StartsDecode ==
    /\ app.pending
    /\ ~dec.alive
    /\ ctl' = [ctl EXCEPT !.epoch = @ + 1, !.rx = ctl.epoch + 1, !.seek = app.req.seek]
    /\ chan' = [i \in (DOMAIN chan \ {ctl.rx}) \cup {ctl.epoch + 1} |->
                    IF i = ctl.epoch + 1 THEN [q |-> <<>>, open |-> TRUE, inst |-> app.plays]
                                         ELSE chan[i]]
    /\ dec' = [NoDecoder EXCEPT !.alive = TRUE, !.id = ctl.epoch + 1,
                                !.from = app.req.from, !.clamp = app.req.clamp]
    /\ app' = [app EXCEPT !.pending = FALSE, !.req = NoRequest]
    /\ win' = Asleep
    /\ UNCHANGED <<engine, cmds, con, output, events, script, history>>

\* Fault: a request that had to wait is not looked at again.
StartDecodeAtOnce == win.pc = "start" /\ StartsDecode

\* start_pending_video_decode, at the end of spawn_video_decode or in a tick.
StartDecode == (win.pc = "start" \/ Idle) /\ StartsDecode

-----------------------------------------------------------------------------
(* The event loop: events and ticks *)

Event(kind) == Idle /\ events # <<>> /\ Head(events).kind = kind /\ events' = Tail(events)
Stale == Head(events).epoch # ctl.epoch \/ cue = NoCue

EventIgnored ==
    /\ Idle /\ events # <<>> /\ events' = Tail(events)
    /\ \/ Stale
       \/ Head(events).kind = "eof" /\ cue.mode = "HoldLast"
    /\ UNCHANGED <<engine, ctl, app, win, cmds, chan, dec, con, output, script, history>>

VideoEnds ==
    /\ Event("eof")
    /\ ~Stale
    /\ cue.mode = "OneShot"
    /\ cue' = NoCue
    /\ StopPlayback(<<"blank">>)
    /\ KeepHeld(ctl'.rx, con.rx)
    /\ UNCHANGED <<image, paused, win, con, output, script, adrift>>

VideoLoops ==
    /\ Event("eof")
    /\ ~Stale
    /\ cue.mode = "Looped"
    /\ cue.loops < MaxLoops
    /\ StartVideo([cue EXCEPT !.loops = @ + 1], 0)
    /\ UNCHANGED <<image, paused, chan, dec, con, output, script>>

\* Open again at the engine's position, as often as the script allows.
RetryDecode ==
    /\ Event("failed")
    /\ ~Stale
    /\ app.retries < MaxRetries
    /\ app' = [app EXCEPT !.retries = @ + 1]
    /\ Decode(cue.pos, NoSeek, FALSE)
    /\ UNCHANGED <<engine, ctl, cmds, chan, dec, con, output, script, history>>

GiveUp ==
    /\ Event("failed")
    /\ ~Stale
    /\ app.retries >= MaxRetries
    /\ cue' = NoCue
    /\ StopPlayback(<<"blank">>)
    /\ KeepHeld(ctl'.rx, con.rx)
    /\ UNCHANGED <<image, paused, win, con, output, script, adrift>>

\* The show clock is given the frames the consume thread has stepped back.
FoldShowDelta ==
    /\ Idle
    /\ ctl.delta # None
    /\ ctl' = [ctl EXCEPT !.delta = None]
    /\ UNCHANGED <<engine, app, win, cmds, chan, dec, con, output, events, script, history>>

\* A Stop cue's fade is over; it stands still while the show is paused.
FadeDone ==
    /\ Idle
    /\ ctl.fade
    /\ ~ctl.frozen
    /\ StopPlayback(<<>>)
    /\ KeepHeld(ctl'.rx, con.rx)
    /\ UNCHANGED <<engine, win, con, output, events, script, adrift>>

-----------------------------------------------------------------------------
(* The decode thread *)

\* A decoder that stops for good.  Its receiver sees it disconnect.
DecoderExits ==
    /\ dec' = NoDecoder
    /\ chan' = [i \in DOMAIN chan |->
                    IF i = dec.id THEN [chan[i] EXCEPT !.open = FALSE] ELSE chan[i]]

DecoderStops ==
    /\ dec.alive
    /\ dec.stop \/ dec.id \notin DOMAIN chan
    /\ DecoderExits
    /\ UNCHANGED <<engine, ctl, app, win, cmds, con, output, events, script, history>>

\* The frame a decoder delivers first: the last one before `from`.
FirstDelivered(from) == IF from = None THEN 0
                        ELSE LesserOf(GreaterOf(from - 1, 0), Frames - 1)

\* The file opens; the length it turns out to have may cut a seek short.
DecoderOpens ==
    LET actual == IF dec.clamp THEN LesserOf(dec.from, Frames) ELSE dec.from
        moved == dec.clamp /\ actual # dec.from /\ ctl.epoch = dec.id IN
    /\ dec.alive /\ dec.pc = "open" /\ ~dec.stop
    /\ dec' = [dec EXCEPT !.pc = "send", !.next = FirstDelivered(actual)]
    /\ ctl' = IF moved THEN [ctl EXCEPT !.on = TRUE, !.pos = actual, !.frozen = paused]
                       ELSE ctl
    /\ skew' = IF moved THEN skew + actual - ctl.pos ELSE skew
    /\ UNCHANGED <<engine, app, win, cmds, chan, con, output, events, script, adrift>>

\* It cannot be opened, or not be read further.
DecoderFails ==
    /\ dec.alive /\ ~dec.stop
    /\ \/ dec.pc = "open" /\ "OpenFails" \in Faults
       \/ dec.pc = "send" /\ dec.next < Frames /\ "ReadFails" \in Faults
    /\ dec' = [dec EXCEPT !.pc = "send", !.next = Failed]
    /\ UNCHANGED <<engine, ctl, app, win, cmds, chan, con, output, events, script, history>>

\* Fault: the end is sent without the last frame.
DecoderSendsEarly ==
    /\ dec.alive /\ dec.pc = "send" /\ ~dec.stop
    /\ dec.id \in DOMAIN chan
    /\ Len(chan[dec.id].q) < QueueCap
    /\ IF dec.next >= Frames - 1
       THEN /\ chan' = [chan EXCEPT ![dec.id].q = Append(@, GreaterOf(dec.next, Eof)),
                                    ![dec.id].open = FALSE]
            /\ dec' = NoDecoder
       ELSE /\ chan' = [chan EXCEPT ![dec.id].q = Append(@, dec.next)]
            /\ dec' = [dec EXCEPT !.next = @ + 1]
    /\ UNCHANGED <<engine, ctl, app, win, cmds, con, output, events, script, history>>

\* send_video_message, when there is room; a marker is the last message.
DecoderSends ==
    /\ dec.alive /\ dec.pc = "send" /\ ~dec.stop
    /\ dec.id \in DOMAIN chan
    /\ Len(chan[dec.id].q) < QueueCap
    /\ IF dec.next >= Frames
       THEN /\ chan' = [chan EXCEPT ![dec.id].q = Append(@, dec.next),
                                    ![dec.id].open = FALSE]
            /\ dec' = NoDecoder
       ELSE /\ chan' = [chan EXCEPT ![dec.id].q = Append(@, dec.next)]
            /\ dec' = [dec EXCEPT !.next = @ + 1]
    /\ UNCHANGED <<engine, ctl, app, win, cmds, con, output, events, script, history>>

Decoder == DecoderStops \/ DecoderOpens \/ DecoderFails \/ DecoderSends

-----------------------------------------------------------------------------
(* The consume thread: one turn of its loop *)

At(pc) == con.pc = pc

\* coalesce_canvas_commands: a drop clears what came before it; of the sizes,
\* and of the pictures, only the last survives.
Sizes == {"resize", "ensure"}
Pictures == {"blank", "image"}
Supersedes(later, earlier) ==
    \/ later = "drop"
    \/ {later, earlier} \subseteq Sizes
    \/ {later, earlier} \subseteq Pictures
Coalesced(commands) ==
    LET Survives(i) == \A j \in i + 1 .. Len(commands) : ~Supersedes(commands[j], commands[i])
        kept == {i \in DOMAIN commands : Survives(i)}
        inOrder == SelectSeq([j \in DOMAIN commands |-> j], LAMBDA j : j \in kept)
    IN  [n \in DOMAIN inOrder |-> commands[inOrder[n]]]

Painted(texture, command) ==
    CASE command = "resize" -> Black
      [] command = "drop" -> NoCanvas
      [] texture = NoCanvas -> IF command = "ensure" THEN Black ELSE NoCanvas
      [] command = "ensure" -> texture
      [] command = "blank" -> Black
      [] command = "image" -> Still

PaintedAll(texture, commands) ==
    LET after[n \in 0 .. Len(commands)] ==
            IF n = 0 THEN texture ELSE Painted(after[n - 1], commands[n])
    IN  after[Len(commands)]

RunCanvasCommands ==
    /\ At("cmds")
    /\ canvas' = PaintedAll(canvas, Coalesced(cmds))
    /\ cmds' = <<>>
    /\ con' = [con EXCEPT !.pc = "hands"]
    /\ UNCHANGED <<engine, ctl, app, win, chan, dec, lit, events, script, history>>

\* The thread forgets the stream it played.
Released(c) == [c EXCEPT !.rx = 0, !.epoch = 0, !.inst = 0, !.peek = None, !.terminal = 0]

\* The control handshake: a superseded stream is dropped, a new receiver taken
\* over, a stopped one retired; then a paused seek is picked up.
Handshake ==
    LET dropped == con.epoch # 0 /\ con.epoch # ctl.epoch
        taken == ctl.rx # 0
        retired == ~ctl.on
        stream == IF retired \/ (dropped /\ ~taken) THEN Released(con)
                  ELSE IF taken THEN [Released(con) EXCEPT !.rx = ctl.rx, !.epoch = ctl.epoch,
                                                           !.inst = chan[ctl.rx].inst]
                  ELSE con
        seeks == stream.epoch = ctl.epoch /\ ctl.seek # NoSeek IN
    /\ At("hands")
    /\ con' = [stream EXCEPT !.pc = IF seeks THEN "wait" ELSE "due",
                             !.peek = IF seeks THEN None ELSE @,
                             !.consumed = None, !.msg = None,
                             !.req = IF seeks THEN ctl.seek ELSE NoSeek]
    /\ ctl' = [ctl EXCEPT !.rx = 0, !.seek = IF seeks THEN NoSeek ELSE @,
                          !.peek = IF dropped \/ taken \/ retired THEN None ELSE @]
    /\ KeepHeld(ctl'.rx, con'.rx)
    /\ UNCHANGED <<engine, app, win, cmds, dec, output, events, script, history>>

\* recv_timeout of a paused seek: a message, a disconnection or, after a second,
\* nothing.
AwaitFrame ==
    /\ At("wait")
    /\ \/ /\ con.rx # 0
          /\ chan[con.rx].q # <<>>
          /\ chan' = [chan EXCEPT ![con.rx].q = Tail(@)]
          /\ con' = [con EXCEPT !.pc = "got", !.msg = Head(chan[con.rx].q)]
       \/ /\ con.rx # 0
          /\ chan[con.rx] = [chan[con.rx] EXCEPT !.q = <<>>, !.open = FALSE]
          /\ con' = [con EXCEPT !.pc = "got", !.msg = Failed]
          /\ UNCHANGED chan
       \/ /\ con.rx = 0 \/ ("Timeout" \in Faults /\ chan[con.rx].q = <<>>)
          /\ con' = [con EXCEPT !.pc = "got"]
          /\ UNCHANGED chan
    /\ UNCHANGED <<engine, ctl, app, win, cmds, dec, output, events, script, history>>

\* The frame of a paused seek is peeked; after a step back both clocks go back
\* to it.
SeekFrame(steps) ==
    LET back == IF con.req.adjust THEN GreaterOf(con.req.at - con.msg, 0) ELSE 0 IN
    /\ At("got")
    /\ IF con.epoch # ctl.epoch
       THEN con' = [Released(con) EXCEPT !.pc = "due", !.msg = None, !.req = NoSeek]
            /\ UNCHANGED <<ctl, history>>
       ELSE IF con.msg = None
       THEN con' = [con EXCEPT !.pc = "due", !.req = NoSeek] /\ UNCHANGED <<ctl, history>>
       ELSE IF con.msg \in FrameNumbers
       THEN /\ con' = [con EXCEPT !.pc = "due", !.peek = con.msg, !.msg = None, !.req = NoSeek]
            /\ ctl' = [ctl EXCEPT !.pos = @ - back, !.peek = con.msg, !.step = steps,
                                  !.delta = IF back > 0 THEN back ELSE @]
            /\ skew' = skew - back
            /\ UNCHANGED adrift
       ELSE /\ con' = [con EXCEPT !.pc = "due", !.rx = 0, !.terminal = con.msg, !.msg = None,
                                  !.req = NoSeek]
            /\ ctl' = [ctl EXCEPT !.peek = None]
            /\ UNCHANGED history
    /\ KeepHeld(ctl'.rx, con'.rx)
    /\ UNCHANGED <<engine, app, win, cmds, dec, output, events, script>>

\* It is the step of this pass, so that it is shown while the pause lasts.
SeekFrameArrives == SeekFrame(TRUE)

\* What the thread has at hand: the peeked frame and the channel.
Queued == IF con.rx = 0 THEN <<>> ELSE chan[con.rx].q
Waiting == (IF con.peek = None THEN <<>> ELSE <<con.peek>>) \o Queued

\* What plays moves on, or by one step; a message is due when it is a frame
\* whose time has come or comes within `ahead`.
Streaming == con.epoch # 0 /\ con.epoch = ctl.epoch
Stepping == Streaming /\ ctl.step
Running == Streaming /\ ctl.on /\ (~paused \/ Stepping)
IsDue(message, ahead) ==
    Running /\ message < Frames /\ message <= Position + ahead

\* The message behind the first n, and the end it may tell of.
Reached(n) == IF n < Len(Waiting) THEN Waiting[n + 1] ELSE None
EndAfter(n) ==
    IF con.rx # 0 /\ Reached(n) = None /\ ~chan[con.rx].open THEN Failed
    ELSE IF Reached(n) >= Frames THEN Reached(n)
    ELSE con.terminal

\* The first n are taken, the last of them to be shown; the next is peeked.
TakeFrames(n) ==
    /\ con' = [con EXCEPT !.pc = IF n > 0 THEN "check" ELSE "wrote",
                          !.consumed = IF n > 0 THEN Waiting[n] ELSE None,
                          !.peek = IF Reached(n) >= Frames THEN None ELSE Reached(n),
                          !.terminal = EndAfter(n),
                          !.rx = IF EndAfter(n) # 0 THEN 0 ELSE @]
    /\ chan' = [i \in DOMAIN chan \ (IF EndAfter(n) = 0 THEN {} ELSE {con.rx}) |->
                    IF i # con.rx THEN chan[i]
                    ELSE [chan[i] EXCEPT !.q = SubSeq(Waiting, n + 2, Len(Waiting))]]

\* Frame selection.  Without a target (paused, or no current stream) one frame
\* is peeked all the same.
SelectFrame ==
    /\ At("due")
    /\ \E ahead \in IF Stepping THEN {0} ELSE 0 .. Lookahead, n \in 0 .. Len(Waiting) :
        /\ \A i \in 1 .. n : IsDue(Waiting[i], ahead)
        /\ n < Len(Waiting) => ~IsDue(Waiting[n + 1], ahead)
        /\ TakeFrames(n)
    /\ ctl' = [ctl EXCEPT !.step = @ /\ ~Streaming]
    /\ UNCHANGED <<engine, app, win, cmds, dec, output, events, script, history>>

\* Immediately before the upload the epoch is tested once more.
CheckEpoch ==
    /\ At("check")
    /\ con' = IF con.epoch # ctl.epoch
              THEN [Released(con) EXCEPT !.pc = "wrote", !.consumed = None]
              ELSE [con EXCEPT !.pc = "upload"]
    /\ KeepHeld(ctl.rx, con'.rx)
    /\ UNCHANGED <<engine, ctl, app, win, cmds, dec, output, events, script, history>>

UploadFrame ==
    /\ At("upload")
    /\ canvas' = IF canvas = NoCanvas THEN canvas
                 ELSE [kind |-> "video", inst |-> con.inst]
    /\ con' = [con EXCEPT !.pc = "wrote"]
    /\ UNCHANGED <<engine, ctl, app, win, cmds, chan, dec, lit, events, script, history>>

\* The write-back: what was done under an older epoch is forgotten.  The end of
\* a current stream goes to the event loop, and the output is published.
Current == con.epoch = ctl.epoch
Ended == Current /\ con.terminal # 0
Lit(hasFrame) == app.shown # "none" \/ app.text \/ hasFrame

WritesBack(peek, ends) ==
    /\ At("wrote")
    /\ ctl' = IF Current
              THEN [ctl EXCEPT !.peek = peek,
                               !.last = IF con.consumed = None THEN @ ELSE con.consumed,
                               !.hasFrame = @ \/ con.consumed # None]
              ELSE ctl
    /\ con' = IF ~Current \/ ends \/ (con.rx = 0 /\ con.peek = None)
              THEN [Released(con) EXCEPT !.pc = "cmds", !.consumed = None]
              ELSE [con EXCEPT !.pc = "cmds", !.consumed = None]
    /\ events' = IF ends
                 THEN Append(events, [kind |-> IF con.terminal = Eof THEN "eof" ELSE "failed",
                                      epoch |-> con.epoch])
                 ELSE events
    /\ KeepHeld(ctl'.rx, con'.rx)
    /\ UNCHANGED <<engine, app, win, cmds, dec, canvas, script, history>>

\* Fault: the end is reported only together with a frame.
WriteBackEndsWithFrame ==
    WritesBack(con.peek, Ended /\ con.consumed # None) /\ lit' = Lit(ctl'.hasFrame)

\* Fault: the output is published only while a stream plays.
WriteBackOfStream ==
    WritesBack(con.peek, Ended) /\ lit' = IF Current THEN Lit(ctl'.hasFrame) ELSE lit

WriteBack == WritesBack(con.peek, Ended) /\ lit' = Lit(ctl'.hasFrame)

Consumer ==
    \/ RunCanvasCommands \/ Handshake \/ AwaitFrame \/ SeekFrameArrives \/ SelectFrame
    \/ CheckEpoch \/ UploadFrame \/ WriteBack

-----------------------------------------------------------------------------
(* Time and the specification *)

ClockRuns == ctl.on /\ ~ctl.frozen
CueRuns == cue # NoCue /\ ~cue.frozen
LastPosition == Frames + 1   \* bound: positions behind the end are alike

\* A frame's time passes for the picture's clock and for the engine's, until
\* one that runs is well behind the end of the media.
Tick ==
    /\ ClockRuns \/ CueRuns
    /\ ClockRuns => ctl.pos < LastPosition
    /\ CueRuns => cue.pos < LastPosition
    /\ ctl' = [ctl EXCEPT !.pos = IF ClockRuns THEN @ + 1 ELSE @]
    /\ cue' = [cue EXCEPT !.pos = IF CueRuns THEN @ + 1 ELSE @]
    /\ UNCHANGED <<image, paused, app, win, cmds, chan, dec, con, output, events,
                   script, history>>

Operator ==
    \/ Play \/ Stop \/ ChangeProject \/ ShowImage \/ ShowText \/ StopText
    \/ Pause \/ Resume \/ Seek \/ FrameStep \/ FrameStepBack
    \/ \E fades \in BOOLEAN : StopVideo(fades) \/ StopImage(fades)

EventLoop ==
    \/ SpawnDecode \/ StartPutOff \/ StartDecode
    \/ EventIgnored \/ VideoEnds \/ VideoLoops \/ RetryDecode \/ GiveUp
    \/ FoldShowDelta \/ FadeDone

Next == Operator \/ EventLoop \/ Decoder \/ Consumer \/ Tick

\* The three threads are scheduled, time passes and files are read.
Fairness ==
    /\ WF_vars(SpawnDecode \/ StartPutOff \/ StartDecode)
    /\ WF_vars(EventIgnored \/ VideoEnds \/ VideoLoops \/ RetryDecode \/ GiveUp)
    /\ WF_vars(FoldShowDelta) /\ WF_vars(FadeDone)
    /\ WF_vars(DecoderStops) /\ WF_vars(DecoderOpens) /\ WF_vars(DecoderSends)
    /\ WF_vars(Consumer)
    /\ WF_vars(Tick)

Spec == Init /\ [][Next]_vars
FairSpec == Spec /\ Fairness

-----------------------------------------------------------------------------
(* Properties *)

Messages == 0 .. Failed
OneFrame == FrameNumbers \cup {None}
Commands == Sizes \cup Pictures \cup {"drop"}
Reports == [kind : {"eof", "failed"}, epoch : Nat]
Seeks == [at : Int, adjust : BOOLEAN]
Requests == [from : Int, seek : Seeks, clamp : BOOLEAN]
Cues == [inst : Nat, mode : Modes \cup {"OneShot"}, pos : Nat, frozen : BOOLEAN,
         loops : 0 .. MaxLoops]
Controls == [epoch : Nat, rx : Nat, on : BOOLEAN, pos : Int, frozen : BOOLEAN,
             step : BOOLEAN, peek : OneFrame, last : OneFrame, seek : Seeks,
             delta : Int, fade : BOOLEAN, hasFrame : BOOLEAN]
Apps == [pending : BOOLEAN, req : Requests, retries : 0 .. MaxRetries, plays : Nat,
         shown : {"none", "video", "image"}, text : BOOLEAN]
Handlers == [pc : {"idle", "spawn", "start"}, req : Requests]
Channels == [q : Seq(Messages), open : BOOLEAN, inst : Nat]
Decoders == [alive : BOOLEAN, stop : BOOLEAN, id : Nat, from : Int, clamp : BOOLEAN,
             pc : {"open", "send"}, next : Messages]
Consumers == [pc : {"cmds", "hands", "wait", "got", "due", "check", "upload", "wrote"},
              rx : Nat, epoch : Nat, inst : Nat, peek : OneFrame,
              terminal : {0, Eof, Failed}, consumed : OneFrame,
              msg : Messages \cup {None}, req : Seeks]

\* A channel has a receiver, which one thread holds.
TypeOK ==
    /\ cue \in Cues
    /\ image \in BOOLEAN /\ paused \in BOOLEAN /\ lit \in BOOLEAN
    /\ ctl \in Controls
    /\ app \in Apps
    /\ win \in Handlers
    /\ cmds \in Seq(Commands)
    /\ \A i \in DOMAIN chan : chan[i] \in Channels /\ Len(chan[i].q) <= QueueCap
    /\ DOMAIN chan \subseteq 1 .. ctl.epoch
    /\ {ctl.rx, con.rx} \ {0} = DOMAIN chan
    /\ con.rx # 0 => con.rx # ctl.rx
    /\ dec \in Decoders
    /\ con \in Consumers
    /\ events \in Seq(Reports)
    /\ skew \in Int /\ adrift \in BOOLEAN

\* The picture is on the cue's time: while the engine plays a video there is a
\* clock for its picture, and the media position of the picture's clock
\* is the one the engine holds for the cue, moved only by the frames stepped by
\* hand and by the end of the media, through every pause, seek, restart, retry
\* and decoder that learns the length late (play_video, seek_video_cue,
\* set_video_paused, video_decode_thread).  A video started during a pause is
\* the exception.
PictureOnCueTime ==
    cue # NoCue /\ ~adrift =>
        /\ ctl.on
        /\ ctl.pos = MediaOffset + cue.pos + skew
        /\ ctl.frozen = paused

\* The event loop learns of the end of a stream only when its last frame has
\* been shown.
EofAfterLastFrame ==
    Idle => \A i \in DOMAIN events :
        events[i].kind = "eof" /\ events[i].epoch = ctl.epoch => ctl.last = Frames - 1

\* What frame_step takes for the next frame is the one the consume thread holds.
PeekIsNext ==
    /\ con.pc \in {"cmds", "hands"}
    /\ con.epoch = ctl.epoch
    => ctl.peek \in {None, con.peek}

\* No frame is passed over: the end is told after the last one, and the next one
\* is the one that a step by hand shows.
FramesInOrder == EofAfterLastFrame /\ PeekIsNext

\* The canvas never shows the picture of another cue than the one that plays,
\* once the commands for it are carried out.
PictureIsCurrent ==
    Idle /\ cmds = <<>> /\ app.shown = "video" /\ canvas.kind # "none" =>
        canvas = Black \/ canvas.inst = app.plays

\* When nothing is shown, nothing is seen, whatever lies over the canvas.
DarkAfterStop ==
    Idle /\ cmds = <<>> /\ At("cmds") /\ app.shown = "none" /\ ~ctl.hasFrame /\ lit =>
        canvas.kind \in {"none", "black"}

\* A one-shot video plays to its end or is given up, unless the show is paused.
PlaysOut ==
    \A i \in 1 .. 2 :
        cue.inst = i /\ cue.mode = "OneShot" ~> cue.inst # i \/ paused

\* The newest request of a decoder is served, however slowly the one before it
\* lets go.
NewestServed == app.pending ~> ~app.pending

\* The picture of a seek during a pause is shown while the pause lasts, unless
\* its decoder fails (the retry asks for no such picture).
PausedSeekShown ==
    ctl.seek # NoSeek /\ ctl.rx # 0 /\ app.retries = 0 ~>
        ctl.last # None \/ ~ctl.on \/ ~paused \/ app.retries > 0

\* What was asked of the decoder last is what it comes to show.
RequestsServed == NewestServed /\ PausedSeekShown

\* With nothing to show the outputs go dark.
GoesDark ==
    app.shown = "none" /\ ~app.text ~> ~lit \/ app.shown # "none" \/ app.text
=============================================================================
