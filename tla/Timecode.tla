-------------------------------- MODULE Timecode --------------------------------
(***************************************************************************)
(* A video that chases timecode: a source outside the program, the MIDI    *)
(* receiver (callback and event loop share atomics) or the LTC receiver    *)
(* (the event loop decodes what the capture queued), and drive_mtc_follow, *)
(* which holds, nudges or reopens the picture once per turn of the loop.   *)
(*                                                                         *)
(* One unit of time is half a message of the source.  A MIDI message has   *)
(* two pieces, the low digit and the high digit of its position; an LTC    *)
(* frame comes whole, at its end.  The show is not paused.                 *)
(***************************************************************************)
EXTENDS Integers, Sequences, FiniteSets

CONSTANTS
    Kinds,        \* the receivers checked: a subset of {"mtc", "ltc"}
    MaxPos,       \* the source's last position
    Digit,        \* values of a position's low digit
    Offset,       \* source position that is the video's start (mtc_start)
    Deadband, HardSync, Floor, Timeout,
    MaxLost,      \* frames LTC may lose in a continued sequence
    MaxLoop,      \* units of time between two turns of the event loop, at most
    Settle,       \* units left alone after which the follow is judged
    Starts,       \* positions the source and the cue are moved to
    MaxMoves,     \* what the operator does to the source and the cue
    MaxFaults     \* pieces or frames lost or misread

ASSUME TimecodeAssumption ==
    /\ Kinds \subseteq {"mtc", "ltc"}
    /\ {MaxPos, Digit, Offset, Deadband, HardSync, Floor, Timeout, MaxLost,
        MaxLoop, Settle, MaxMoves, MaxFaults} \subseteq Nat
    /\ Deadband < HardSync /\ Digit % 2 = 0 /\ Digit > 0 /\ MaxLoop > 0
    /\ Starts \subseteq {p \in 0 .. MaxPos - 1 : p % 2 = 0}

VARIABLES
    kind,     \* the receiver built from the settings
    src,      \* the source: where it is, whether it plays
    dec,      \* MtcDecoder: the message each piece was taken from, those seen
    ltc,      \* LtcReceiver: expected, mismatches, frames captured and drained
    pub,      \* TimecodeState: position and playing
    heard,    \* units since last_qf_ms, last_frame_at
    loop,     \* where the event loop is, what tick read, units since its turn
    follow,   \* MtcFollowState: hold_position, last_mtc_secs, last_mtc_at
    video,    \* the presentation clock and the last picture decoded
    syncAge,  \* units since last_hard_sync
    steady,   \* history: units since source or cue was touched, or a position untold
    back,     \* history: how far the picture was set back since it was reopened
    moves, faults

timecodeVars == <<kind, src, dec, ltc, pub, heard, loop, follow, video, syncAge,
                  steady, back, moves, faults>>

NoHold == -1
NoFrame == -1
Top == MaxPos + Digit            \* bound: where the model's clocks stop counting
Long == Timeout + HardSync + 1   \* bound: ages beyond it are one

Least(a, b) == IF a < b THEN a ELSE b
Most(a, b) == IF a > b THEN a ELSE b
Gap(a, b) == Most(a - b, b - a)
Older(age, bound) == Least(age + 1, bound)

Target(secs) == Most(secs - Offset, 0)

\* video_paused_position
Current(f, v) == IF f.hold # NoHold THEN f.hold ELSE v.clock

NoFollow == [on |-> FALSE, hold |-> NoHold, secs |-> 0, age |-> 0]

TimecodeInit ==
    /\ kind \in Kinds
    /\ src = [pos |-> 0, playing |-> FALSE]
    /\ dec = [from |-> <<0, 0>>, seen |-> {}]
    /\ ltc = [expected |-> NoFrame, mismatches |-> 0, queue |-> <<>>, due |-> <<>>]
    /\ pub = [pos |-> 0, playing |-> FALSE]
    /\ heard = Timeout + 1
    /\ loop = [at |-> "refresh", expired |-> FALSE, dt |-> 0]
    /\ follow = NoFollow
    /\ video = [clock |-> 0, shown |-> 0]
    /\ syncAge = Floor
    /\ steady = 0
    /\ back = 0
    /\ moves = 0
    /\ faults = 0

-----------------------------------------------------------------------------
(* The receivers.                                                          *)

\* Assembles a position: its low digit from the first piece's message, its
\* high digit from the second's.
Assemble(from) == (from[1] % Digit) + Digit * (from[2] \div Digit)

\* feed_quarter_frame and handle_midi_message on piece i of message m.
QuarterFrame(i, m) ==
    LET from == [dec.from EXCEPT ![i] = m]
        seen == dec.seen \cup {i}
        whole == seen = {1, 2}
    IN  /\ dec' = [from |-> from, seen |-> IF whole THEN {} ELSE seen]
        /\ pub' = [pos |-> IF whole THEN Assemble(from) ELSE pub.pos,
                   playing |-> TRUE]
        /\ heard' = 0
        /\ UNCHANGED ltc

Continues(expected, frame) ==
    \E lost \in 0 .. MaxLost : frame = expected + 2 * lost

\* accept_frame: one frame that breaks the sequence is dropped.
AcceptFrame(frame) ==
    IF ltc.expected # NoFrame /\ ~Continues(ltc.expected, frame) /\ ltc.mismatches = 0
    THEN /\ ltc' = [ltc EXCEPT !.due = Tail(@), !.mismatches = 1]
         /\ UNCHANGED <<pub, heard>>
    ELSE /\ ltc' = [ltc EXCEPT !.due = Tail(@), !.mismatches = 0,
                               !.expected = frame + 2]
         /\ pub' = [pos |-> frame, playing |-> TRUE]
         /\ heard' = 0

-----------------------------------------------------------------------------
(* The source, outside the program.  A unit of play sends a piece of the   *)
(* message under way, or at its end the LTC frame.                         *)

Piece(p) == 1 + (p % 2)
Message(p) == p - (p % 2)

Nothing == UNCHANGED <<dec, ltc, pub>> /\ heard' = Older(heard, Timeout + 1)

Sent(p) ==
    \/ kind = "mtc" /\ QuarterFrame(Piece(p), Message(p)) /\ UNCHANGED faults
    \/ /\ kind = "ltc"
       /\ \E read \in {Message(p)} \cup
                      (IF faults < MaxFaults /\ Piece(p) = 2 THEN Starts ELSE {}) :
            /\ ltc' = IF Piece(p) = 2
                      THEN [ltc EXCEPT !.queue = Append(@, read)] ELSE ltc
            /\ faults' = IF read = Message(p) THEN faults ELSE faults + 1
       /\ heard' = Older(heard, Timeout + 1)
       /\ UNCHANGED <<dec, pub>>
    \/ faults < MaxFaults /\ faults' = faults + 1 /\ Nothing

\* The picture is decoded forwards only, up to what the clock shows.
Presented(f, v) == [v EXCEPT !.shown = Most(@, Current(f, v))]

\* The published position is one the source was at, as late as receiver and loop
\* may be.
Told == src.pos - pub.pos \in 0 .. 1 + MaxLoop + loop.dt

\* A unit of time passes.
Pass ==
    /\ loop.dt < MaxLoop
    /\ loop' = [loop EXCEPT !.dt = @ + 1]
    /\ IF src.playing
       THEN /\ Sent(src.pos)
            /\ src' = [pos |-> src.pos + 1, playing |-> src.pos + 1 < MaxPos]
            /\ steady' = IF src'.playing /\ (dec.seen # {} /\ dec'.seen = {} => Told')
                         THEN Older(steady, Settle) ELSE 0
       ELSE Nothing /\ steady' = Older(steady, Settle) /\ UNCHANGED <<src, faults>>
    /\ follow' = [follow EXCEPT !.age = Older(@, Long)]
    /\ video' = IF follow.on
                THEN Presented(follow, [video EXCEPT !.clock = Older(@, Top)])
                ELSE video
    /\ syncAge' = Older(syncAge, Floor)
    /\ UNCHANGED <<kind, back, moves>>

Move == moves < MaxMoves /\ moves' = moves + 1 /\ steady' = 0

Play ==
    /\ Move
    /\ ~src.playing /\ src.pos < MaxPos
    /\ src' = [src EXCEPT !.playing = TRUE]
    /\ UNCHANGED <<kind, dec, ltc, pub, heard, loop, follow, video, syncAge, back, faults>>

StopSource ==
    /\ Move
    /\ src.playing
    /\ src' = [src EXCEPT !.playing = FALSE]
    /\ UNCHANGED <<kind, dec, ltc, pub, heard, loop, follow, video, syncAge, back, faults>>

\* A stopped MIDI source says where it was moved to in a full frame.
Locate(p) ==
    /\ Move
    /\ src' = [src EXCEPT !.pos = p]
    /\ pub' = IF kind = "mtc" /\ ~src.playing
              THEN [pos |-> p, playing |-> FALSE] ELSE pub
    /\ UNCHANGED <<kind, dec, ltc, heard, loop, follow, video, syncAge, back, faults>>

-----------------------------------------------------------------------------
(* The cue.                                                                *)

\* PlayVideo of a cue that follows timecode: held at its start.
StartCue ==
    /\ ~follow.on
    /\ follow' = [on |-> TRUE, hold |-> 0, secs |-> 0, age |-> 0]
    /\ video' = [clock |-> 0, shown |-> 0]
    /\ steady' = 0 /\ back' = 0
    /\ UNCHANGED <<kind, src, dec, ltc, pub, heard, loop, syncAge, moves, faults>>

\* stop_external_outputs
StopCue ==
    /\ Move
    /\ follow.on
    /\ follow' = NoFollow
    /\ UNCHANGED <<kind, src, dec, ltc, pub, heard, loop, video, syncAge, back, faults>>

\* A seek of the cue by the operator.
SeekCue(p) ==
    /\ Move
    /\ follow.on
    /\ follow' = [follow EXCEPT !.hold = IF @ = NoHold THEN @ ELSE p]
    /\ video' = [clock |-> p, shown |-> p]
    /\ back' = 0
    /\ UNCHANGED <<kind, src, dec, ltc, pub, heard, loop, syncAge, faults>>

-----------------------------------------------------------------------------
(* drive_mtc_follow, on the timecode tc.                                   *)

MayReopen == syncAge >= Floor

\* mtc_hard_sync, mtc_reanchor, nudge_video_clock.
Reopened(t) == [clock |-> t, shown |-> t]
Reanchored(t) == [video EXCEPT !.clock = t]
HardSynced(t) == IF MayReopen THEN Reopened(t) ELSE video
\* A nudge is a twentieth of the turn at most: of its units some, or none.
Nudged(drift) ==
    {[video EXCEPT !.clock = Most(0, @ + n)] :
        n \in Least(0, Most(-loop.dt, drift)) .. Most(0, Least(loop.dt, drift))}

Extrapolated(f, tc) == IF tc.playing THEN Least(tc.pos + f.age, Top) ELSE tc.pos

LocateActionHolds(drift, mayReopen) == \* mutant: a reopening that is put off holds too
    [sync |-> mayReopen /\ Gap(drift, 0) > Deadband, hold |-> TRUE]

\* locate_action
LocateAction(drift, mayReopen) ==
    IF Gap(drift, 0) <= Deadband THEN [sync |-> FALSE, hold |-> TRUE]
    ELSE [sync |-> mayReopen, hold |-> mayReopen]

\* drift_action
Corrected(drift, target) ==
    CASE loop.dt = 0 \/ Gap(drift, 0) <= Deadband -> {video}
      [] loop.dt > 0 /\ Gap(drift, 0) > HardSync -> {HardSynced(target)}
      [] OTHER -> Nudged(drift)

\* Once the source plays, the picture is freed.
Chased(hold, target) ==
    IF hold = NoHold THEN Corrected(target - video.clock, target)
    ELSE IF Gap(target, hold) > HardSync THEN {HardSynced(target)}
    ELSE {Reanchored(target)}

HeldFast(hold) == hold \* mutant: a source that plays does not end the hold

FreedHold(hold) == NoHold

\* A position that differs from the last one is noted with its time.
Noted(tc) == IF tc.pos = follow.secs THEN follow
             ELSE [follow EXCEPT !.secs = tc.pos, !.age = 0]

Drive(tc) ==
    LET f == Noted(tc)
        target == Target(Extrapolated(f, tc))
        current == Current(f, video)
        act == LocateAction(target - current, MayReopen)
        sync == /\ MayReopen
                /\ IF tc.playing THEN /\ Gap(target, current) > HardSync
                                      /\ f.hold # NoHold \/ loop.dt > 0
                   ELSE act.sync
        jumped == IF tc.playing THEN f.hold # NoHold ELSE Gap(target, current) <= Deadband
    IN  /\ follow' = [f EXCEPT !.hold =
                        IF tc.playing THEN FreedHold(@)
                        ELSE IF act.hold THEN target ELSE @]
        /\ video' \in IF tc.playing THEN Chased(f.hold, target)
                      ELSE {IF act.sync THEN HardSynced(target) ELSE video}
        /\ syncAge' = IF sync THEN 0 ELSE syncAge
        /\ back' = IF sync THEN 0
                   ELSE IF jumped THEN back + Most(current - Current(follow', video'), 0)
                   ELSE back

\* tick reads the age of the last piece before it clears `playing`.
Expired == kind = "mtc" /\ heard > Timeout

\* refresh drains what was captured.
Drained == [ltc EXCEPT !.due = ltc.queue, !.queue = <<>>]

LoopRefresh ==
    /\ loop.at = "refresh"
    /\ loop' = [loop EXCEPT !.at = "drive", !.expired = Expired]
    /\ ltc' = Drained
    /\ UNCHANGED <<kind, src, dec, pub, heard, follow, video, syncAge, steady, back,
                   moves, faults>>

\* refresh goes on with the frames it drained, one after the other.
LoopDecode ==
    /\ loop.at = "drive" /\ ltc.due # <<>>
    /\ AcceptFrame(Head(ltc.due))
    /\ UNCHANGED <<kind, src, dec, loop, follow, video, syncAge, back, moves, faults>>
    /\ steady' = IF src.playing /\ ltc'.mismatches = 0 /\ ~Told' THEN 0 ELSE steady

\* The timeouts of refresh and of tick, clone_state and drive_mtc_follow.
LoopDrive ==
    /\ loop.at = "drive" /\ ltc.due = <<>>
    /\ pub' = [pub EXCEPT !.playing = /\ @ /\ ~loop.expired
                                      /\ kind = "ltc" => heard <= Timeout]
    /\ IF follow.on THEN Drive(pub') ELSE UNCHANGED <<follow, video, syncAge, back>>
    /\ loop' = [at |-> "refresh", expired |-> FALSE, dt |-> 0]
    /\ UNCHANGED <<kind, src, dec, ltc, heard, steady, moves, faults>>

-----------------------------------------------------------------------------
TimecodeNext ==
    \/ Pass
    \/ Play
    \/ StopSource
    \/ \E p \in Starts : Locate(p) \/ SeekCue(p)
    \/ StartCue
    \/ StopCue
    \/ LoopRefresh
    \/ LoopDecode
    \/ LoopDrive

TimecodeSpec == TimecodeInit /\ [][TimecodeNext]_timecodeVars

-----------------------------------------------------------------------------
TimecodeTypeOK ==
    /\ kind \in Kinds
    /\ src \in [pos : 0 .. MaxPos, playing : BOOLEAN]
    /\ dec \in [from : [{1, 2} -> 0 .. MaxPos], seen : SUBSET {1, 2}]
    /\ ltc \in [expected : -1 .. MaxPos + 2, mismatches : 0 .. 1,
                queue : Seq(0 .. MaxPos), due : Seq(0 .. MaxPos)]
    /\ pub \in [pos : 0 .. Top, playing : BOOLEAN]
    /\ heard \in 0 .. Timeout + 1
    /\ loop \in [at : {"refresh", "drive"}, expired : BOOLEAN, dt : 0 .. MaxLoop]
    /\ follow \in [on : BOOLEAN, hold : -1 .. Top, secs : 0 .. Top, age : 0 .. Long]
    /\ video \in [clock : 0 .. Top, shown : 0 .. Top]
    /\ syncAge \in 0 .. Floor /\ steady \in 0 .. Settle
    /\ back \in Nat /\ moves \in 0 .. MaxMoves /\ faults \in 0 .. MaxFaults

\* What the receiver and the loop cost: a message ends two units after its
\* position and is captured in one turn of the loop, to be seen in the next.  A
\* picture that is off by less than a hard sync is nudged, how soon is left open;
\* one that was just reopened may run ahead while the source is before the cue.
Tolerance == 1 + 2 * MaxLoop + Most(HardSync, Floor)

\* A source that has played for a while is followed: however it was stopped,
\* moved and started before, whatever piece or frame was lost or misread as long
\* as the positions published are those it was at, and whether the operator sought
\* the cue or not, the picture is where the source is, up to a hard sync and what
\* the receiver and the loop cost (drive_mtc_follow, accept_frame).
FollowKeepsUp ==
    follow.on /\ src.playing /\ steady >= Settle =>
        Gap(Current(follow, video), Target(src.pos)) <= Tolerance

\* Once the source has been left alone for a while the picture has landed: it is
\* frozen on the position the source was last heard at, and the picture decoded
\* is of that place and not of one the source was scrubbed through, also when a
\* reopening was put off (locate_action, mtc_hard_sync).  Only what is too little
\* for a reopening is not made up for: the steps back of `back` and one nudge.
FollowLands ==
    follow.on /\ ~src.playing /\ steady >= Settle =>
        /\ follow.hold = Target(pub.pos)
        /\ video.shown \in follow.hold .. follow.hold + back + MaxLoop

\* A picture that is held is one of where it is held ("snaps the video to the
\* matching frame and freezes it there").
HeldPictureMatches ==
    follow.on /\ follow.hold # NoHold => Gap(video.shown, follow.hold) <= HardSync

\* A picture that is held where the source stopped goes on near the source when
\* it plays again, however long it stood (main.rs: "No extrapolation while
\* stopped").
FreedNearSource ==
    [][ /\ follow.hold = Target(pub.pos) /\ pub.pos = follow.secs
        /\ follow.on /\ follow'.on /\ follow'.hold = NoHold
        => Gap(video'.clock, Target(src.pos)) <= HardSync ]_timecodeVars

\* A published position is one the source was at: its digits come from the same
\* message ("reassembles the 8 quarter-frame messages that encode one SMPTE
\* position").
PositionIsOneMessage ==
    [][ kind = "mtc" /\ dec'.seen = {} /\ dec.seen # {}
        => pub'.pos = dec'.from[1] \/ pub'.pos = dec'.from[2] ]_timecodeVars
=============================================================================
