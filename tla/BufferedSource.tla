--------------------------- MODULE BufferedSource ---------------------------
(***************************************************************************)
(* The sample provider that decouples decoding from the audio callback     *)
(* (crates/cuepool-audio/src/buffered_source.rs).                          *)
(*                                                                         *)
(* Three threads share the atomics and the ring of `Inner`:                *)
(*   - the control thread: seek, position and drop;                        *)
(*   - the background thread: bg_loop, the only reader of the source and   *)
(*     the only producer of the ring;                                      *)
(*   - the audio callback: read, the only consumer of the ring.            *)
(* One action is one access to a shared location, so that every            *)
(* interleaving of the three threads is explored (the Acquire / Release    *)
(* orderings are modelled as sequential consistency).                      *)
(*                                                                         *)
(* A sample is its position in the source, 0 .. SourceLen - 1; a position  *)
(* stands for as many frames as one likes.                                 *)
(***************************************************************************)
EXTENDS Integers, Sequences

CONSTANTS
    SourceLen,   \* length of the wrapped source
    RingCap,     \* capacity of the ring (ring_samples)
    ChunkLen,    \* length of bg_loop's `temp` buffer
    CallbackLen, \* length of the buffer the audio callback passes to read
    MaxSeeks     \* bound: number of seeks of a behaviour

ASSUME SizesAssumption ==
    /\ SourceLen \in Nat \ {0}
    /\ RingCap \in Nat \ {0}
    /\ ChunkLen \in Nat \ {0}
    /\ CallbackLen \in Nat \ {0}
    /\ MaxSeeks \in Nat

VARIABLES
    ring,        \* contents of the ring buffer, oldest sample first
    readPos,     \* read_pos
    positionBase,\* position_base
    eof,         \* eof
    shutdown,    \* shutdown
    seekTarget,  \* seek_target
    seekGen,     \* seek_generation
    appliedGen,  \* applied_seek_generation
    resetLock,   \* holder of seek_reset: "free", "reader" or "writer"
    srcPos,      \* read position of the wrapped source
    bg,          \* the background thread: pc and locals
    cb,          \* the audio callback inside read: pc and locals
    ctl,         \* the control thread inside seek or position: pc, locals
    target,      \* history: target of the last completed seek
    heard        \* history: samples handed to the mixer since that seek

shared == <<ring, readPos, positionBase, eof, shutdown, seekTarget, seekGen,
            appliedGen, resetLock, srcPos>>
history == <<target, heard>>
vars == <<shared, bg, cb, ctl, history>>

Positions == 0 .. SourceLen - 1

LesserOf(m, n) == IF m <= n THEN m ELSE n

\* The n samples of the source that start at position p.
Samples(p, n) == [i \in 1 .. n |-> p + i - 1]

\* The three threads outside their functions; locals that are dead are 0.
BgTop == [pc |-> "top", gen |-> 0, seek |-> 0, want |-> 0, from |-> 0, n |-> 0]
CbIdle == [pc |-> "idle", gen |-> 0, n |-> 0, out |-> <<>>]
CtlIdle == [pc |-> "idle", gen |-> 0, base |-> 0, floor |-> 0, out |-> 0]

-----------------------------------------------------------------------------
(* BufferedSource::new *)

Init ==
    /\ ring = <<>>
    /\ readPos = 0
    /\ positionBase = 0
    /\ eof = FALSE
    /\ shutdown = FALSE
    /\ seekTarget = 0
    /\ seekGen = 0
    /\ appliedGen = 0
    /\ resetLock = "free"
    /\ srcPos = 0
    /\ bg = BgTop
    /\ cb = CbIdle
    /\ ctl = CtlIdle
    /\ target = 0
    /\ heard = <<>>

-----------------------------------------------------------------------------
(* The control thread: seek, position, drop.  The main thread is the only   *)
(* caller of the three, so they do not overlap.                             *)

SeekStoreTarget ==
    /\ ctl.pc = "idle"
    /\ ~shutdown
    /\ seekGen < MaxSeeks
    /\ \E t \in Positions : seekTarget' = t
    /\ ctl' = [ctl EXCEPT !.pc = "seek"]
    /\ UNCHANGED <<ring, readPos, positionBase, eof, shutdown, seekGen,
                   appliedGen, resetLock, srcPos, bg, cb, history>>

SeekBumpGeneration ==
    /\ ctl.pc = "seek"
    /\ seekGen' = seekGen + 1
    /\ ctl' = CtlIdle
    /\ target' = seekTarget
    /\ heard' = <<>>
    /\ UNCHANGED <<ring, readPos, positionBase, eof, shutdown, seekTarget,
                   appliedGen, resetLock, srcPos, bg, cb>>

PositionLoadGeneration ==
    /\ ctl.pc = "idle"
    /\ ~shutdown
    /\ ctl' = [ctl EXCEPT !.pc = "posApplied", !.gen = seekGen,
                          !.floor = Len(heard)]
    /\ UNCHANGED <<shared, bg, cb, history>>

PositionLoadApplied ==
    /\ ctl.pc = "posApplied"
    /\ ctl' = [ctl EXCEPT !.pc = IF ctl.gen # appliedGen THEN "posTarget"
                                                         ELSE "posBase"]
    /\ UNCHANGED <<shared, bg, cb, history>>

PositionLoadTarget ==
    /\ ctl.pc = "posTarget"
    /\ ctl' = [ctl EXCEPT !.pc = "posReturn", !.out = seekTarget]
    /\ UNCHANGED <<shared, bg, cb, history>>

PositionLoadBase ==
    /\ ctl.pc = "posBase"
    /\ ctl' = [ctl EXCEPT !.pc = "posRead", !.base = positionBase]
    /\ UNCHANGED <<shared, bg, cb, history>>

PositionLoadRead ==
    /\ ctl.pc = "posRead"
    /\ ctl' = [ctl EXCEPT !.pc = "posReturn", !.base = 0, !.out = ctl.base + readPos]
    /\ UNCHANGED <<shared, bg, cb, history>>

PositionReturn ==
    /\ ctl.pc = "posReturn"
    /\ ctl' = CtlIdle
    /\ UNCHANGED <<shared, bg, cb, history>>

\* The last owner drops the source: no call of read, seek or position is
\* running or follows.
Drop ==
    /\ ctl.pc = "idle"
    /\ cb.pc = "idle"
    /\ ~shutdown
    /\ shutdown' = TRUE
    /\ UNCHANGED <<ring, readPos, positionBase, eof, seekTarget, seekGen,
                   appliedGen, resetLock, srcPos, bg, cb, ctl, history>>

Control ==
    \/ SeekStoreTarget
    \/ SeekBumpGeneration
    \/ PositionLoadGeneration
    \/ PositionLoadApplied
    \/ PositionLoadTarget
    \/ PositionLoadBase
    \/ PositionLoadRead
    \/ PositionReturn
    \/ Drop

-----------------------------------------------------------------------------
(* The background thread: bg_loop *)

BgGoto(pc) == bg' = [bg EXCEPT !.pc = pc]
BgContinue == bg' = BgTop

\* Fault: the eof test comes before the seek test, so a finished source sleeps on.
BgSleepsAtEof ==
    /\ bg.pc = "top"
    /\ BgGoto(IF shutdown THEN "done" ELSE IF eof THEN "top" ELSE "loadGen")
    /\ UNCHANGED <<shared, cb, ctl, history>>

BgCheckShutdown ==
    /\ bg.pc = "top"
    /\ BgGoto(IF shutdown THEN "done" ELSE "loadGen")
    /\ UNCHANGED <<shared, cb, ctl, history>>

\* applied_seek_generation is written by this thread only, so its load and the
\* comparison belong to the load of seek_generation.
BgLoadGeneration ==
    /\ bg.pc = "loadGen"
    /\ bg' = [bg EXCEPT !.gen = seekGen,
                        !.pc = IF seekGen # appliedGen THEN "loadTarget" ELSE "fill"]
    /\ UNCHANGED <<shared, cb, ctl, history>>

BgLoadTarget ==
    /\ bg.pc = "loadTarget"
    /\ bg' = [bg EXCEPT !.seek = seekTarget, !.pc = "lock"]
    /\ UNCHANGED <<shared, cb, ctl, history>>

\* seek_reset.write() blocks while the callback holds a read guard.
BgLockReset ==
    /\ bg.pc = "lock"
    /\ resetLock = "free"
    /\ resetLock' = "writer"
    /\ BgGoto("seekSource")
    /\ UNCHANGED <<ring, readPos, positionBase, eof, shutdown, seekTarget,
                   seekGen, appliedGen, srcPos, cb, ctl, history>>

BgSeekSource ==
    /\ bg.pc = "seekSource"
    /\ srcPos' = bg.seek
    /\ BgGoto("clear")
    /\ UNCHANGED <<ring, readPos, positionBase, eof, shutdown, seekTarget,
                   seekGen, appliedGen, resetLock, cb, ctl, history>>

BgClearRing ==
    /\ bg.pc = "clear"
    /\ ring' = <<>>
    /\ BgGoto("setBase")
    /\ UNCHANGED <<readPos, positionBase, eof, shutdown, seekTarget, seekGen,
                   appliedGen, resetLock, srcPos, cb, ctl, history>>

BgStoreBase ==
    /\ bg.pc = "setBase"
    /\ positionBase' = bg.seek
    /\ BgGoto("zeroRead")
    /\ UNCHANGED <<ring, readPos, eof, shutdown, seekTarget, seekGen,
                   appliedGen, resetLock, srcPos, cb, ctl, history>>

BgZeroReadPos ==
    /\ bg.pc = "zeroRead"
    /\ readPos' = 0
    /\ BgGoto("clearEof")
    /\ UNCHANGED <<ring, positionBase, eof, shutdown, seekTarget, seekGen,
                   appliedGen, resetLock, srcPos, cb, ctl, history>>

\* Fault: the eof flag survives the seek.
BgKeepEof ==
    /\ bg.pc = "clearEof"
    /\ BgGoto("apply")
    /\ UNCHANGED <<shared, cb, ctl, history>>

BgClearEof ==
    /\ bg.pc = "clearEof"
    /\ eof' = FALSE
    /\ BgGoto("apply")
    /\ UNCHANGED <<ring, readPos, positionBase, shutdown, seekTarget, seekGen,
                   appliedGen, resetLock, srcPos, cb, ctl, history>>

BgApplyGeneration ==
    /\ bg.pc = "apply"
    /\ appliedGen' = bg.gen
    /\ BgGoto("unlock")
    /\ UNCHANGED <<ring, readPos, positionBase, eof, shutdown, seekTarget,
                   seekGen, resetLock, srcPos, cb, ctl, history>>

BgUnlockReset ==
    /\ bg.pc = "unlock"
    /\ resetLock' = "free"
    /\ BgGoto("fill")
    /\ UNCHANGED <<ring, readPos, positionBase, eof, shutdown, seekTarget,
                   seekGen, appliedGen, srcPos, cb, ctl, history>>

\* The eof test (eof is written by this thread only) and vacant_len.
BgVacant ==
    /\ bg.pc = "fill"
    /\ LET free == RingCap - Len(ring) IN
       IF eof \/ free = 0
       THEN BgContinue   \* after a sleep
       ELSE bg' = [BgTop EXCEPT !.pc = "read", !.want = LesserOf(ChunkLen, free)]
    /\ UNCHANGED <<shared, cb, ctl, history>>

\* source.read: some of the samples asked for, none at the end of the source.
BgReadSource ==
    /\ bg.pc = "read"
    /\ LET most == LesserOf(bg.want, SourceLen - srcPos) IN
       \E n \in LesserOf(1, most) .. most :
          /\ srcPos' = srcPos + n
          /\ bg' = [BgTop EXCEPT !.from = srcPos, !.n = n,
                                 !.pc = IF n = 0 THEN "setEof" ELSE "push"]
    /\ UNCHANGED <<ring, readPos, positionBase, eof, shutdown, seekTarget,
                   seekGen, appliedGen, resetLock, cb, ctl, history>>

BgStoreEof ==
    /\ bg.pc = "setEof"
    /\ eof' = TRUE
    /\ BgContinue
    /\ UNCHANGED <<ring, readPos, positionBase, shutdown, seekTarget, seekGen,
                   appliedGen, resetLock, srcPos, cb, ctl, history>>

BgPush ==
    /\ bg.pc = "push"
    /\ ring' = ring \o Samples(bg.from, bg.n)
    /\ BgContinue
    /\ UNCHANGED <<readPos, positionBase, eof, shutdown, seekTarget, seekGen,
                   appliedGen, resetLock, srcPos, cb, ctl, history>>

Background ==
    \/ BgCheckShutdown
    \/ BgLoadGeneration
    \/ BgLoadTarget
    \/ BgLockReset
    \/ BgSeekSource
    \/ BgClearRing
    \/ BgStoreBase
    \/ BgZeroReadPos
    \/ BgClearEof
    \/ BgApplyGeneration
    \/ BgUnlockReset
    \/ BgVacant
    \/ BgReadSource
    \/ BgStoreEof
    \/ BgPush

-----------------------------------------------------------------------------
(* The audio callback: read.  Its results are the values of cb.pc on return: *)
(* "audio" (cb.out holds the samples), "silence" and "ended" (0 samples).    *)

CbGoto(pc) == cb' = [cb EXCEPT !.pc = pc]

CbLoadGeneration ==
    /\ cb.pc = "idle"
    /\ ~shutdown
    /\ cb' = [cb EXCEPT !.pc = "check", !.gen = seekGen]
    /\ UNCHANGED <<shared, bg, ctl, history>>

CbCheckApplied ==
    /\ cb.pc = "check"
    /\ CbGoto(IF cb.gen # appliedGen THEN "silence" ELSE "tryRead")
    /\ UNCHANGED <<shared, bg, ctl, history>>

CbTryRead ==
    /\ cb.pc = "tryRead"
    /\ IF resetLock = "free"
       THEN resetLock' = "reader" /\ CbGoto("reload")
       ELSE UNCHANGED resetLock /\ CbGoto("silence")
    /\ UNCHANGED <<ring, readPos, positionBase, eof, shutdown, seekTarget,
                   seekGen, appliedGen, srcPos, bg, ctl, history>>

CbReloadGeneration ==
    /\ cb.pc = "reload"
    /\ cb' = [cb EXCEPT !.pc = "recheck", !.gen = seekGen]
    /\ UNCHANGED <<shared, bg, ctl, history>>

\* Fault: the generations are not compared again under the guard.
CbNoRecheck ==
    /\ cb.pc = "recheck"
    /\ CbGoto("occupied")
    /\ UNCHANGED <<shared, bg, ctl, history>>

\* The generation check under the guard; on success also cons.try_lock, which
\* nobody contends while the guard is held.
CbRecheckApplied ==
    /\ cb.pc = "recheck"
    /\ IF cb.gen # appliedGen
       THEN resetLock' = "free" /\ CbGoto("silence")
       ELSE UNCHANGED resetLock /\ CbGoto("occupied")
    /\ UNCHANGED <<ring, readPos, positionBase, eof, shutdown, seekTarget,
                   seekGen, appliedGen, srcPos, bg, ctl, history>>

CbOccupied ==
    /\ cb.pc = "occupied"
    /\ LET n == LesserOf(CallbackLen, Len(ring)) IN
       cb' = [cb EXCEPT !.n = n, !.pc = IF n = 0 THEN "loadEof" ELSE "pop"]
    /\ UNCHANGED <<shared, bg, ctl, history>>

CbLoadEof ==
    /\ cb.pc = "loadEof"
    /\ CbGoto(IF eof THEN "unlockEnded" ELSE "unlockSilence")
    /\ UNCHANGED <<shared, bg, ctl, history>>

CbPop ==
    /\ cb.pc = "pop"
    /\ cb' = [cb EXCEPT !.pc = "count", !.out = SubSeq(ring, 1, cb.n)]
    /\ ring' = SubSeq(ring, cb.n + 1, Len(ring))
    /\ UNCHANGED <<readPos, positionBase, eof, shutdown, seekTarget, seekGen,
                   appliedGen, resetLock, srcPos, bg, ctl, history>>

\* read_pos.fetch_add.  A callback that validated an older generation than the
\* last completed seek was in flight when the seek came: its samples belong to
\* the timeline before it.
CbCount ==
    /\ cb.pc = "count"
    /\ readPos' = readPos + cb.n
    /\ heard' = IF cb.gen = seekGen THEN heard \o cb.out ELSE heard
    /\ CbGoto("unlockAudio")
    /\ UNCHANGED <<ring, positionBase, eof, shutdown, seekTarget, seekGen,
                   appliedGen, resetLock, srcPos, bg, ctl, target>>

\* The end of the function releases both guards.
CbUnlock ==
    /\ \/ cb.pc = "unlockAudio" /\ CbGoto("audio")
       \/ cb.pc = "unlockSilence" /\ CbGoto("silence")
       \/ cb.pc = "unlockEnded" /\ CbGoto("ended")
    /\ resetLock' = "free"
    /\ UNCHANGED <<ring, readPos, positionBase, eof, shutdown, seekTarget,
                   seekGen, appliedGen, srcPos, bg, ctl, history>>

CbReturn ==
    /\ cb.pc \in {"audio", "silence", "ended"}
    /\ cb' = CbIdle
    /\ UNCHANGED <<shared, bg, ctl, history>>

Callback ==
    \/ CbLoadGeneration
    \/ CbCheckApplied
    \/ CbTryRead
    \/ CbReloadGeneration
    \/ CbRecheckApplied
    \/ CbOccupied
    \/ CbLoadEof
    \/ CbPop
    \/ CbCount
    \/ CbUnlock
    \/ CbReturn

-----------------------------------------------------------------------------
Next == Control \/ Background \/ Callback

\* The operating system runs the background thread; the audio host keeps
\* calling back for as long as the source is in the mixer; a call of seek that
\* has begun ends.
Fairness ==
    /\ WF_vars(Background)
    /\ WF_vars(Callback)
    /\ WF_vars(SeekBumpGeneration)

Spec == Init /\ [][Next]_vars /\ Fairness

-----------------------------------------------------------------------------
(* Properties *)

BgPcs == {"top", "done", "loadGen", "loadTarget", "lock", "seekSource", "clear",
          "setBase", "zeroRead", "clearEof", "apply", "unlock", "fill", "read",
          "setEof", "push"}
CbPcs == {"idle", "check", "tryRead", "reload", "recheck", "occupied",
          "loadEof", "pop", "count", "unlockAudio", "unlockSilence",
          "unlockEnded", "audio", "silence", "ended"}
CtlPcs == {"idle", "seek", "posApplied", "posTarget", "posBase", "posRead",
           "posReturn"}

\* The type invariant of the shared atomics, the ring and the three threads;
\* the ring never holds more than its capacity (push_slice loses nothing).
TypeOK ==
    /\ ring \in Seq(Positions)
    /\ Len(ring) <= RingCap
    /\ readPos \in Nat
    /\ positionBase \in Positions
    /\ eof \in BOOLEAN
    /\ shutdown \in BOOLEAN
    /\ seekTarget \in Positions
    /\ seekGen \in Nat
    /\ appliedGen \in Nat
    /\ resetLock \in {"free", "reader", "writer"}
    /\ srcPos \in 0 .. SourceLen
    /\ bg \in [pc : BgPcs, gen : Nat, seek : Positions, want : Nat,
               from : 0 .. SourceLen, n : Nat]
    /\ cb \in [pc : CbPcs, gen : Nat, n : Nat, out : Seq(Positions)]
    /\ ctl \in [pc : CtlPcs, gen : Nat, base : Positions, floor : Nat, out : Nat]
    /\ target \in Positions
    /\ heard \in Seq(Positions)

\* What is heard after a seek starts at its target and follows the source
\* without a gap, a repeat or a sample of before the seek, whatever seeks,
\* decoding and callbacks overlap (the generation protocol of seek, bg_loop
\* and read).  A call of seek that has stored its target and not yet returned
\* may already be obeyed by a reset that was pending for the seek before it.
StartsAt(p) == \A i \in 1 .. Len(heard) : heard[i] = p + i - 1

HeardFromTarget ==
    \/ StartsAt(target)
    \/ ctl.pc = "seek" /\ StartsAt(seekTarget)

\* position() reports a place in the timeline of the last seek: at least what
\* had been heard when it was called, at most what has been heard when it
\* returns, also while the background thread is resetting the ring.
PositionHonest ==
    ctl.pc = "posReturn" =>
        /\ target + ctl.floor <= ctl.out
        /\ ctl.out <= target + Len(heard)

\* The callback reports the end of the source only if the background thread
\* has read the source to its end since the seek the callback validated (the
\* eof flag of an earlier pass never leaks through a seek).
EndedAtSourceEnd == cb.pc = "unlockEnded" => srcPos = SourceLen

\* A read that returns 0 samples has drained the ring: an empty ring is EOF
\* only when no decoded sample is left (comment of read, mixer.rs `finished`).
EndedMeansDrained == cb.pc = "unlockEnded" => ring = <<>>

-----------------------------------------------------------------------------
(* The inductive invariant behind HeardFromTarget and EndedAtSourceEnd. *)

Guarded == {"reload", "recheck", "occupied", "loadEof", "pop", "count",
            "unlockAudio", "unlockSilence", "unlockEnded"}
Validated == Guarded \ {"reload", "recheck"}
Resetting == {"seekSource", "clear", "setBase", "zeroRead", "clearEof", "apply",
              "unlock"}

\* seek_reset is held by whoever is between its acquisition and its release.
LockInv ==
    /\ (resetLock = "reader") <=> (cb.pc \in Guarded)
    /\ (resetLock = "writer") <=> (bg.pc \in Resetting)

\* A generation is applied once, by a reset to a target at least as new.
SeekObeyed(p) == p = target \/ (ctl.pc = "seek" /\ p = seekTarget)

GenInv ==
    /\ appliedGen <= seekGen
    /\ cb.gen <= seekGen
    /\ cb.pc \in Validated => cb.gen = appliedGen
    /\ ctl.pc # "seek" => seekTarget = target
    /\ bg.pc \in {"loadTarget", "lock"} \cup Resetting => bg.gen <= seekGen
    /\ bg.pc \in {"loadTarget", "lock"} \cup (Resetting \ {"unlock"}) =>
           appliedGen < bg.gen
    /\ bg.pc \in {"lock"} \cup Resetting /\ bg.gen = seekGen => SeekObeyed(bg.seek)
    /\ appliedGen = seekGen => SeekObeyed(positionBase)

\* Samples taken from the ring and not yet counted in read_pos, and samples
\* read from the source and not yet in the ring.
Popped == IF cb.pc = "count" THEN cb.n ELSE 0
InTemp == IF bg.pc = "push" THEN bg.n ELSE 0

\* The ring holds the samples that follow the reported position, and the source
\* stands behind them.
RingInv ==
    /\ \A i \in 1 .. Len(ring) : ring[i] = positionBase + readPos + Popped + i - 1
    /\ cb.pc = "pop" => cb.n <= Len(ring)
    /\ cb.pc = "count" =>
          /\ Len(cb.out) = cb.n
          /\ \A i \in 1 .. cb.n : cb.out[i] = positionBase + readPos + i - 1
    /\ bg.pc \notin {"clear", "setBase", "zeroRead"} =>
          srcPos = positionBase + readPos + Popped + Len(ring) + InTemp
    /\ bg.pc = "read" => bg.want \in 1 .. RingCap - Len(ring)
    /\ bg.pc = "push" => /\ bg.n <= RingCap - Len(ring)
                         /\ bg.from + bg.n = srcPos

ResetInv ==
    /\ bg.pc \in Resetting \ {"seekSource"} => srcPos = bg.seek
    /\ bg.pc \in Resetting \ {"seekSource", "clear"} => ring = <<>>
    /\ bg.pc \in {"zeroRead", "clearEof", "apply", "unlock"} => positionBase = bg.seek
    /\ bg.pc \in {"clearEof", "apply", "unlock"} => readPos = 0

\* What has been heard is what read_pos counts since the last completed seek was
\* applied, and nothing before that.
HeardInv ==
    /\ appliedGen # seekGen => heard = <<>>
    /\ appliedGen = seekGen => /\ Len(heard) = readPos
                               /\ StartsAt(positionBase)

EofInv ==
    /\ eof => bg.pc \notin {"read", "setEof", "push", "apply", "unlock"}
    /\ eof /\ bg.pc \notin {"clear", "setBase", "zeroRead", "clearEof"} =>
           srcPos = SourceLen
    /\ bg.pc = "setEof" => srcPos = SourceLen
    /\ cb.pc = "unlockEnded" => srcPos = SourceLen

IndInv ==
    /\ TypeOK
    /\ LockInv
    /\ GenInv
    /\ RingInv
    /\ ResetInv
    /\ HeardInv
    /\ EofInv

\* The inductive invariant behind PositionHonest: no seek can begin inside a
\* call of position, so the generation it compared stays the newest.
Asking == ctl.pc \notin {"idle", "seek"}

AnswerInv ==
    /\ Asking => ctl.gen = seekGen /\ ctl.floor <= Len(heard)
    /\ ctl.pc = "posTarget" => ctl.floor = 0
    /\ ctl.pc \in {"posBase", "posRead"} => appliedGen = seekGen
    /\ ctl.pc = "posRead" => ctl.base = target
    /\ PositionHonest

-----------------------------------------------------------------------------
(* Liveness *)

\* Once the seeks stop, the target of the last one is heard.
SeekIsHeard ==
    \A g \in 0 .. MaxSeeks :
        seekGen = g ~> (seekGen # g \/ heard # <<>> \/ shutdown)

\* A dropped source does not leak its background thread.
DropEndsThread == shutdown ~> bg.pc = "done"

\* A source that is not sought again plays to its end.
PlaysToEnd ==
    \A g \in 0 .. MaxSeeks :
        seekGen = g ~> (seekGen # g \/ cb.pc = "ended" \/ shutdown)

\* The background thread serves whatever it is asked for, a full ring, the end
\* of the file or an earlier seek in the way: seeks, the rest of the source and
\* the drop (bg_loop).
ThreadServes == SeekIsHeard /\ PlaysToEnd /\ DropEndsThread

-----------------------------------------------------------------------------
(* The refinement of SeekableSource *)

\* The seek in force is the one that has been applied, or the last one asked
\* for while its reset is pending.
InForce == IF appliedGen = seekGen THEN positionBase ELSE target
Provider == INSTANCE SeekableSource WITH
    at <- InForce,
    asked <- IF Asking THEN ctl.floor ELSE -1,
    answer <- IF ctl.pc = "posReturn" THEN ctl.out ELSE -1

\* Three threads, a ring and two generation counters do what a provider without
\* any of them would: each step hands out the next samples, obeys a seek, begins
\* or answers a call of position(), or is not seen from outside.
ImplementsProvider == Provider!Spec

=============================================================================
