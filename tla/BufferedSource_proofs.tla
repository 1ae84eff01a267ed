------------------------ MODULE BufferedSource_proofs ------------------------
(***************************************************************************)
(* Proofs about BufferedSource: its inductive invariant; that what is      *)
(* heard after a seek is exactly what the seek asked for; that `position`  *)
(* is honest; and that BufferedSource implements SeekableSource.           *)
(***************************************************************************)
EXTENDS BufferedSource, SequenceTheorems, TLAPS

\* The positions of the source are numbers, and there is a first one.
LEMMA PositionsFacts ==
    /\ 0 \in Positions
    /\ Positions \subseteq Nat
    /\ Positions \subseteq 0 .. SourceLen
BY SizesAssumption DEF Positions

\* The numbers of a state, for the arithmetic below.
Numbers ==
    /\ readPos \in Nat /\ positionBase \in Nat /\ srcPos \in Nat /\ srcPos <= SourceLen
    /\ seekGen \in Nat /\ appliedGen \in Nat
    /\ Len(ring) \in Nat /\ Len(ring) <= RingCap /\ Len(heard) \in Nat
    /\ bg.gen \in Nat /\ bg.seek \in Nat /\ bg.want \in Nat
    /\ bg.from \in Nat /\ bg.from <= SourceLen /\ bg.n \in Nat
    /\ cb.gen \in Nat /\ cb.n \in Nat
    /\ ctl.gen \in Nat /\ ctl.base \in Nat /\ ctl.out \in Nat
    /\ Popped \in Nat /\ InTemp \in Nat
    /\ RingCap \in Nat /\ RingCap > 0 /\ SourceLen \in Nat /\ SourceLen > 0
    /\ ChunkLen \in Nat /\ ChunkLen > 0 /\ CallbackLen \in Nat /\ CallbackLen > 0

\* The numbers of a typed state are natural, for the arithmetic of the steps.
LEMMA StateNumbers == IndInv => Numbers
<1>1. IndInv => positionBase \in Nat
  BY PositionsFacts DEF IndInv, TypeOK
<1>2. IndInv => bg.seek \in Positions /\ ctl.base \in Positions
  BY DEF IndInv, TypeOK
<1>3. IndInv => bg.seek \in Nat /\ ctl.base \in Nat
  BY <1>2, PositionsFacts
<1>4. IndInv => Len(ring) \in Nat /\ Len(heard) \in Nat
  BY LenProperties DEF IndInv, TypeOK
<1>5. IndInv => bg.n \in Nat /\ cb.n \in Nat
  BY DEF IndInv, TypeOK
<1>6. IndInv => Popped \in Nat /\ InTemp \in Nat
  BY <1>5 DEF Popped, InTemp
<1>7. QED
  BY <1>1, <1>3, <1>4, <1>5, <1>6, SizesAssumption DEF Numbers, IndInv, TypeOK

\* seek stores its target: no thread has acted on it yet.
LEMMA SeekStoreTargetInv == IndInv /\ SeekStoreTarget => IndInv'
<1> SUFFICES ASSUME IndInv, SeekStoreTarget PROVE IndInv'
  OBVIOUS
<1> USE DEF SeekStoreTarget, history
<1>1. TypeOK'
  <2>1. ctl' \in [pc : CtlPcs, gen : Nat, base : Positions, floor : Nat, out : Nat]
    BY PositionsFacts DEF IndInv, TypeOK, CtlPcs
  <2>2. QED
    BY PositionsFacts, <2>1 DEF IndInv, TypeOK
<1>2. LockInv'
  BY DEF IndInv, TypeOK, LockInv, Guarded, Resetting
<1>3. GenInv'
  BY DEF IndInv, TypeOK, LockInv, GenInv, SeekObeyed, Resetting, Validated, Guarded
<1>4. RingInv'
  BY DEF IndInv, TypeOK, LockInv, RingInv, Popped, InTemp, Guarded, Resetting
<1>5. ResetInv'
  BY DEF IndInv, TypeOK, LockInv, ResetInv, Resetting, Guarded
<1>6. HeardInv'
  BY DEF IndInv, TypeOK, GenInv, HeardInv, StartsAt, Validated, Guarded
<1>7. EofInv'
  BY DEF IndInv, TypeOK, EofInv
<1>8. QED
  BY <1>1, <1>2, <1>3, <1>4, <1>5, <1>6, <1>7 DEF IndInv

\* seek raises the generation: the ring becomes stale, the callback silent.
LEMMA SeekBumpGenerationInv == IndInv /\ SeekBumpGeneration => IndInv'
<1> SUFFICES ASSUME IndInv, SeekBumpGeneration PROVE IndInv'
  OBVIOUS
<1> USE DEF SeekBumpGeneration, CtlIdle
<1>1. TypeOK'
  <2>1. ctl' \in [pc : CtlPcs, gen : Nat, base : Positions, floor : Nat, out : Nat]
    BY PositionsFacts DEF IndInv, TypeOK, CtlPcs
  <2>2. QED
    BY PositionsFacts, <2>1 DEF IndInv, TypeOK
<1>2. LockInv'
  BY DEF IndInv, TypeOK, LockInv, Guarded, Resetting
<1>3. GenInv'
  BY DEF IndInv, TypeOK, LockInv, GenInv, SeekObeyed, Resetting, Validated, Guarded
<1>4. RingInv'
  BY DEF IndInv, TypeOK, LockInv, RingInv, Popped, InTemp, Guarded, Resetting
<1>5. ResetInv'
  BY DEF IndInv, TypeOK, LockInv, ResetInv, Resetting, Guarded
<1>6. HeardInv'
  BY DEF IndInv, TypeOK, GenInv, HeardInv, StartsAt, Validated, Guarded
<1>7. EofInv'
  BY DEF IndInv, TypeOK, EofInv
<1>8. QED
  BY <1>1, <1>2, <1>3, <1>4, <1>5, <1>6, <1>7 DEF IndInv

\* position loads the generation and changes nothing shared.
LEMMA PositionLoadGenerationInv == IndInv /\ PositionLoadGeneration => IndInv'
<1> SUFFICES ASSUME IndInv, PositionLoadGeneration PROVE IndInv'
  OBVIOUS
<1> USE DEF PositionLoadGeneration, shared, history
<1>1. TypeOK'
  <2>1. ctl' \in [pc : CtlPcs, gen : Nat, base : Positions, floor : Nat, out : Nat]
    <3>1. Len(heard) \in Nat
      BY LenProperties DEF IndInv, TypeOK
    <3>2. QED
      BY <3>1 DEF IndInv, TypeOK, CtlPcs
  <2>2. QED
    BY PositionsFacts, <2>1 DEF IndInv, TypeOK
<1>2. LockInv'
  BY DEF IndInv, TypeOK, LockInv, Guarded, Resetting
<1>3. GenInv'
  BY DEF IndInv, TypeOK, LockInv, GenInv, SeekObeyed, Resetting, Validated, Guarded
<1>4. RingInv'
  BY DEF IndInv, TypeOK, LockInv, RingInv, Popped, InTemp, Guarded, Resetting
<1>5. ResetInv'
  BY DEF IndInv, TypeOK, LockInv, ResetInv, Resetting, Guarded
<1>6. HeardInv'
  BY DEF IndInv, TypeOK, GenInv, HeardInv, StartsAt, Validated, Guarded
<1>7. EofInv'
  BY DEF IndInv, TypeOK, EofInv
<1>8. QED
  BY <1>1, <1>2, <1>3, <1>4, <1>5, <1>6, <1>7 DEF IndInv

\* position loads the applied generation and changes nothing shared.
LEMMA PositionLoadAppliedInv == IndInv /\ PositionLoadApplied => IndInv'
<1> SUFFICES ASSUME IndInv, PositionLoadApplied PROVE IndInv'
  OBVIOUS
<1> USE DEF PositionLoadApplied, shared, history
<1>1. TypeOK'
  <2>1. ctl' \in [pc : CtlPcs, gen : Nat, base : Positions, floor : Nat, out : Nat]
    BY PositionsFacts DEF IndInv, TypeOK, CtlPcs
  <2>2. QED
    BY PositionsFacts, <2>1 DEF IndInv, TypeOK
<1>2. LockInv'
  BY DEF IndInv, TypeOK, LockInv, Guarded, Resetting
<1>3. GenInv'
  BY DEF IndInv, TypeOK, LockInv, GenInv, SeekObeyed, Resetting, Validated, Guarded
<1>4. RingInv'
  BY DEF IndInv, TypeOK, LockInv, RingInv, Popped, InTemp, Guarded, Resetting
<1>5. ResetInv'
  BY DEF IndInv, TypeOK, LockInv, ResetInv, Resetting, Guarded
<1>6. HeardInv'
  BY DEF IndInv, TypeOK, GenInv, HeardInv, StartsAt, Validated, Guarded
<1>7. EofInv'
  BY DEF IndInv, TypeOK, EofInv
<1>8. QED
  BY <1>1, <1>2, <1>3, <1>4, <1>5, <1>6, <1>7 DEF IndInv

\* position loads the pending target and changes nothing shared.
LEMMA PositionLoadTargetInv == IndInv /\ PositionLoadTarget => IndInv'
<1> SUFFICES ASSUME IndInv, PositionLoadTarget PROVE IndInv'
  OBVIOUS
<1> USE DEF PositionLoadTarget, shared, history
<1>1. TypeOK'
  <2>1. ctl' \in [pc : CtlPcs, gen : Nat, base : Positions, floor : Nat, out : Nat]
    BY PositionsFacts DEF IndInv, TypeOK, CtlPcs
  <2>2. QED
    BY PositionsFacts, <2>1 DEF IndInv, TypeOK
<1>2. LockInv'
  BY DEF IndInv, TypeOK, LockInv, Guarded, Resetting
<1>3. GenInv'
  BY DEF IndInv, TypeOK, LockInv, GenInv, SeekObeyed, Resetting, Validated, Guarded
<1>4. RingInv'
  BY DEF IndInv, TypeOK, LockInv, RingInv, Popped, InTemp, Guarded, Resetting
<1>5. ResetInv'
  BY DEF IndInv, TypeOK, LockInv, ResetInv, Resetting, Guarded
<1>6. HeardInv'
  BY DEF IndInv, TypeOK, GenInv, HeardInv, StartsAt, Validated, Guarded
<1>7. EofInv'
  BY DEF IndInv, TypeOK, EofInv
<1>8. QED
  BY <1>1, <1>2, <1>3, <1>4, <1>5, <1>6, <1>7 DEF IndInv

\* position loads the base and changes nothing shared.
LEMMA PositionLoadBaseInv == IndInv /\ PositionLoadBase => IndInv'
<1> SUFFICES ASSUME IndInv, PositionLoadBase PROVE IndInv'
  OBVIOUS
<1> USE DEF PositionLoadBase, shared, history
<1>1. TypeOK'
  <2>1. ctl' \in [pc : CtlPcs, gen : Nat, base : Positions, floor : Nat, out : Nat]
    BY PositionsFacts DEF IndInv, TypeOK, CtlPcs
  <2>2. QED
    BY PositionsFacts, <2>1 DEF IndInv, TypeOK
<1>2. LockInv'
  BY DEF IndInv, TypeOK, LockInv, Guarded, Resetting
<1>3. GenInv'
  BY DEF IndInv, TypeOK, LockInv, GenInv, SeekObeyed, Resetting, Validated, Guarded
<1>4. RingInv'
  BY DEF IndInv, TypeOK, LockInv, RingInv, Popped, InTemp, Guarded, Resetting
<1>5. ResetInv'
  BY DEF IndInv, TypeOK, LockInv, ResetInv, Resetting, Guarded
<1>6. HeardInv'
  BY DEF IndInv, TypeOK, GenInv, HeardInv, StartsAt, Validated, Guarded
<1>7. EofInv'
  BY DEF IndInv, TypeOK, EofInv
<1>8. QED
  BY <1>1, <1>2, <1>3, <1>4, <1>5, <1>6, <1>7 DEF IndInv

\* position loads the count of read samples and changes nothing shared.
LEMMA PositionLoadReadInv == IndInv /\ PositionLoadRead => IndInv'
<1> SUFFICES ASSUME IndInv, PositionLoadRead PROVE IndInv'
  OBVIOUS
<1> USE DEF PositionLoadRead, shared, history
<1>n. readPos \in Nat /\ ctl.base \in Nat
  BY StateNumbers DEF Numbers
<1>1. TypeOK'
  <2>1. ctl' \in [pc : CtlPcs, gen : Nat, base : Positions, floor : Nat, out : Nat]
    <3>1. ctl.base + readPos \in Nat
      BY <1>n
    <3>2. QED
      BY <3>1, PositionsFacts DEF IndInv, TypeOK, CtlPcs
  <2>2. QED
    BY PositionsFacts, <2>1 DEF IndInv, TypeOK
<1>2. LockInv'
  BY DEF IndInv, TypeOK, LockInv, Guarded, Resetting
<1>3. GenInv'
  BY DEF IndInv, TypeOK, LockInv, GenInv, SeekObeyed, Resetting, Validated, Guarded
<1>4. RingInv'
  BY DEF IndInv, TypeOK, LockInv, RingInv, Popped, InTemp, Guarded, Resetting
<1>5. ResetInv'
  BY DEF IndInv, TypeOK, LockInv, ResetInv, Resetting, Guarded
<1>6. HeardInv'
  BY DEF IndInv, TypeOK, GenInv, HeardInv, StartsAt, Validated, Guarded
<1>7. EofInv'
  BY DEF IndInv, TypeOK, EofInv
<1>8. QED
  BY <1>1, <1>2, <1>3, <1>4, <1>5, <1>6, <1>7 DEF IndInv

\* position returns and changes nothing shared.
LEMMA PositionReturnInv == IndInv /\ PositionReturn => IndInv'
<1> SUFFICES ASSUME IndInv, PositionReturn PROVE IndInv'
  OBVIOUS
<1> USE DEF PositionReturn, CtlIdle, shared, history
<1>1. TypeOK'
  <2>1. ctl' \in [pc : CtlPcs, gen : Nat, base : Positions, floor : Nat, out : Nat]
    BY PositionsFacts DEF IndInv, TypeOK, CtlPcs
  <2>2. QED
    BY PositionsFacts, <2>1 DEF IndInv, TypeOK
<1>2. LockInv'
  BY DEF IndInv, TypeOK, LockInv, Guarded, Resetting
<1>3. GenInv'
  BY DEF IndInv, TypeOK, LockInv, GenInv, SeekObeyed, Resetting, Validated, Guarded
<1>4. RingInv'
  BY DEF IndInv, TypeOK, LockInv, RingInv, Popped, InTemp, Guarded, Resetting
<1>5. ResetInv'
  BY DEF IndInv, TypeOK, LockInv, ResetInv, Resetting, Guarded
<1>6. HeardInv'
  BY DEF IndInv, TypeOK, GenInv, HeardInv, StartsAt, Validated, Guarded
<1>7. EofInv'
  BY DEF IndInv, TypeOK, EofInv
<1>8. QED
  BY <1>1, <1>2, <1>3, <1>4, <1>5, <1>6, <1>7 DEF IndInv

\* drop raises the shutdown flag, which no part of the invariant reads.
LEMMA DropInv == IndInv /\ Drop => IndInv'
<1> SUFFICES ASSUME IndInv, Drop PROVE IndInv'
  OBVIOUS
<1> USE DEF Drop, history
<1>1. TypeOK'
  BY DEF IndInv, TypeOK
<1>2. LockInv'
  BY DEF IndInv, TypeOK, LockInv, Guarded, Resetting
<1>3. GenInv'
  BY DEF IndInv, TypeOK, LockInv, GenInv, SeekObeyed, Resetting, Validated, Guarded
<1>4. RingInv'
  BY DEF IndInv, TypeOK, LockInv, RingInv, Popped, InTemp, Guarded, Resetting
<1>5. ResetInv'
  BY DEF IndInv, TypeOK, LockInv, ResetInv, Resetting, Guarded
<1>6. HeardInv'
  BY DEF IndInv, TypeOK, GenInv, HeardInv, StartsAt, Validated, Guarded
<1>7. EofInv'
  BY DEF IndInv, TypeOK, EofInv
<1>8. QED
  BY <1>1, <1>2, <1>3, <1>4, <1>5, <1>6, <1>7 DEF IndInv

\* The background thread ends or starts a round.
LEMMA BgCheckShutdownInv == IndInv /\ BgCheckShutdown => IndInv'
<1> SUFFICES ASSUME IndInv, BgCheckShutdown PROVE IndInv'
  OBVIOUS
<1> USE DEF BgCheckShutdown, BgGoto, shared, history
<1>1. TypeOK'
  <2>1. bg' \in [pc : BgPcs, gen : Nat, seek : Positions, want : Nat,
               from : 0 .. SourceLen, n : Nat]
    BY PositionsFacts DEF IndInv, TypeOK, BgPcs
  <2>2. QED
    BY PositionsFacts, <2>1 DEF IndInv, TypeOK
<1>2. LockInv'
  BY DEF IndInv, TypeOK, LockInv, Guarded, Resetting
<1>3. GenInv'
  BY DEF IndInv, TypeOK, LockInv, GenInv, SeekObeyed, Resetting, Validated, Guarded
<1>4. RingInv'
  BY DEF IndInv, TypeOK, LockInv, RingInv, Popped, InTemp, Guarded, Resetting
<1>5. ResetInv'
  BY DEF IndInv, TypeOK, LockInv, ResetInv, Resetting, Guarded
<1>6. HeardInv'
  BY DEF IndInv, TypeOK, GenInv, HeardInv, StartsAt, Validated, Guarded
<1>7. EofInv'
  BY DEF IndInv, TypeOK, EofInv
<1>8. QED
  BY <1>1, <1>2, <1>3, <1>4, <1>5, <1>6, <1>7 DEF IndInv

\* It sees a newer generation or goes on to fill the ring.
LEMMA BgLoadGenerationInv == IndInv /\ BgLoadGeneration => IndInv'
<1> SUFFICES ASSUME IndInv, BgLoadGeneration PROVE IndInv'
  OBVIOUS
<1> USE DEF BgLoadGeneration, shared, history
<1>1. TypeOK'
  <2>1. bg' \in [pc : BgPcs, gen : Nat, seek : Positions, want : Nat,
               from : 0 .. SourceLen, n : Nat]
    BY PositionsFacts DEF IndInv, TypeOK, BgPcs
  <2>2. QED
    BY PositionsFacts, <2>1 DEF IndInv, TypeOK
<1>2. LockInv'
  BY DEF IndInv, TypeOK, LockInv, Guarded, Resetting
<1>3. GenInv'
  BY DEF IndInv, TypeOK, LockInv, GenInv, SeekObeyed, Resetting, Validated, Guarded
<1>4. RingInv'
  BY DEF IndInv, TypeOK, LockInv, RingInv, Popped, InTemp, Guarded, Resetting
<1>5. ResetInv'
  BY DEF IndInv, TypeOK, LockInv, ResetInv, Resetting, Guarded
<1>6. HeardInv'
  BY DEF IndInv, TypeOK, GenInv, HeardInv, StartsAt, Validated, Guarded
<1>7. EofInv'
  BY DEF IndInv, TypeOK, EofInv
<1>8. QED
  BY <1>1, <1>2, <1>3, <1>4, <1>5, <1>6, <1>7 DEF IndInv

\* It loads the target of the seek it is going to obey.
LEMMA BgLoadTargetInv == IndInv /\ BgLoadTarget => IndInv'
<1> SUFFICES ASSUME IndInv, BgLoadTarget PROVE IndInv'
  OBVIOUS
<1> USE DEF BgLoadTarget, shared, history
<1>1. TypeOK'
  <2>1. bg' \in [pc : BgPcs, gen : Nat, seek : Positions, want : Nat,
               from : 0 .. SourceLen, n : Nat]
    BY PositionsFacts DEF IndInv, TypeOK, BgPcs
  <2>2. QED
    BY PositionsFacts, <2>1 DEF IndInv, TypeOK
<1>2. LockInv'
  BY DEF IndInv, TypeOK, LockInv, Guarded, Resetting
<1>3. GenInv'
  BY DEF IndInv, TypeOK, LockInv, GenInv, SeekObeyed, Resetting, Validated, Guarded
<1>4. RingInv'
  BY DEF IndInv, TypeOK, LockInv, RingInv, Popped, InTemp, Guarded, Resetting
<1>5. ResetInv'
  BY DEF IndInv, TypeOK, LockInv, ResetInv, Resetting, Guarded
<1>6. HeardInv'
  BY DEF IndInv, TypeOK, GenInv, HeardInv, StartsAt, Validated, Guarded
<1>7. EofInv'
  BY DEF IndInv, TypeOK, EofInv
<1>8. QED
  BY <1>1, <1>2, <1>3, <1>4, <1>5, <1>6, <1>7 DEF IndInv

\* It takes the lock: no callback is inside the guarded read.
LEMMA BgLockResetInv == IndInv /\ BgLockReset => IndInv'
<1> SUFFICES ASSUME IndInv, BgLockReset PROVE IndInv'
  OBVIOUS
<1> USE DEF BgLockReset, BgGoto, history
<1>1. TypeOK'
  <2>1. bg' \in [pc : BgPcs, gen : Nat, seek : Positions, want : Nat,
               from : 0 .. SourceLen, n : Nat]
    BY PositionsFacts DEF IndInv, TypeOK, BgPcs
  <2>2. QED
    BY PositionsFacts, <2>1 DEF IndInv, TypeOK
<1>2. LockInv'
  BY DEF IndInv, TypeOK, LockInv, Guarded, Resetting
<1>3. GenInv'
  BY DEF IndInv, TypeOK, LockInv, GenInv, SeekObeyed, Resetting, Validated, Guarded
<1>4. RingInv'
  BY DEF IndInv, TypeOK, LockInv, RingInv, Popped, InTemp, Guarded, Resetting
<1>5. ResetInv'
  BY DEF IndInv, TypeOK, LockInv, ResetInv, Resetting, Guarded
<1>6. HeardInv'
  BY DEF IndInv, TypeOK, GenInv, HeardInv, StartsAt, Validated, Guarded
<1>7. EofInv'
  BY DEF IndInv, TypeOK, EofInv
<1>8. QED
  BY <1>1, <1>2, <1>3, <1>4, <1>5, <1>6, <1>7 DEF IndInv

\* The source moves; the samples in the ring are those of the old position.
LEMMA BgSeekSourceInv == IndInv /\ BgSeekSource => IndInv'
<1> SUFFICES ASSUME IndInv, BgSeekSource PROVE IndInv'
  OBVIOUS
<1> USE DEF BgSeekSource, BgGoto, history
<1>a. appliedGen < bg.gen /\ bg.gen <= seekGen /\ resetLock = "writer"
  BY DEF IndInv, TypeOK, GenInv, LockInv, Resetting
<1>b. cb.pc \notin Guarded
  BY <1>a DEF IndInv, LockInv
<1>c. heard = <<>> /\ appliedGen # seekGen
  BY <1>a DEF IndInv, TypeOK, HeardInv
<1>1. TypeOK'
  <2>1. bg' \in [pc : BgPcs, gen : Nat, seek : Positions, want : Nat,
               from : 0 .. SourceLen, n : Nat]
    BY PositionsFacts DEF IndInv, TypeOK, BgPcs
  <2>2. QED
    BY PositionsFacts, <2>1 DEF IndInv, TypeOK
<1>2. LockInv'
  BY DEF IndInv, TypeOK, LockInv, Guarded, Resetting
<1>3. GenInv'
  BY <1>a, <1>b DEF IndInv, TypeOK, GenInv, SeekObeyed, Resetting, Validated
<1>4. RingInv'
  BY <1>b DEF IndInv, TypeOK, RingInv, ResetInv, Popped, InTemp, Guarded, Resetting
<1>5. ResetInv'
  BY DEF IndInv, TypeOK, LockInv, ResetInv, Resetting, Guarded
<1>6. HeardInv'
  BY <1>c DEF HeardInv
<1>7. EofInv'
  BY <1>b DEF IndInv, TypeOK, EofInv, Guarded
<1>8. QED
  BY <1>1, <1>2, <1>3, <1>4, <1>5, <1>6, <1>7 DEF IndInv

\* The ring is emptied.
LEMMA BgClearRingInv == IndInv /\ BgClearRing => IndInv'
<1> SUFFICES ASSUME IndInv, BgClearRing PROVE IndInv'
  OBVIOUS
<1> USE DEF BgClearRing, BgGoto, history
<1>a. appliedGen < bg.gen /\ bg.gen <= seekGen /\ resetLock = "writer"
  BY DEF IndInv, TypeOK, GenInv, LockInv, Resetting
<1>b. cb.pc \notin Guarded
  BY <1>a DEF IndInv, LockInv
<1>c. heard = <<>> /\ appliedGen # seekGen
  BY <1>a DEF IndInv, TypeOK, HeardInv
<1>1. TypeOK'
  <2>1. bg' \in [pc : BgPcs, gen : Nat, seek : Positions, want : Nat,
               from : 0 .. SourceLen, n : Nat]
    BY PositionsFacts DEF IndInv, TypeOK, BgPcs
  <2>2. QED
    BY <2>1, SizesAssumption DEF IndInv, TypeOK
<1>2. LockInv'
  BY DEF IndInv, TypeOK, LockInv, Guarded, Resetting
<1>3. GenInv'
  BY <1>a, <1>b DEF IndInv, TypeOK, GenInv, SeekObeyed, Resetting, Validated
<1>4. RingInv'
  BY <1>b DEF IndInv, TypeOK, RingInv, ResetInv, Popped, InTemp, Guarded, Resetting
<1>5. ResetInv'
  BY DEF IndInv, TypeOK, LockInv, ResetInv, Resetting, Guarded
<1>6. HeardInv'
  BY <1>c DEF HeardInv
<1>7. EofInv'
  BY <1>b DEF IndInv, TypeOK, EofInv, Guarded
<1>8. QED
  BY <1>1, <1>2, <1>3, <1>4, <1>5, <1>6, <1>7 DEF IndInv

\* The base is the position the source was moved to.
LEMMA BgStoreBaseInv == IndInv /\ BgStoreBase => IndInv'
<1> SUFFICES ASSUME IndInv, BgStoreBase PROVE IndInv'
  OBVIOUS
<1> USE DEF BgStoreBase, BgGoto, history
<1>a. appliedGen < bg.gen /\ bg.gen <= seekGen /\ resetLock = "writer"
  BY DEF IndInv, TypeOK, GenInv, LockInv, Resetting
<1>b. cb.pc \notin Guarded
  BY <1>a DEF IndInv, LockInv
<1>c. heard = <<>> /\ appliedGen # seekGen
  BY <1>a DEF IndInv, TypeOK, HeardInv
<1>1. TypeOK'
  <2>1. bg' \in [pc : BgPcs, gen : Nat, seek : Positions, want : Nat,
               from : 0 .. SourceLen, n : Nat]
    BY PositionsFacts DEF IndInv, TypeOK, BgPcs
  <2>2. QED
    BY PositionsFacts, <2>1 DEF IndInv, TypeOK
<1>2. LockInv'
  BY DEF IndInv, TypeOK, LockInv, Guarded, Resetting
<1>3. GenInv'
  BY <1>a, <1>b DEF IndInv, TypeOK, GenInv, SeekObeyed, Resetting, Validated
<1>4. RingInv'
  BY <1>b DEF IndInv, TypeOK, RingInv, ResetInv, Popped, InTemp, Guarded, Resetting
<1>5. ResetInv'
  BY DEF IndInv, TypeOK, LockInv, ResetInv, Resetting, Guarded
<1>6. HeardInv'
  BY <1>c DEF HeardInv
<1>7. EofInv'
  BY <1>b DEF IndInv, TypeOK, EofInv, Guarded
<1>8. QED
  BY <1>1, <1>2, <1>3, <1>4, <1>5, <1>6, <1>7 DEF IndInv

\* No sample has been read since the base.
LEMMA BgZeroReadPosInv == IndInv /\ BgZeroReadPos => IndInv'
<1> SUFFICES ASSUME IndInv, BgZeroReadPos PROVE IndInv'
  OBVIOUS
<1> USE DEF BgZeroReadPos, BgGoto, history
<1>a. appliedGen < bg.gen /\ bg.gen <= seekGen /\ resetLock = "writer"
  BY DEF IndInv, TypeOK, GenInv, LockInv, Resetting
<1>b. cb.pc \notin Guarded
  BY <1>a DEF IndInv, LockInv
<1>c. heard = <<>> /\ appliedGen # seekGen
  BY <1>a DEF IndInv, TypeOK, HeardInv
<1>1. TypeOK'
  <2>1. bg' \in [pc : BgPcs, gen : Nat, seek : Positions, want : Nat,
               from : 0 .. SourceLen, n : Nat]
    BY PositionsFacts DEF IndInv, TypeOK, BgPcs
  <2>2. QED
    BY PositionsFacts, <2>1 DEF IndInv, TypeOK
<1>2. LockInv'
  BY DEF IndInv, TypeOK, LockInv, Guarded, Resetting
<1>3. GenInv'
  BY <1>a, <1>b DEF IndInv, TypeOK, GenInv, SeekObeyed, Resetting, Validated
<1>4. RingInv'
  BY <1>b DEF IndInv, TypeOK, RingInv, ResetInv, Popped, InTemp, Guarded, Resetting
<1>5. ResetInv'
  BY DEF IndInv, TypeOK, LockInv, ResetInv, Resetting, Guarded
<1>6. HeardInv'
  BY <1>c DEF HeardInv
<1>7. EofInv'
  BY <1>b DEF IndInv, TypeOK, EofInv, Guarded
<1>8. QED
  BY <1>1, <1>2, <1>3, <1>4, <1>5, <1>6, <1>7 DEF IndInv

\* The end of the earlier pass is forgotten.
LEMMA BgClearEofInv == IndInv /\ BgClearEof => IndInv'
<1> SUFFICES ASSUME IndInv, BgClearEof PROVE IndInv'
  OBVIOUS
<1> USE DEF BgClearEof, BgGoto, history
<1>1. TypeOK'
  <2>1. bg' \in [pc : BgPcs, gen : Nat, seek : Positions, want : Nat,
               from : 0 .. SourceLen, n : Nat]
    BY PositionsFacts DEF IndInv, TypeOK, BgPcs
  <2>2. QED
    BY PositionsFacts, <2>1 DEF IndInv, TypeOK
<1>2. LockInv'
  BY DEF IndInv, TypeOK, LockInv, Guarded, Resetting
<1>3. GenInv'
  BY DEF IndInv, TypeOK, LockInv, GenInv, SeekObeyed, Resetting, Validated, Guarded
<1>4. RingInv'
  BY DEF IndInv, TypeOK, LockInv, RingInv, Popped, InTemp, Guarded, Resetting
<1>5. ResetInv'
  BY DEF IndInv, TypeOK, LockInv, ResetInv, Resetting, Guarded
<1>6. HeardInv'
  BY DEF IndInv, TypeOK, GenInv, HeardInv, StartsAt, Validated, Guarded
<1>7. EofInv'
  BY DEF IndInv, TypeOK, EofInv
<1>8. QED
  BY <1>1, <1>2, <1>3, <1>4, <1>5, <1>6, <1>7 DEF IndInv

\* The generation is applied: ring, base and source agree again.
LEMMA BgApplyGenerationInv == IndInv /\ BgApplyGeneration => IndInv'
<1> SUFFICES ASSUME IndInv, BgApplyGeneration PROVE IndInv'
  OBVIOUS
<1> USE DEF BgApplyGeneration, BgGoto, history
<1>a. appliedGen < bg.gen /\ bg.gen <= seekGen /\ resetLock = "writer"
  BY DEF IndInv, TypeOK, GenInv, LockInv, Resetting
<1>b. cb.pc \notin Guarded
  BY <1>a DEF IndInv, LockInv
<1>c. heard = <<>> /\ appliedGen # seekGen
  BY <1>a DEF IndInv, TypeOK, HeardInv
<1>d. readPos = 0 /\ positionBase = bg.seek
  BY DEF IndInv, ResetInv
<1>e. bg.gen = seekGen => SeekObeyed(positionBase)
  BY <1>d DEF IndInv, GenInv, Resetting
<1>1. TypeOK'
  <2>1. bg' \in [pc : BgPcs, gen : Nat, seek : Positions, want : Nat,
               from : 0 .. SourceLen, n : Nat]
    BY PositionsFacts DEF IndInv, TypeOK, BgPcs
  <2>2. QED
    BY PositionsFacts, <2>1 DEF IndInv, TypeOK
<1>2. LockInv'
  BY DEF IndInv, TypeOK, LockInv, Guarded, Resetting
<1>3. GenInv'
  BY <1>a, <1>b, <1>e DEF IndInv, TypeOK, GenInv, SeekObeyed, Resetting, Validated
<1>4. RingInv'
  BY DEF IndInv, TypeOK, LockInv, RingInv, Popped, InTemp, Guarded, Resetting
<1>5. ResetInv'
  BY DEF IndInv, TypeOK, LockInv, ResetInv, Resetting, Guarded
<1>6. HeardInv'
  BY <1>c, <1>d DEF HeardInv, StartsAt
<1>7. EofInv'
  BY DEF IndInv, TypeOK, EofInv
<1>8. QED
  BY <1>1, <1>2, <1>3, <1>4, <1>5, <1>6, <1>7 DEF IndInv

\* It leaves the lock with all of ResetInv established.
LEMMA BgUnlockResetInv == IndInv /\ BgUnlockReset => IndInv'
<1> SUFFICES ASSUME IndInv, BgUnlockReset PROVE IndInv'
  OBVIOUS
<1> USE DEF BgUnlockReset, BgGoto, history
<1>1. TypeOK'
  <2>1. bg' \in [pc : BgPcs, gen : Nat, seek : Positions, want : Nat,
               from : 0 .. SourceLen, n : Nat]
    BY PositionsFacts DEF IndInv, TypeOK, BgPcs
  <2>2. QED
    BY PositionsFacts, <2>1 DEF IndInv, TypeOK
<1>2. LockInv'
  BY DEF IndInv, TypeOK, LockInv, Guarded, Resetting
<1>3. GenInv'
  BY DEF IndInv, TypeOK, LockInv, GenInv, SeekObeyed, Resetting, Validated, Guarded
<1>4. RingInv'
  BY DEF IndInv, TypeOK, LockInv, RingInv, Popped, InTemp, Guarded, Resetting
<1>5. ResetInv'
  BY DEF IndInv, TypeOK, LockInv, ResetInv, Resetting, Guarded
<1>6. HeardInv'
  BY DEF IndInv, TypeOK, GenInv, HeardInv, StartsAt, Validated, Guarded
<1>7. EofInv'
  BY DEF IndInv, TypeOK, EofInv
<1>8. QED
  BY <1>1, <1>2, <1>3, <1>4, <1>5, <1>6, <1>7 DEF IndInv

\* It reserves at most the room that is left in the ring.
LEMMA BgVacantInv == IndInv /\ BgVacant => IndInv'
<1> SUFFICES ASSUME IndInv, BgVacant PROVE IndInv'
  OBVIOUS

<1>n. RingCap \in Nat /\ ChunkLen \in Nat /\ Len(ring) \in Nat /\ RingCap > 0 /\ ChunkLen > 0
      /\ Len(ring) <= RingCap
  BY StateNumbers DEF Numbers
<1> DEFINE free == RingCap - Len(ring)
<1>a. bg.pc = "fill" /\ UNCHANGED <<shared, cb, ctl, history>>
  BY DEF BgVacant
<1>b. \/ bg' = BgTop
      \/ /\ ~eof
         /\ free # 0
         /\ bg' = [BgTop EXCEPT !.pc = "read", !.want = LesserOf(ChunkLen, free)]
  BY DEF BgVacant, BgContinue
<1>c. free # 0 => LesserOf(ChunkLen, free) \in 1 .. RingCap - Len(ring)
  BY <1>n DEF LesserOf
<1> HIDE DEF free
<1>d. /\ bg'.pc \in {"top", "read"}
      /\ bg'.pc = "read" => ~eof /\ bg'.want \in 1 .. RingCap - Len(ring)
  <2>1. CASE bg' = BgTop
    BY <2>1 DEF BgTop
  <2>2. CASE bg' # BgTop
    <3>1. /\ ~eof /\ free # 0
          /\ bg' = [BgTop EXCEPT !.pc = "read", !.want = LesserOf(ChunkLen, free)]
      BY <2>2, <1>b
    <3>2. bg'.pc = "read" /\ bg'.want = LesserOf(ChunkLen, free)
      BY <3>1 DEF BgTop
    <3>3. QED
      BY <3>1, <3>2, <1>c
  <2>3. QED
    BY <2>1, <2>2
<1> USE DEF shared, history
<1>1. TypeOK'
  <2>1. bg' \in [pc : BgPcs, gen : Nat, seek : Positions, want : Nat,
               from : 0 .. SourceLen, n : Nat]
    <3>1. CASE bg' = BgTop
      BY <3>1, PositionsFacts DEF BgTop, BgPcs
    <3>2. CASE bg' # BgTop
      <4>1. LesserOf(ChunkLen, free) \in Nat
        BY <3>2, <1>b, <1>c, <1>n
      <4>2. QED
        BY <3>2, <4>1, <1>b, PositionsFacts DEF BgTop, BgPcs
    <3>3. QED
      BY <3>1, <3>2
  <2>2. QED
    BY <1>a, <2>1 DEF IndInv, TypeOK
<1>2. LockInv'
  BY <1>a, <1>d DEF IndInv, LockInv, Resetting
<1>3. GenInv'
  BY <1>a, <1>d DEF IndInv, GenInv, SeekObeyed, Resetting
<1>4. RingInv'
  BY <1>a, <1>d DEF IndInv, RingInv, Popped, InTemp
<1>5. ResetInv'
  BY <1>a, <1>d DEF IndInv, ResetInv, Resetting
<1>6. HeardInv'
  BY <1>a, <1>d DEF IndInv, HeardInv, StartsAt
<1>7. EofInv'
  BY <1>a, <1>d DEF IndInv, EofInv
<1>8. QED
  BY <1>1, <1>2, <1>3, <1>4, <1>5, <1>6, <1>7 DEF IndInv

\* The samples read continue the ring; fewer than asked for at the end.
LEMMA BgReadSourceInv == IndInv /\ BgReadSource => IndInv'
<1> SUFFICES ASSUME IndInv, BgReadSource PROVE IndInv'
  OBVIOUS

<1>n. RingCap \in Nat /\ SourceLen \in Nat /\ srcPos \in Nat /\ bg.want \in Nat /\ Len(ring) \in Nat
      /\ readPos \in Nat /\ positionBase \in Nat /\ Popped \in Nat
      /\ Len(ring) <= RingCap /\ srcPos <= SourceLen
  BY StateNumbers DEF Numbers
<1> DEFINE most == LesserOf(bg.want, SourceLen - srcPos)
<1>0. PICK n \in LesserOf(1, most) .. most :
        /\ bg.pc = "read"
        /\ srcPos' = srcPos + n
        /\ bg' = [BgTop EXCEPT !.from = srcPos, !.n = n,
                               !.pc = IF n = 0 THEN "setEof" ELSE "push"]
  BY DEF BgReadSource
<1>e. bg.want \in 1 .. RingCap - Len(ring)
  BY <1>0 DEF IndInv, RingInv
<1>1a. bg.want > 0
  BY <1>e, <1>n
<1>1b. /\ n \in Nat
       /\ n <= bg.want /\ n <= SourceLen - srcPos
       /\ n = 0 => srcPos = SourceLen
  BY <1>1a, <1>n DEF LesserOf
<1> HIDE DEF most
<1>a. /\ bg.pc = "read"
      /\ n \in Nat
      /\ n <= bg.want /\ n <= SourceLen - srcPos
      /\ n = 0 => srcPos = SourceLen
      /\ srcPos' = srcPos + n
      /\ bg' = [BgTop EXCEPT !.from = srcPos, !.n = n,
                             !.pc = IF n = 0 THEN "setEof" ELSE "push"]
  BY <1>0, <1>1b
<1>b. UNCHANGED <<ring, readPos, positionBase, eof, shutdown, seekTarget,
                  seekGen, appliedGen, resetLock, cb, ctl, history>>
  BY DEF BgReadSource
<1>c. /\ bg'.pc = (IF n = 0 THEN "setEof" ELSE "push")
      /\ bg'.n = n
      /\ bg'.from = srcPos
  BY <1>a DEF BgTop
<1>d. /\ resetLock # "writer"
      /\ cb.pc = "unlockEnded" => srcPos = SourceLen
      /\ srcPos \in 0 .. SourceLen
      /\ ~eof
  BY <1>a DEF IndInv, TypeOK, LockInv, EofInv, Resetting
<1> USE DEF history
<1>1. TypeOK'
  <2>1. bg' \in [pc : BgPcs, gen : Nat, seek : Positions, want : Nat,
               from : 0 .. SourceLen, n : Nat]
    BY <1>a, <1>d, PositionsFacts DEF BgTop, BgPcs
  <2>2. QED
    <3>1. srcPos' \in 0 .. SourceLen
      BY <1>a, <1>n
    <3>2. QED
      BY <1>b, <2>1, <3>1 DEF IndInv, TypeOK
<1>2. LockInv'
  BY <1>a, <1>b, <1>c DEF IndInv, LockInv, Resetting
<1>3. GenInv'
  BY <1>a, <1>b, <1>c DEF IndInv, GenInv, SeekObeyed, Resetting
<1>4. RingInv'
  <2>1. Popped' = Popped /\ InTemp' = n /\ InTemp = 0
    BY <1>a, <1>b, <1>c DEF Popped, InTemp
  <2>2. n <= RingCap - Len(ring)
    BY <1>a, <1>e, <1>n
  <2>3. srcPos = positionBase + readPos + Popped + Len(ring) + 0
    BY <1>a, <2>1 DEF IndInv, RingInv
  <2>4. srcPos' = positionBase + readPos + Popped + Len(ring) + n
    BY <1>a, <2>3, <1>n
  <2>5. QED
    BY <1>a, <1>b, <1>c, <2>1, <2>2, <2>4 DEF IndInv, RingInv
<1>5. ResetInv'
  BY <1>a, <1>b, <1>c DEF IndInv, ResetInv, Resetting
<1>6. HeardInv'
  BY <1>b DEF IndInv, HeardInv, StartsAt
<1>7. EofInv'
  BY <1>a, <1>b, <1>c, <1>d DEF EofInv
<1>8. QED
  BY <1>1, <1>2, <1>3, <1>4, <1>5, <1>6, <1>7 DEF IndInv

\* eof is stored after a read of nothing: the source is at its end.
LEMMA BgStoreEofInv == IndInv /\ BgStoreEof => IndInv'
<1> SUFFICES ASSUME IndInv, BgStoreEof PROVE IndInv'
  OBVIOUS
<1> USE DEF BgStoreEof, BgContinue, BgTop, history
<1>1. TypeOK'
  <2>1. bg' \in [pc : BgPcs, gen : Nat, seek : Positions, want : Nat,
               from : 0 .. SourceLen, n : Nat]
    BY PositionsFacts DEF IndInv, TypeOK, BgPcs
  <2>2. QED
    BY PositionsFacts, <2>1 DEF IndInv, TypeOK
<1>2. LockInv'
  BY DEF IndInv, TypeOK, LockInv, Guarded, Resetting
<1>3. GenInv'
  BY DEF IndInv, TypeOK, LockInv, GenInv, SeekObeyed, Resetting, Validated, Guarded
<1>4. RingInv'
  BY DEF IndInv, TypeOK, LockInv, RingInv, Popped, InTemp, Guarded, Resetting
<1>5. ResetInv'
  BY DEF IndInv, TypeOK, LockInv, ResetInv, Resetting, Guarded
<1>6. HeardInv'
  BY DEF IndInv, TypeOK, GenInv, HeardInv, StartsAt, Validated, Guarded
<1>7. EofInv'
  BY DEF IndInv, TypeOK, EofInv
<1>8. QED
  BY <1>1, <1>2, <1>3, <1>4, <1>5, <1>6, <1>7 DEF IndInv

\* The chunk is appended: the ring stays an interval of the source.
LEMMA BgPushInv == IndInv /\ BgPush => IndInv'
<1> SUFFICES ASSUME IndInv, BgPush PROVE IndInv'
  OBVIOUS
<1> USE DEF BgPush, BgContinue, BgTop, history
<1>n. RingCap \in Nat /\ SourceLen \in Nat /\ srcPos \in Nat /\ bg.from \in Nat /\ bg.n \in Nat
      /\ Len(ring) \in Nat /\ readPos \in Nat /\ positionBase \in Nat /\ Popped \in Nat
      /\ srcPos <= SourceLen
  BY StateNumbers DEF Numbers
<1> DEFINE new == Samples(bg.from, bg.n)
<1>a. /\ bg.n <= RingCap - Len(ring)
      /\ bg.from + bg.n = srcPos
      /\ srcPos = positionBase + readPos + Popped + Len(ring) + bg.n
  BY DEF IndInv, RingInv, InTemp
<1>b. /\ new \in Seq(Positions)
      /\ Len(new) = bg.n
      /\ \A i \in 1 .. bg.n : new[i] = bg.from + i - 1
  <2>1. \A i \in 1 .. bg.n : bg.from + i - 1 \in Positions
    BY <1>a, <1>n DEF Positions
  <2>2. new = [i \in 1 .. bg.n |-> bg.from + i - 1] /\ bg.n \in Nat
    BY <1>n DEF Samples
  <2>3. QED
    <3>1. new \in [1 .. bg.n -> Positions]
      BY <2>1, <2>2
    <3>2. new \in Seq(Positions) /\ Len(new) = bg.n
      <4>1. new \in Seq(Positions)
        BY <2>2, <3>1, SeqDef
      <4>2. DOMAIN new = 1 .. bg.n /\ DOMAIN new = 1 .. Len(new) /\ Len(new) \in Nat
        BY <2>2, <4>1, LenProperties
      <4>3. QED
        BY <2>2, <4>1, <4>2
    <3>3. QED
      BY <2>2, <3>2
<1> HIDE DEF new
<1>c. /\ ring' \in Seq(Positions)
      /\ Len(ring') = Len(ring) + bg.n
      /\ \A i \in 1 .. Len(ring) + bg.n :
            ring'[i] = IF i <= Len(ring) THEN ring[i] ELSE new[i - Len(ring)]
  <2>1. ring' = ring \o new /\ ring \in Seq(Positions)
    BY DEF new, IndInv, TypeOK
  <2>2. /\ ring \o new \in Seq(Positions)
        /\ Len(ring \o new) = Len(ring) + Len(new)
        /\ \A i \in 1 .. Len(ring) + Len(new) :
              (ring \o new)[i] = IF i <= Len(ring) THEN ring[i] ELSE new[i - Len(ring)]
    <3> HIDE DEF BgPush, BgContinue, BgTop, history
    <3> QED
      BY <1>b, <2>1, ConcatProperties
  <2>3. QED
    <3> HIDE DEF BgPush, BgContinue, BgTop, history
    <3> QED
      BY <1>b, <2>1, <2>2, Zenon
<1>1. TypeOK'
  <2>1. bg' \in [pc : BgPcs, gen : Nat, seek : Positions, want : Nat,
               from : 0 .. SourceLen, n : Nat]
    BY PositionsFacts DEF IndInv, TypeOK, BgPcs
  <2>2. QED
    <3>1. Len(ring') <= RingCap
      <4>1. Len(ring') = Len(ring) + bg.n
        BY <1>c, Zenon
      <4> QED
        BY <1>a, <1>n, <4>1
    <3>2. QED
      BY <2>1, <1>c, <3>1 DEF IndInv, TypeOK
<1>2. LockInv'
  BY DEF IndInv, TypeOK, LockInv, Guarded, Resetting
<1>3. GenInv'
  BY DEF IndInv, TypeOK, LockInv, GenInv, SeekObeyed, Resetting, Validated, Guarded
<1>4. RingInv'
  <2>1. Popped' = Popped /\ InTemp' = 0 /\ bg'.pc = "top"
    BY DEF Popped, InTemp
  <2>2. bg.from = positionBase + readPos + Popped + Len(ring)
    <3>1. bg.from + bg.n = positionBase + readPos + Popped + Len(ring) + bg.n
      BY <1>a
    <3>2. QED
      BY <3>1, <1>n
  <2>3. ASSUME NEW i \in 1 .. Len(ring')
        PROVE  ring'[i] = positionBase + readPos + Popped + i - 1
    <3>1. CASE i <= Len(ring)
      <4>1. ring'[i] = ring[i] /\ i \in 1 .. Len(ring)
        BY <3>1, <1>c, <1>n
      <4>2. QED
        BY <4>1 DEF IndInv, RingInv
    <3>2. CASE ~(i <= Len(ring))
      <4>1. i - Len(ring) \in 1 .. bg.n /\ ring'[i] = new[i - Len(ring)]
        BY <3>2, <1>c, <1>n
      <4>2. ring'[i] = bg.from + (i - Len(ring)) - 1
        BY <4>1, <1>b
      <4>3. i \in Int
        OBVIOUS
      <4>4. QED
        BY <4>2, <4>3, <2>2, <1>n
    <3>3. QED
      BY <3>1, <3>2
  <2>4. cb.pc = "pop" => cb.n <= Len(ring')
    <3>1. cb.pc = "pop" => cb.n <= Len(ring)
      BY DEF IndInv, RingInv
    <3>2. Len(ring) <= Len(ring')
      BY <1>c, <1>n
    <3>3. cb.n \in Nat
      BY StateNumbers DEF Numbers
    <3>4. Len(ring') \in Nat
      BY <1>c, <1>n
    <3>5. QED
      BY <3>1, <3>2, <3>3, <3>4, <1>n
  <2>5. srcPos = positionBase + readPos + Popped + Len(ring') + 0
    BY <1>a, <1>c, <1>n
  <2>6. QED
    BY <2>1, <2>3, <2>4, <2>5 DEF IndInv, RingInv
<1>5. ResetInv'
  BY DEF IndInv, TypeOK, LockInv, ResetInv, Resetting, Guarded
<1>6. HeardInv'
  BY DEF IndInv, TypeOK, GenInv, HeardInv, StartsAt, Validated, Guarded
<1>7. EofInv'
  BY DEF IndInv, TypeOK, EofInv
<1>8. QED
  BY <1>1, <1>2, <1>3, <1>4, <1>5, <1>6, <1>7 DEF IndInv

\* The callback notes a generation.
LEMMA CbLoadGenerationInv == IndInv /\ CbLoadGeneration => IndInv'
<1> SUFFICES ASSUME IndInv, CbLoadGeneration PROVE IndInv'
  OBVIOUS
<1> USE DEF CbLoadGeneration, shared, history
<1>1. TypeOK'
  <2>1. cb' \in [pc : CbPcs, gen : Nat, n : Nat, out : Seq(Positions)]
    BY PositionsFacts DEF IndInv, TypeOK, CbPcs
  <2>2. QED
    BY PositionsFacts, <2>1 DEF IndInv, TypeOK
<1>2. LockInv'
  BY DEF IndInv, TypeOK, LockInv, Guarded, Resetting
<1>3. GenInv'
  BY DEF IndInv, TypeOK, LockInv, GenInv, SeekObeyed, Resetting, Validated, Guarded
<1>4. RingInv'
  BY DEF IndInv, TypeOK, LockInv, RingInv, Popped, InTemp, Guarded, Resetting
<1>5. ResetInv'
  BY DEF IndInv, TypeOK, LockInv, ResetInv, Resetting, Guarded
<1>6. HeardInv'
  BY DEF IndInv, TypeOK, GenInv, HeardInv, StartsAt, Validated, Guarded
<1>7. EofInv'
  BY DEF IndInv, TypeOK, EofInv
<1>8. QED
  BY <1>1, <1>2, <1>3, <1>4, <1>5, <1>6, <1>7 DEF IndInv

\* It goes on only when that generation is applied.
LEMMA CbCheckAppliedInv == IndInv /\ CbCheckApplied => IndInv'
<1> SUFFICES ASSUME IndInv, CbCheckApplied PROVE IndInv'
  OBVIOUS
<1> USE DEF CbCheckApplied, CbGoto, shared, history
<1>1. TypeOK'
  <2>1. cb' \in [pc : CbPcs, gen : Nat, n : Nat, out : Seq(Positions)]
    BY PositionsFacts DEF IndInv, TypeOK, CbPcs
  <2>2. QED
    BY PositionsFacts, <2>1 DEF IndInv, TypeOK
<1>2. LockInv'
  BY DEF IndInv, TypeOK, LockInv, Guarded, Resetting
<1>3. GenInv'
  BY DEF IndInv, TypeOK, LockInv, GenInv, SeekObeyed, Resetting, Validated, Guarded
<1>4. RingInv'
  BY DEF IndInv, TypeOK, LockInv, RingInv, Popped, InTemp, Guarded, Resetting
<1>5. ResetInv'
  BY DEF IndInv, TypeOK, LockInv, ResetInv, Resetting, Guarded
<1>6. HeardInv'
  BY DEF IndInv, TypeOK, GenInv, HeardInv, StartsAt, Validated, Guarded
<1>7. EofInv'
  BY DEF IndInv, TypeOK, EofInv
<1>8. QED
  BY <1>1, <1>2, <1>3, <1>4, <1>5, <1>6, <1>7 DEF IndInv

\* It takes the lock, or plays silence while a reset holds it.
LEMMA CbTryReadInv == IndInv /\ CbTryRead => IndInv'
<1> SUFFICES ASSUME IndInv, CbTryRead PROVE IndInv'
  OBVIOUS
<1> USE DEF CbTryRead, CbGoto, history
<1>1. TypeOK'
  <2>1. cb' \in [pc : CbPcs, gen : Nat, n : Nat, out : Seq(Positions)]
    BY PositionsFacts DEF IndInv, TypeOK, CbPcs
  <2>2. QED
    BY PositionsFacts, <2>1 DEF IndInv, TypeOK
<1>2. LockInv'
  BY DEF IndInv, TypeOK, LockInv, Guarded, Resetting
<1>3. GenInv'
  BY DEF IndInv, TypeOK, LockInv, GenInv, SeekObeyed, Resetting, Validated, Guarded
<1>4. RingInv'
  BY DEF IndInv, TypeOK, LockInv, RingInv, Popped, InTemp, Guarded, Resetting
<1>5. ResetInv'
  BY DEF IndInv, TypeOK, LockInv, ResetInv, Resetting, Guarded
<1>6. HeardInv'
  BY DEF IndInv, TypeOK, GenInv, HeardInv, StartsAt, Validated, Guarded
<1>7. EofInv'
  BY DEF IndInv, TypeOK, EofInv
<1>8. QED
  BY <1>1, <1>2, <1>3, <1>4, <1>5, <1>6, <1>7 DEF IndInv

\* It loads the generation again under the lock.
LEMMA CbReloadGenerationInv == IndInv /\ CbReloadGeneration => IndInv'
<1> SUFFICES ASSUME IndInv, CbReloadGeneration PROVE IndInv'
  OBVIOUS
<1> USE DEF CbReloadGeneration, shared, history
<1>1. TypeOK'
  <2>1. cb' \in [pc : CbPcs, gen : Nat, n : Nat, out : Seq(Positions)]
    BY PositionsFacts DEF IndInv, TypeOK, CbPcs
  <2>2. QED
    BY PositionsFacts, <2>1 DEF IndInv, TypeOK
<1>2. LockInv'
  BY DEF IndInv, TypeOK, LockInv, Guarded, Resetting
<1>3. GenInv'
  BY DEF IndInv, TypeOK, LockInv, GenInv, SeekObeyed, Resetting, Validated, Guarded
<1>4. RingInv'
  BY DEF IndInv, TypeOK, LockInv, RingInv, Popped, InTemp, Guarded, Resetting
<1>5. ResetInv'
  BY DEF IndInv, TypeOK, LockInv, ResetInv, Resetting, Guarded
<1>6. HeardInv'
  BY DEF IndInv, TypeOK, GenInv, HeardInv, StartsAt, Validated, Guarded
<1>7. EofInv'
  BY DEF IndInv, TypeOK, EofInv
<1>8. QED
  BY <1>1, <1>2, <1>3, <1>4, <1>5, <1>6, <1>7 DEF IndInv

\* It is validated: base, ring and source belong to its generation.
LEMMA CbRecheckAppliedInv == IndInv /\ CbRecheckApplied => IndInv'
<1> SUFFICES ASSUME IndInv, CbRecheckApplied PROVE IndInv'
  OBVIOUS
<1> USE DEF CbRecheckApplied, CbGoto, history
<1>1. TypeOK'
  <2>1. cb' \in [pc : CbPcs, gen : Nat, n : Nat, out : Seq(Positions)]
    BY PositionsFacts DEF IndInv, TypeOK, CbPcs
  <2>2. QED
    BY PositionsFacts, <2>1 DEF IndInv, TypeOK
<1>2. LockInv'
  BY DEF IndInv, TypeOK, LockInv, Guarded, Resetting
<1>3. GenInv'
  BY DEF IndInv, TypeOK, LockInv, GenInv, SeekObeyed, Resetting, Validated, Guarded
<1>4. RingInv'
  BY DEF IndInv, TypeOK, LockInv, RingInv, Popped, InTemp, Guarded, Resetting
<1>5. ResetInv'
  BY DEF IndInv, TypeOK, LockInv, ResetInv, Resetting, Guarded
<1>6. HeardInv'
  BY DEF IndInv, TypeOK, GenInv, HeardInv, StartsAt, Validated, Guarded
<1>7. EofInv'
  BY DEF IndInv, TypeOK, EofInv
<1>8. QED
  BY <1>1, <1>2, <1>3, <1>4, <1>5, <1>6, <1>7 DEF IndInv

\* It decides how many samples to take.
LEMMA CbOccupiedInv == IndInv /\ CbOccupied => IndInv'
<1> SUFFICES ASSUME IndInv, CbOccupied PROVE IndInv'
  OBVIOUS

<1>n. CallbackLen \in Nat /\ Len(ring) \in Nat
  BY StateNumbers DEF Numbers
<1> DEFINE n == LesserOf(CallbackLen, Len(ring))
<1>a. /\ cb.pc = "occupied"
      /\ cb' = [cb EXCEPT !.n = n, !.pc = IF n = 0 THEN "loadEof" ELSE "pop"]
      /\ UNCHANGED <<shared, bg, ctl, history>>
  BY DEF CbOccupied
<1>b. n \in Nat /\ n <= Len(ring)
  BY <1>n DEF LesserOf
<1> HIDE DEF n
<1>c. cb'.pc \in {"loadEof", "pop"} /\ cb'.n = n /\ cb'.gen = cb.gen
  BY <1>a DEF IndInv, TypeOK
<1> USE DEF shared, history
<1>1. TypeOK'
  <2>1. cb' \in [pc : CbPcs, gen : Nat, n : Nat, out : Seq(Positions)]
    BY <1>a, <1>b DEF IndInv, TypeOK, CbPcs
  <2>2. QED
    BY <1>a, <2>1 DEF IndInv, TypeOK
<1>2. LockInv'
  BY <1>a, <1>b, <1>c DEF IndInv, LockInv, Guarded
<1>3. GenInv'
  BY <1>a, <1>b, <1>c DEF IndInv, GenInv, SeekObeyed, Validated, Guarded
<1>4. RingInv'
  BY <1>a, <1>b, <1>c DEF IndInv, RingInv, Popped, InTemp
<1>5. ResetInv'
  BY <1>a, <1>b, <1>c DEF IndInv, ResetInv
<1>6. HeardInv'
  BY <1>a, <1>b, <1>c DEF IndInv, HeardInv, StartsAt
<1>7. EofInv'
  BY <1>a, <1>b, <1>c DEF IndInv, EofInv
<1>8. QED
  BY <1>1, <1>2, <1>3, <1>4, <1>5, <1>6, <1>7 DEF IndInv

\* An empty ring is the end only when the source is.
LEMMA CbLoadEofInv == IndInv /\ CbLoadEof => IndInv'
<1> SUFFICES ASSUME IndInv, CbLoadEof PROVE IndInv'
  OBVIOUS
<1> USE DEF CbLoadEof, CbGoto, shared, history
<1>1. TypeOK'
  <2>1. cb' \in [pc : CbPcs, gen : Nat, n : Nat, out : Seq(Positions)]
    BY PositionsFacts DEF IndInv, TypeOK, CbPcs
  <2>2. QED
    BY PositionsFacts, <2>1 DEF IndInv, TypeOK
<1>2. LockInv'
  BY DEF IndInv, TypeOK, LockInv, Guarded, Resetting
<1>3. GenInv'
  BY DEF IndInv, TypeOK, LockInv, GenInv, SeekObeyed, Resetting, Validated, Guarded
<1>4. RingInv'
  BY DEF IndInv, TypeOK, LockInv, RingInv, Popped, InTemp, Guarded, Resetting
<1>5. ResetInv'
  BY DEF IndInv, TypeOK, LockInv, ResetInv, Resetting, Guarded
<1>6. HeardInv'
  BY DEF IndInv, TypeOK, GenInv, HeardInv, StartsAt, Validated, Guarded
<1>7. EofInv'
  <2>1. bg.pc \notin Resetting
    BY DEF IndInv, LockInv, Guarded
  <2>2. eof => srcPos = SourceLen
    BY <2>1 DEF IndInv, EofInv, Resetting
  <2>3. QED
    BY <2>2 DEF CbGoto, IndInv, TypeOK, EofInv
<1>8. QED
  BY <1>1, <1>2, <1>3, <1>4, <1>5, <1>6, <1>7 DEF IndInv

\* It takes a prefix of the ring, which continues what was heard.
LEMMA CbPopInv == IndInv /\ CbPop => IndInv'
<1> SUFFICES ASSUME IndInv, CbPop PROVE IndInv'
  OBVIOUS

<1>n. RingCap \in Nat /\ Len(ring) \in Nat /\ cb.n \in Nat /\ readPos \in Nat /\ positionBase \in Nat /\ InTemp \in Nat
      /\ Len(ring) <= RingCap
  BY StateNumbers DEF Numbers
<1>0. /\ cb.pc = "pop"
      /\ cb' = [cb EXCEPT !.pc = "count", !.out = SubSeq(ring, 1, cb.n)]
      /\ ring' = SubSeq(ring, cb.n + 1, Len(ring))
  BY DEF CbPop
<1>u. UNCHANGED <<readPos, positionBase, eof, shutdown, seekTarget, seekGen,
                  appliedGen, resetLock, srcPos, bg, ctl, target, heard>>
  BY DEF CbPop, history
<1>a. cb.n <= Len(ring) /\ cb.n \in Nat /\ ring \in Seq(Positions)
  BY <1>0, <1>n DEF IndInv, RingInv, TypeOK
<1>b. /\ SubSeq(ring, 1, cb.n) \in Seq(Positions)
      /\ Len(SubSeq(ring, 1, cb.n)) = cb.n
      /\ \A i \in 1 .. cb.n : SubSeq(ring, 1, cb.n)[i] = ring[i]
  <2>1. \A i \in 1 .. cb.n : ring[i] \in Positions
    BY <1>a, <1>n, ElementOfSeq
  <2>2. QED
    BY <1>a, <2>1, SubSeqProperties
<1>c. /\ ring' \in Seq(Positions)
      /\ Len(ring') = Len(ring) - cb.n
      /\ \A i \in 1 .. Len(ring) - cb.n : ring'[i] = ring[cb.n + i]
  <2>1. \A i \in cb.n + 1 .. Len(ring) : ring[i] \in Positions
    BY <1>a, <1>n, ElementOfSeq
  <2>2. /\ SubSeq(ring, cb.n + 1, Len(ring)) \in Seq(Positions)
        /\ Len(SubSeq(ring, cb.n + 1, Len(ring))) =
              IF cb.n + 1 <= Len(ring) THEN Len(ring) - (cb.n + 1) + 1 ELSE 0
        /\ \A i \in 1 .. Len(ring) - (cb.n + 1) + 1 :
              SubSeq(ring, cb.n + 1, Len(ring))[i] = ring[(cb.n + 1) + i - 1]
    <3>1. cb.n + 1 \in Int /\ Len(ring) \in Int
      BY <1>n
    <3>2. QED
      BY <2>1, <3>1, SubSeqProperties
  <2>3. QED
    <3>1. Len(ring) - (cb.n + 1) + 1 = Len(ring) - cb.n
      BY <1>n
    <3>2. Len(ring') = Len(ring) - cb.n
      <4>1. Len(ring') = IF cb.n + 1 <= Len(ring) THEN Len(ring) - (cb.n + 1) + 1 ELSE 0
        BY <1>0, <2>2
      <4>2. QED
        BY <4>1, <1>a, <1>n
    <3>3. \A i \in Int : (cb.n + 1) + i - 1 = cb.n + i
      BY <1>n
    <3>4. \A i \in 1 .. Len(ring) - cb.n : i \in Int
      OBVIOUS
    <3>5. QED
      BY <1>0, <2>2, <3>1, <3>2, <3>3, <3>4
<1>d. cb'.pc = "count" /\ cb'.n = cb.n /\ cb'.out = SubSeq(ring, 1, cb.n)
         /\ cb'.gen = cb.gen
  BY <1>0 DEF IndInv, TypeOK
<1>1. TypeOK'
  <2>1. cb' \in [pc : CbPcs, gen : Nat, n : Nat, out : Seq(Positions)]
    BY <1>0, <1>b DEF IndInv, TypeOK, CbPcs
  <2>2. QED
    <3>1. Len(ring') <= RingCap
      <4>1. Len(ring') = Len(ring) - cb.n
        BY <1>c, Zenon
      <4>2. Len(ring) <= RingCap
        BY DEF IndInv, TypeOK
      <4> QED
        BY <1>a, <1>n, <4>1, <4>2
    <3>2. QED
      BY <1>u, <2>1, <1>c, <3>1 DEF IndInv, TypeOK
<1>2. LockInv'
  BY <1>0, <1>d, <1>u DEF IndInv, LockInv, Guarded
<1>3. GenInv'
  BY <1>0, <1>d, <1>u DEF IndInv, GenInv, SeekObeyed, Validated, Guarded
<1>4. RingInv'
  <2>1. Popped' = cb.n /\ InTemp' = InTemp /\ Popped = 0
    BY <1>0, <1>d, <1>u DEF Popped, InTemp
  <2>2. \A i \in 1 .. Len(ring) : ring[i] = positionBase + readPos + i - 1
    BY <2>1, <1>n DEF IndInv, RingInv
  <2>3. \A i \in 1 .. Len(ring') : ring'[i] = positionBase + readPos + cb.n + i - 1
    <3>1. TAKE i \in 1 .. Len(ring')
    <3>2. i \in 1 .. Len(ring) - cb.n
      BY <1>c
    <3>3. cb.n + i \in 1 .. Len(ring) /\ i \in Int
      BY <3>2, <1>n
    <3>4. ring'[i] = ring[cb.n + i]
      BY <3>2, <1>c
    <3>5. ring[cb.n + i] = positionBase + readPos + (cb.n + i) - 1
      BY <3>3, <2>2
    <3>6. QED
      BY <3>3, <3>4, <3>5, <1>n
  <2>4. \A i \in 1 .. cb.n : cb'.out[i] = positionBase + readPos + i - 1
    BY <1>a, <1>b, <1>d, <2>2, <1>n
  <2>5. Len(cb'.out) = cb'.n
    BY <1>b, <1>d
  <2>6. bg.pc \notin {"clear", "setBase", "zeroRead"} =>
           srcPos = positionBase + readPos + cb.n + Len(ring') + InTemp
    <3>1. bg.pc \notin {"clear", "setBase", "zeroRead"} =>
             srcPos = positionBase + readPos + Popped + Len(ring) + InTemp
      BY DEF IndInv, RingInv
    <3>2. Popped + Len(ring) = cb.n + Len(ring')
      BY <2>1, <1>c, <1>n
    <3>3. QED
      BY <3>1, <3>2, <2>1, <1>c, <1>n
  <2>7. RingCap - Len(ring) <= RingCap - Len(ring')
    BY <1>a, <1>c, <1>n
  <2>8. /\ bg.pc = "read" => bg.want \in 1 .. RingCap - Len(ring')
        /\ bg.pc = "push" => bg.n <= RingCap - Len(ring') /\ bg.from + bg.n = srcPos
    <3>1. /\ bg.pc = "read" => bg.want \in 1 .. RingCap - Len(ring)
          /\ bg.pc = "push" => bg.n <= RingCap - Len(ring) /\ bg.from + bg.n = srcPos
      BY DEF IndInv, RingInv
    <3>2. bg.n \in Nat /\ bg.want \in Nat
      BY StateNumbers DEF Numbers
    <3>3. Len(ring') \in Nat
      BY <1>a, <1>c, <1>n
    <3>4. QED
      BY <3>1, <3>2, <3>3, <2>7, <1>n
  <2>9. QED
    BY <1>d, <1>u, <2>1, <2>3, <2>4, <2>5, <2>6, <2>8 DEF RingInv
<1>5. ResetInv'
  <2>1. bg.pc \notin Resetting
    BY <1>0, StateNumbers DEF IndInv, LockInv, Guarded
  <2>2. QED
    BY <2>1, <1>u DEF ResetInv, Resetting
<1>6. HeardInv'
  BY <1>0, <1>d, <1>u DEF IndInv, HeardInv, StartsAt
<1>7. EofInv'
  BY <1>0, <1>d, <1>u DEF IndInv, EofInv
<1>8. QED
  BY <1>1, <1>2, <1>3, <1>4, <1>5, <1>6, <1>7 DEF IndInv

\* It counts what it took: base and count name the ring's first sample.
LEMMA CbCountInv == IndInv /\ CbCount => IndInv'
<1> SUFFICES ASSUME IndInv, CbCount PROVE IndInv'
  OBVIOUS
<1> USE DEF CbCount, CbGoto
<1>n. readPos \in Nat /\ positionBase \in Nat /\ cb.n \in Nat /\ Len(heard) \in Nat
  BY StateNumbers DEF Numbers
<1>a. /\ cb.out \in Seq(Positions) /\ Len(cb.out) = cb.n
      /\ \A i \in 1 .. cb.n : cb.out[i] = positionBase + readPos + i - 1
      /\ cb.gen = appliedGen
  BY DEF IndInv, TypeOK, RingInv, GenInv, Validated, Guarded
<1>b. /\ heard \o cb.out \in Seq(Positions)
      /\ Len(heard \o cb.out) = Len(heard) + cb.n
      /\ \A i \in 1 .. Len(heard) + cb.n : (heard \o cb.out)[i] =
            IF i <= Len(heard) THEN heard[i] ELSE cb.out[i - Len(heard)]
  <2>1. heard \in Seq(Positions)
    BY DEF IndInv, TypeOK
  <2>2. QED
    BY <1>a, <2>1, ConcatProperties
<1>c. Popped = cb.n /\ Popped' = 0 /\ InTemp' = InTemp /\ cb'.pc = "unlockAudio"
  BY DEF IndInv, TypeOK, Popped, InTemp
<1>1. TypeOK'
  <2>1. cb' \in [pc : CbPcs, gen : Nat, n : Nat, out : Seq(Positions)]
    BY PositionsFacts DEF IndInv, TypeOK, CbPcs
  <2>2. QED
    <3>1. readPos' \in Nat
      BY <1>n
    <3>2. heard' \in Seq(Positions)
      BY <1>b DEF IndInv, TypeOK
    <3>3. QED
      BY <2>1, <3>1, <3>2 DEF IndInv, TypeOK
<1>2. LockInv'
  BY DEF IndInv, TypeOK, LockInv, Guarded, Resetting
<1>3. GenInv'
  BY DEF IndInv, TypeOK, LockInv, GenInv, SeekObeyed, Resetting, Validated, Guarded
<1>4. RingInv'
  <2>1. positionBase + readPos + cb.n = positionBase + readPos' + 0
    BY <1>n
  <2>2. \A i \in 1 .. Len(ring) : ring[i] = positionBase + readPos' + Popped' + i - 1
    BY <1>c, <2>1, <1>n DEF IndInv, RingInv
  <2>3. bg.pc \notin {"clear", "setBase", "zeroRead"} =>
           srcPos = positionBase + readPos' + Popped' + Len(ring) + InTemp
    BY <1>c, <2>1 DEF IndInv, RingInv
  <2>4. QED
    BY <1>c, <2>2, <2>3 DEF IndInv, RingInv
<1>5. ResetInv'
  BY DEF IndInv, TypeOK, LockInv, ResetInv, Resetting, Guarded
<1>6. HeardInv'
  <2>1. CASE appliedGen # seekGen
    BY <2>1, <1>a DEF IndInv, HeardInv
  <2>2. CASE appliedGen = seekGen
    <3>1. /\ heard' = heard \o cb.out
          /\ Len(heard) = readPos
          /\ \A i \in 1 .. Len(heard) : heard[i] = positionBase + i - 1
      BY <2>2, <1>a DEF IndInv, HeardInv, StartsAt
    <3>2. Len(heard') = readPos'
      BY <3>1, <1>b
    <3>3. ASSUME NEW i \in 1 .. Len(heard')
          PROVE  heard'[i] = positionBase + i - 1
      <4>1. CASE i <= Len(heard)
        BY <4>1, <3>1, <1>b, <1>n
      <4>2. CASE ~(i <= Len(heard))
        <5>1. i - Len(heard) \in 1 .. cb.n /\ heard'[i] = cb.out[i - Len(heard)]
          BY <4>2, <3>1, <1>b, <1>n
        <5>2. heard'[i] = positionBase + readPos + (i - Len(heard)) - 1 /\ i \in Int
          BY <5>1, <1>a
        <5>3. QED
          BY <5>2, <3>1, <1>n
      <4>3. QED
        BY <4>1, <4>2
    <3>4. QED
      BY <2>2, <3>2, <3>3 DEF HeardInv, StartsAt
  <2>3. QED
    BY <2>1, <2>2
<1>7. EofInv'
  BY DEF IndInv, TypeOK, EofInv
<1>8. QED
  BY <1>1, <1>2, <1>3, <1>4, <1>5, <1>6, <1>7 DEF IndInv

\* It leaves the lock.
LEMMA CbUnlockInv == IndInv /\ CbUnlock => IndInv'
<1> SUFFICES ASSUME IndInv, CbUnlock PROVE IndInv'
  OBVIOUS
<1> USE DEF CbUnlock, CbGoto, history
<1>1. TypeOK'
  <2>1. cb' \in [pc : CbPcs, gen : Nat, n : Nat, out : Seq(Positions)]
    BY PositionsFacts DEF IndInv, TypeOK, CbPcs
  <2>2. QED
    BY PositionsFacts, <2>1 DEF IndInv, TypeOK
<1>2. LockInv'
  BY DEF IndInv, TypeOK, LockInv, Guarded, Resetting
<1>3. GenInv'
  BY DEF IndInv, TypeOK, LockInv, GenInv, SeekObeyed, Resetting, Validated, Guarded
<1>4. RingInv'
  BY DEF IndInv, TypeOK, LockInv, RingInv, Popped, InTemp, Guarded, Resetting
<1>5. ResetInv'
  BY DEF IndInv, TypeOK, LockInv, ResetInv, Resetting, Guarded
<1>6. HeardInv'
  BY DEF IndInv, TypeOK, GenInv, HeardInv, StartsAt, Validated, Guarded
<1>7. EofInv'
  BY DEF IndInv, TypeOK, EofInv
<1>8. QED
  BY <1>1, <1>2, <1>3, <1>4, <1>5, <1>6, <1>7 DEF IndInv

\* It returns to the mixer.
LEMMA CbReturnInv == IndInv /\ CbReturn => IndInv'
<1> SUFFICES ASSUME IndInv, CbReturn PROVE IndInv'
  OBVIOUS
<1> USE DEF CbReturn, CbIdle, shared, history
<1>1. TypeOK'
  <2>1. cb' \in [pc : CbPcs, gen : Nat, n : Nat, out : Seq(Positions)]
    BY PositionsFacts DEF IndInv, TypeOK, CbPcs
  <2>2. QED
    BY PositionsFacts, <2>1 DEF IndInv, TypeOK
<1>2. LockInv'
  BY DEF IndInv, TypeOK, LockInv, Guarded, Resetting
<1>3. GenInv'
  BY DEF IndInv, TypeOK, LockInv, GenInv, SeekObeyed, Resetting, Validated, Guarded
<1>4. RingInv'
  BY DEF IndInv, TypeOK, LockInv, RingInv, Popped, InTemp, Guarded, Resetting
<1>5. ResetInv'
  BY DEF IndInv, TypeOK, LockInv, ResetInv, Resetting, Guarded
<1>6. HeardInv'
  BY DEF IndInv, TypeOK, GenInv, HeardInv, StartsAt, Validated, Guarded
<1>7. EofInv'
  BY DEF IndInv, TypeOK, EofInv
<1>8. QED
  BY <1>1, <1>2, <1>3, <1>4, <1>5, <1>6, <1>7 DEF IndInv

-----------------------------------------------------------------------------
(* The theorems *)

\* A new source satisfies the invariant.
LEMMA InitInv == Init => IndInv
<1> SUFFICES ASSUME Init PROVE IndInv
  OBVIOUS
<1> USE SizesAssumption, PositionsFacts DEF Init, BgTop, CbIdle, CtlIdle
<1>1. TypeOK
  <2>1. bg \in [pc : BgPcs, gen : Nat, seek : Positions, want : Nat,
               from : 0 .. SourceLen, n : Nat]
    BY DEF BgPcs
  <2>2. cb \in [pc : CbPcs, gen : Nat, n : Nat, out : Seq(Positions)]
    BY DEF CbPcs
  <2>3. ctl \in [pc : CtlPcs, gen : Nat, base : Positions, floor : Nat, out : Nat]
    BY DEF CtlPcs
  <2>4. ring \in Seq(Positions) /\ Len(ring) <= RingCap /\ heard \in Seq(Positions)
    OBVIOUS
  <2>5. QED
    BY <2>1, <2>2, <2>3, <2>4 DEF TypeOK
<1>2. LockInv /\ GenInv /\ ResetInv
  BY DEF LockInv, GenInv, ResetInv, SeekObeyed, Guarded, Validated, Resetting
<1>3. RingInv /\ HeardInv /\ EofInv
  BY DEF RingInv, HeardInv, EofInv, StartsAt, Popped, InTemp
<1>4. QED
  BY <1>1, <1>2, <1>3 DEF IndInv

\* A step of another system satisfies the invariant.
LEMMA StutterInv == IndInv /\ UNCHANGED vars => IndInv'
BY DEF IndInv, TypeOK, LockInv, GenInv, RingInv, ResetInv, HeardInv, EofInv,
       StartsAt, SeekObeyed, Popped, InTemp, vars, shared, history

\* Every step of the controlling thread.
LEMMA ControlInv == IndInv /\ Control => IndInv'
BY SeekStoreTargetInv, SeekBumpGenerationInv, PositionLoadGenerationInv,
   PositionLoadAppliedInv, PositionLoadTargetInv, PositionLoadBaseInv,
   PositionLoadReadInv, PositionReturnInv, DropInv DEF Control

\* Every step of the background thread.
LEMMA BackgroundInv == IndInv /\ Background => IndInv'
BY BgCheckShutdownInv, BgLoadGenerationInv, BgLoadTargetInv, BgLockResetInv,
   BgSeekSourceInv, BgClearRingInv, BgStoreBaseInv, BgZeroReadPosInv,
   BgClearEofInv, BgApplyGenerationInv, BgUnlockResetInv, BgVacantInv,
   BgReadSourceInv, BgStoreEofInv, BgPushInv DEF Background

\* Every step of the audio callback.
LEMMA CallbackInv == IndInv /\ Callback => IndInv'
BY CbLoadGenerationInv, CbCheckAppliedInv, CbTryReadInv, CbReloadGenerationInv,
   CbRecheckAppliedInv, CbOccupiedInv, CbLoadEofInv, CbPopInv, CbCountInv,
   CbUnlockInv, CbReturnInv DEF Callback

\* Every reachable state satisfies the inductive invariant, and so its type
\* invariant: for every source, ring, chunk and callback length and any number
\* of seeks.
THEOREM Invariance == Spec => []IndInv
<1>1. IndInv /\ [Next]_vars => IndInv'
  BY StutterInv, ControlInv, BackgroundInv, CallbackInv DEF Next
<1>2. QED
  BY InitInv, <1>1, PTL DEF Spec

\* No sample of before a seek is heard after it, and none is skipped or repeated:
\* the seek generations of seek, bg_loop and read do their work.
THEOREM SeekCorrect == Spec => []HeardFromTarget
<1>1. IndInv => HeardFromTarget
  <2>1. CASE appliedGen # seekGen
    BY <2>1 DEF IndInv, HeardInv, HeardFromTarget, StartsAt
  <2>2. CASE appliedGen = seekGen
    BY <2>2 DEF IndInv, GenInv, HeardInv, HeardFromTarget, SeekObeyed, StartsAt
  <2>3. QED
    BY <2>1, <2>2
<1>2. QED
  BY Invariance, <1>1, PTL

\* A read that reports the end of the source never does so on the eof flag of a
\* pass before the last seek.
THEOREM EndCorrect == Spec => []EndedAtSourceEnd
<1>1. IndInv => EndedAtSourceEnd
  BY DEF IndInv, EofInv, EndedAtSourceEnd
<1>2. QED
  BY Invariance, <1>1, PTL

-----------------------------------------------------------------------------
(* position() is honest, and the three threads implement SeekableSource *)

\* While a generation is applied that is the newest, none is being applied.
LEMMA AppliedStays == IndInv /\ appliedGen = seekGen /\ Background => appliedGen' = appliedGen
<1> SUFFICES ASSUME IndInv, appliedGen = seekGen, Background
             PROVE  appliedGen' = appliedGen
  OBVIOUS
<1>1. CASE BgApplyGeneration
  <2>1. bg.pc = "apply"
    BY <1>1 DEF BgApplyGeneration
  <2>2. appliedGen < bg.gen /\ bg.gen <= seekGen
    BY <2>1 DEF IndInv, GenInv, Resetting
  <2>3. appliedGen \in Nat /\ bg.gen \in Nat /\ seekGen \in Nat
    BY StateNumbers DEF Numbers
  <2>4. QED
    BY <2>2, <2>3
<1>2. CASE ~BgApplyGeneration
  BY <1>2 DEF Background, BgCheckShutdown, BgLoadGeneration, BgLoadTarget, BgLockReset,
     BgSeekSource, BgClearRing, BgStoreBase, BgZeroReadPos, BgClearEof, BgUnlockReset,
     BgVacant, BgReadSource, BgStoreEof, BgPush, shared
<1>3. QED
  BY <1>1, <1>2

\* The background thread leaves a call of position and the timeline alone.
LEMMA BackgroundLeaves == Background => UNCHANGED <<ctl, target, heard, seekGen, seekTarget>>
BY DEF Background, BgCheckShutdown, BgLoadGeneration, BgLoadTarget, BgLockReset,
   BgSeekSource, BgClearRing, BgStoreBase, BgZeroReadPos, BgClearEof, BgApplyGeneration,
   BgUnlockReset, BgVacant, BgReadSource, BgStoreEof, BgPush, shared, history

\* The callback only adds to what has been heard.
LEMMA CallbackAdds ==
    IndInv /\ Callback =>
        /\ UNCHANGED <<ctl, target, seekGen, seekTarget, appliedGen, positionBase>>
        /\ Len(heard) <= Len(heard')
<1> SUFFICES ASSUME IndInv, Callback
             PROVE  /\ UNCHANGED <<ctl, target, seekGen, seekTarget, appliedGen, positionBase>>
                    /\ Len(heard) <= Len(heard')
  OBVIOUS
<1>1. heard \in Seq(Positions) /\ cb.out \in Seq(Positions)
  BY DEF IndInv, TypeOK
<1>2. Len(heard) \in Nat /\ Len(cb.out) \in Nat
  BY <1>1, LenProperties
<1>3. CASE CbCount
  <2>1. Len(heard \o cb.out) = Len(heard) + Len(cb.out)
    BY <1>1, ConcatProperties
  <2>2. QED
    BY <1>2, <1>3, <2>1 DEF CbCount
<1>4. CASE ~CbCount
  BY <1>2, <1>4 DEF Callback, CbLoadGeneration, CbCheckApplied, CbTryRead, CbReloadGeneration,
     CbRecheckApplied, CbOccupied, CbLoadEof, CbPop, CbUnlock, CbReturn, shared, history
<1>5. QED
  BY <1>3, <1>4

\* Every step of the controlling thread keeps the promise of position.
LEMMA ControlAnswers == IndInv /\ IndInv' /\ AnswerInv /\ Control => AnswerInv'
<1> SUFFICES ASSUME IndInv, IndInv', AnswerInv, Control
             PROVE  AnswerInv'
  OBVIOUS
<1> USE DEF AnswerInv, Asking, PositionHonest
<1>0. /\ ctl \in [pc : CtlPcs, gen : Nat, base : Positions, floor : Nat, out : Nat]
      /\ readPos \in Nat /\ Len(heard) \in Nat /\ target \in Nat
  BY PositionsFacts, LenProperties DEF IndInv, TypeOK
<1>1. CASE SeekStoreTarget
  BY <1>0, <1>1 DEF SeekStoreTarget
<1>2. CASE SeekBumpGeneration
  BY <1>2 DEF SeekBumpGeneration, CtlIdle
<1>3. CASE PositionLoadGeneration
  BY <1>0, <1>3 DEF PositionLoadGeneration, shared, history
<1>4. CASE PositionLoadApplied
  <2>1. UNCHANGED <<seekGen, appliedGen, heard, target>> /\ ctl.gen = seekGen
    BY <1>4 DEF PositionLoadApplied, shared, history
  <2>2. CASE ctl.gen # appliedGen
    <3>1. heard = <<>>
      BY <2>1, <2>2 DEF IndInv, HeardInv
    <3>2. ctl.floor = 0
      BY <1>0, <1>4, <3>1 DEF PositionLoadApplied
    <3>3. QED
      BY <1>0, <1>4, <2>1, <2>2, <3>2 DEF PositionLoadApplied
  <2>3. CASE ctl.gen = appliedGen
    BY <1>0, <1>4, <2>1, <2>3 DEF PositionLoadApplied
  <2>4. QED
    BY <2>2, <2>3
<1>5. CASE PositionLoadTarget
  <2>1. seekTarget = target
    BY <1>5 DEF PositionLoadTarget, IndInv, GenInv
  <2>2. /\ ctl' = [ctl EXCEPT !.pc = "posReturn", !.out = target]
        /\ UNCHANGED <<target, heard, seekGen>>
    BY <1>5, <2>1 DEF PositionLoadTarget, shared, history
  <2>3. ctl.floor = 0 /\ ctl.floor <= Len(heard) /\ ctl.gen = seekGen
    BY <1>5 DEF PositionLoadTarget
  <2>4. QED
    BY <1>0, <2>2, <2>3
<1>6. CASE PositionLoadBase
  <2>1. positionBase = target
    BY <1>6 DEF PositionLoadBase, IndInv, GenInv, SeekObeyed
  <2>2. QED
    BY <1>0, <1>6, <2>1 DEF PositionLoadBase, shared, history
<1>7. CASE PositionLoadRead
  <2>1. readPos = Len(heard)
    BY <1>7 DEF PositionLoadRead, IndInv, HeardInv
  <2>2. /\ ctl' = [ctl EXCEPT !.pc = "posReturn", !.base = 0, !.out = target + Len(heard)]
        /\ UNCHANGED <<target, heard, seekGen>>
    BY <1>7, <2>1 DEF PositionLoadRead, shared, history
  <2>3. ctl.floor <= Len(heard) /\ ctl.gen = seekGen
    BY <1>7 DEF PositionLoadRead
  <2>4. QED
    BY <1>0, <2>2, <2>3
<1>8. CASE PositionReturn
  BY <1>8 DEF PositionReturn, CtlIdle
<1>9. CASE Drop
  BY <1>9 DEF Drop, history
<1>10. QED
  BY <1>1, <1>2, <1>3, <1>4, <1>5, <1>6, <1>7, <1>8, <1>9 DEF Control

\* Every step of the program does.
LEMMA StepAnswers == IndInv /\ IndInv' /\ AnswerInv /\ [Next]_vars => AnswerInv'
<1> SUFFICES ASSUME IndInv, IndInv', AnswerInv, [Next]_vars
             PROVE  AnswerInv'
  OBVIOUS
<1>0. /\ ctl \in [pc : CtlPcs, gen : Nat, base : Positions, floor : Nat, out : Nat]
      /\ target \in Nat /\ Len(heard) \in Nat /\ Len(heard') \in Nat
  BY PositionsFacts, LenProperties DEF IndInv, TypeOK
<1>1. CASE Background
  <2>1. ctl.pc \in {"posBase", "posRead"} => appliedGen' = seekGen'
    BY <1>1, AppliedStays, BackgroundLeaves DEF AnswerInv
  <2>2. QED
    BY <1>1, <2>1, BackgroundLeaves DEF AnswerInv, Asking, PositionHonest
<1>2. CASE Callback
  BY <1>0, <1>2, CallbackAdds DEF AnswerInv, Asking, PositionHonest
<1>3. CASE Control
  BY <1>3, ControlAnswers
<1>4. CASE UNCHANGED vars
  BY <1>4 DEF AnswerInv, Asking, PositionHonest, vars, shared, history
<1>5. QED
  BY <1>1, <1>2, <1>3, <1>4 DEF Next

\* The two invariants hold of every reachable state.
LEMMA AnswerInvariance == Spec => [](IndInv /\ AnswerInv)
<1>1. Init => AnswerInv
  BY DEF Init, AnswerInv, Asking, PositionHonest, CtlIdle
<1>2. QED
  BY <1>1, Invariance, StepAnswers, PTL DEF Spec

\* The atomics, the ring and the locals of the threads keep their types, and the
\* ring never holds more than its capacity, for every length of source, ring,
\* chunk and callback.
THEOREM TypeCorrect == Spec => []TypeOK
<1>1. IndInv => TypeOK
  BY DEF IndInv
<1>2. QED
  BY Invariance, <1>1, PTL

\* position() answers with a place between what had been heard when it was
\* called and what has been heard when it returns, during a reset too.
THEOREM PositionCorrect == Spec => []PositionHonest
<1>1. AnswerInv => PositionHonest
  BY DEF AnswerInv
<1>2. QED
  BY AnswerInvariance, <1>1, PTL
-----------------------------------------------------------------------------
(* The refinement *)

\* Outside a call of seek, the seek in force is the last one.
LEMMA InForceIsTarget == IndInv /\ ctl.pc # "seek" => InForce = target
BY DEF IndInv, GenInv, SeekObeyed, InForce

\* seek stores its target unseen and takes effect with the new generation.
LEMMA SeekRefines ==
    IndInv /\ IndInv' /\ (SeekStoreTarget \/ SeekBumpGeneration) =>
        [Provider!Next]_(Provider!vars)
<1> SUFFICES ASSUME IndInv, IndInv', SeekStoreTarget \/ SeekBumpGeneration
             PROVE  [Provider!Next]_(Provider!vars)
  OBVIOUS
<1>1. CASE SeekStoreTarget
  BY <1>1 DEF SeekStoreTarget, history, Provider!vars, InForce, Asking, IndInv, TypeOK
<1>2. CASE SeekBumpGeneration
  <2>1. InForce' \in 0 .. SourceLen - 1
    BY DEF IndInv, TypeOK, InForce, Positions
  <2>2. ctl.pc = "seek" /\ ctl'.pc = "idle" /\ heard' = <<>>
    BY <1>2 DEF SeekBumpGeneration, CtlIdle
  <2>3. Provider!Seek
    BY <2>1, <2>2 DEF Provider!Seek, Provider!NoCall, Asking
  <2>4. QED
    BY <2>3 DEF Provider!Next
<1>3. QED
  BY <1>1, <1>2

\* A call of position is asked, answered and returned, and otherwise unseen.
LEMMA PositionRefines ==
    IndInv /\ IndInv' /\ AnswerInv' /\ Control /\ ~SeekStoreTarget /\ ~SeekBumpGeneration =>
        [Provider!Next]_(Provider!vars)
<1> SUFFICES ASSUME IndInv, IndInv', AnswerInv', Control, ~SeekStoreTarget, ~SeekBumpGeneration
             PROVE  [Provider!Next]_(Provider!vars)
  OBVIOUS
<1>0. ctl \in [pc : CtlPcs, gen : Nat, base : Positions, floor : Nat, out : Nat]
  BY DEF IndInv, TypeOK
<1>a. UNCHANGED <<InForce, heard, target>>
  BY DEF Control, PositionLoadGeneration, PositionLoadApplied, PositionLoadTarget,
     PositionLoadBase, PositionLoadRead, PositionReturn, Drop, shared, history, InForce
<1>1. CASE PositionLoadGeneration
  <2>1. Provider!Ask
    BY <1>0, <1>1, <1>a DEF PositionLoadGeneration, Provider!Ask, Provider!NoCall, Asking
  <2>2. QED
    BY <2>1 DEF Provider!Next
<1>2. CASE PositionLoadApplied \/ PositionLoadBase \/ Drop
  BY <1>0, <1>2, <1>a DEF PositionLoadApplied, PositionLoadBase, Drop, Provider!vars, Asking
<1>3. CASE PositionLoadTarget \/ PositionLoadRead
  <2>1. /\ ctl.pc \in {"posTarget", "posRead"} /\ ctl'.pc = "posReturn"
        /\ ctl'.floor = ctl.floor
    BY <1>0, <1>3 DEF PositionLoadTarget, PositionLoadRead
  <2>2. target' + ctl'.floor <= ctl'.out /\ ctl'.out <= target' + Len(heard')
    BY <2>1 DEF AnswerInv, PositionHonest
  <2>3. InForce = target
    BY <2>1, InForceIsTarget
  <2>4. /\ ctl'.out \in Nat /\ target \in Nat /\ Len(heard) \in Nat /\ ctl.floor \in Nat
    BY <1>0, PositionsFacts, LenProperties DEF IndInv, TypeOK
  <2>5. ctl'.out \in InForce + ctl.floor .. InForce + Len(heard)
    BY <1>a, <2>1, <2>2, <2>3, <2>4
  <2>6. Provider!Answer
    BY <1>a, <2>1, <2>4, <2>5 DEF Provider!Answer, Provider!NoCall, Asking
  <2>7. QED
    BY <2>6 DEF Provider!Next
<1>4. CASE PositionReturn
  <2>1. ctl.pc = "posReturn" /\ ctl'.pc = "idle" /\ ctl.out # -1
    BY <1>0, <1>4 DEF PositionReturn, CtlIdle
  <2>2. Provider!Return
    BY <1>a, <2>1 DEF Provider!Return, Provider!NoCall, Asking
  <2>3. QED
    BY <2>2 DEF Provider!Next
<1>5. QED
  BY <1>1, <1>2, <1>3, <1>4 DEF Control

\* The background thread is unseen, but for a reset that obeys a seek before the
\* call of seek has returned.
LEMMA BackgroundRefines ==
    IndInv /\ IndInv' /\ Background => [Provider!Next]_(Provider!vars)
<1> SUFFICES ASSUME IndInv, IndInv', Background
             PROVE  [Provider!Next]_(Provider!vars)
  OBVIOUS
<1>a. UNCHANGED <<ctl, target, heard, seekGen, seekTarget>>
  BY BackgroundLeaves
<1>1. CASE BgApplyGeneration
  <2>1. bg.pc = "apply" /\ appliedGen' = bg.gen /\ positionBase' = positionBase
    BY <1>1 DEF BgApplyGeneration
  <2>2. appliedGen < bg.gen /\ bg.gen <= seekGen /\ positionBase = bg.seek
    BY <2>1 DEF IndInv, GenInv, ResetInv, Resetting
  <2>3. appliedGen \in Nat /\ bg.gen \in Nat /\ seekGen \in Nat
    BY StateNumbers DEF Numbers
  <2>4. appliedGen # seekGen
    BY <2>2, <2>3
  <2>5. heard = <<>> /\ InForce = target
    BY <2>4 DEF IndInv, HeardInv, InForce
  <2>6. CASE InForce' = InForce
    BY <1>a, <2>6 DEF Provider!vars, Asking
  <2>7. CASE InForce' # InForce
    <3>1. bg.gen = seekGen
      BY <1>a, <2>1, <2>5, <2>7 DEF InForce
    <3>2. ctl.pc = "seek"
      BY <1>a, <2>1, <2>2, <2>5, <2>7, <3>1 DEF IndInv, GenInv, Resetting, SeekObeyed, InForce
    <3>3. InForce' \in 0 .. SourceLen - 1
      BY DEF IndInv, TypeOK, InForce, Positions
    <3>4. Provider!Seek
      BY <1>a, <2>5, <3>2, <3>3 DEF Provider!Seek, Provider!NoCall, Asking
    <3>5. QED
      BY <3>4 DEF Provider!Next
  <2>8. QED
    BY <2>6, <2>7
<1>2. CASE BgStoreBase
  <2>1. bg.pc = "setBase" /\ appliedGen' = appliedGen
    BY <1>2 DEF BgStoreBase
  <2>2. appliedGen < bg.gen /\ bg.gen <= seekGen
    BY <2>1 DEF IndInv, GenInv, Resetting
  <2>3. appliedGen \in Nat /\ bg.gen \in Nat /\ seekGen \in Nat
    BY StateNumbers DEF Numbers
  <2>4. appliedGen # seekGen
    BY <2>2, <2>3
  <2>5. InForce' = InForce
    BY <1>a, <2>1, <2>4 DEF InForce
  <2>6. QED
    BY <1>a, <2>5 DEF Provider!vars, Asking
<1>3. CASE ~BgApplyGeneration /\ ~BgStoreBase
  <2>1. UNCHANGED <<appliedGen, positionBase>>
    BY <1>3 DEF Background, BgCheckShutdown, BgLoadGeneration, BgLoadTarget, BgLockReset,
       BgSeekSource, BgClearRing, BgZeroReadPos, BgClearEof, BgUnlockReset, BgVacant,
       BgReadSource, BgStoreEof, BgPush, shared
  <2>2. QED
    BY <1>a, <2>1 DEF Provider!vars, InForce, Asking
<1>4. QED
  BY <1>1, <1>2, <1>3

\* What the callback hands out are the next samples of the source.
LEMMA CountHears == IndInv /\ IndInv' /\ CbCount => Provider!Hear \/ UNCHANGED Provider!vars
<1> SUFFICES ASSUME IndInv, IndInv', CbCount
             PROVE  Provider!Hear \/ UNCHANGED Provider!vars
  OBVIOUS
<1>1. cb.pc = "count" /\ heard' = IF cb.gen = seekGen THEN heard \o cb.out ELSE heard
  BY DEF CbCount
<1>2. UNCHANGED <<ctl, target, seekGen, appliedGen, positionBase, InForce>>
  BY DEF CbCount, InForce
<1>3. CASE cb.gen # seekGen \/ cb.n = 0
  <2>1. heard' = heard
    <3>1. CASE cb.gen # seekGen
      BY <1>1, <3>1
    <3>2. CASE cb.n = 0
      <4>1. cb.out = <<>>
        BY <1>1, <3>2, EmptySeq DEF IndInv, TypeOK, RingInv
      <4>2. QED
        BY <1>1, <4>1 DEF IndInv, TypeOK
    <3>3. QED
      BY <1>3, <3>1, <3>2
  <2>2. QED
    BY <1>2, <2>1 DEF Provider!vars, Asking
<1>4. CASE cb.gen = seekGen /\ cb.n # 0
  <2>1. /\ cb.gen = appliedGen
        /\ Len(cb.out) = cb.n
        /\ \A i \in 1 .. cb.n : cb.out[i] = positionBase + readPos + i - 1
    BY <1>1 DEF IndInv, GenInv, RingInv, Validated, Guarded
  <2>2. Len(heard) = readPos /\ InForce = positionBase
    BY <1>4, <2>1 DEF IndInv, HeardInv, InForce
  <2>3. /\ readPos \in Nat /\ positionBase \in Nat /\ cb.n \in Nat /\ srcPos \in Nat
        /\ srcPos <= SourceLen /\ Len(ring) \in Nat /\ InTemp \in Nat /\ SourceLen \in Nat
    BY StateNumbers DEF Numbers
  <2>4. srcPos = positionBase + readPos + cb.n + Len(ring) + InTemp
    BY <1>1 DEF IndInv, LockInv, RingInv, Popped, Guarded, Resetting
  <2>5. cb.n \in 1 .. SourceLen - InForce - Len(heard)
    BY <1>4, <2>2, <2>3, <2>4
  <2>6. cb.out = [i \in 1 .. cb.n |-> InForce + Len(heard) + i - 1]
    <3>1. cb.out \in Seq(Positions)
      BY DEF IndInv, TypeOK
    <3>2. cb.out = [i \in 1 .. cb.n |-> cb.out[i]]
      BY <2>1, <3>1, LenProperties
    <3>3. QED
      BY <2>1, <2>2, <3>2
  <2>7. Provider!Hear
    BY <1>1, <1>2, <1>4, <2>5, <2>6 DEF Provider!Hear, Asking
  <2>8. QED
    BY <2>7
<1>5. QED
  BY <1>3, <1>4

\* The steps of the callback hand out samples or are unseen.
LEMMA CallbackRefines ==
    IndInv /\ IndInv' /\ Callback => [Provider!Next]_(Provider!vars)
<1> SUFFICES ASSUME IndInv, IndInv', Callback
             PROVE  [Provider!Next]_(Provider!vars)
  OBVIOUS
<1>1. CASE CbCount
  BY <1>1, CountHears DEF Provider!Next
<1>2. CASE ~CbCount
  <2>1. UNCHANGED <<ctl, target, heard, seekGen, appliedGen, positionBase>>
    BY <1>2 DEF Callback, CbLoadGeneration, CbCheckApplied, CbTryRead, CbReloadGeneration,
       CbRecheckApplied, CbOccupied, CbLoadEof, CbPop, CbUnlock, CbReturn, shared, history
  <2>2. QED
    BY <2>1 DEF Provider!vars, InForce, Asking
<1>3. QED
  BY <1>1, <1>2

\* Every step of the three threads is a step of the abstract provider or unseen:
\* decoding ahead through a ring, and resetting it on a seek, cannot be told from
\* a provider that seeks at once.
THEOREM Refinement == Spec => ImplementsProvider
<1>1. Init => Provider!Init
  BY DEF Init, CtlIdle, Provider!Init, Provider!NoCall, InForce, Asking
<1>2. /\ IndInv /\ AnswerInv /\ IndInv' /\ AnswerInv' /\ [Next]_vars
      => [Provider!Next]_(Provider!vars)
  <2>1. UNCHANGED vars => UNCHANGED Provider!vars
    BY DEF vars, shared, history, Provider!vars, InForce, Asking
  <2>2. QED
    BY <2>1, SeekRefines, PositionRefines, BackgroundRefines, CallbackRefines DEF Next
<1>3. Provider!Init /\ [][Provider!Next]_(Provider!vars) => ImplementsProvider
  BY DEF ImplementsProvider, Provider!Spec
<1>4. QED
  BY AnswerInvariance, <1>1, <1>2, <1>3, PTL DEF Spec
==============================================================================
