---------------------------- MODULE EventLoop_proofs ----------------------------
(***************************************************************************)
(* Proofs about what the event loop drives once a turn.                    *)
(*                                                                         *)
(* Lighting and Recorder, for every patch, every number of levels and fade *)
(* times, and any number of takes and failures: no light jumps, the end of *)
(* a show is reported once, the frame on the wire is the one the engine    *)
(* holds, and the take in use survives a failure.                          *)
(*                                                                         *)
(* Timecode, for both receivers, all positions and durations, and any      *)
(* number of moves and faults: the picture lands where the source stopped, *)
(* and keeps up with one that plays.                                       *)
(***************************************************************************)
EXTENDS Lighting, Timecode, TLAPS

-----------------------------------------------------------------------------
(* Looks *)

Fade == [age : Nat, dur : Nat, from : Levels, to : Levels]

\* A fade has a duration, and no fade is older than that.
FadeOK(fade) ==
    /\ fade \in Fade
    /\ fade.age <= fade.dur
    /\ fade # NoFade => fade.dur > 0

LookInv ==
    /\ rig \in Rigs
    /\ live \in [Fixtures -> Levels]
    /\ DOMAIN fades = Fixtures
    /\ \A f \in Fixtures : FadeOK(fades[f])

\* A linear fade stays between its ends, whichever way it goes.
LEMMA LinearFade ==
    ASSUME NEW from \in Levels, NEW to \in Levels, NEW dur \in Nat, dur > 0,
           NEW age \in 0 .. dur
    PROVE  from + ((to - from) * age) \div dur \in Levels
<1> DEFINE n == (to - from) * age
           k == n \div dur
<1>1. Full \in Nat /\ from \in Int /\ to \in Int /\ 0 <= from /\ from <= Full
      /\ 0 <= to /\ to <= Full
  BY LightingAssumption DEF Levels
<1>2. n \in Int /\ k \in Int /\ dur * k <= n /\ n < dur * k + dur
  <2>1. n \in Int
    BY <1>1
  <2> HIDE DEF n
  <2>2. QED
    BY <2>1
<1>3. CASE to >= from
  <2>1. 0 <= n /\ n <= (to - from) * dur
    BY <1>1, <1>3
  <2> HIDE DEF n, k
  <2>2. k >= 0
    BY <1>2, <2>1
  <2>3. k <= to - from
    BY <1>1, <1>2, <2>1
  <2>4. QED
    BY <1>1, <1>2, <2>2, <2>3 DEF n, k, Levels
<1>4. CASE to < from
  <2>1. n <= 0 /\ n >= (to - from) * dur
    BY <1>1, <1>4
  <2> HIDE DEF n, k
  <2>2. k <= 0
    BY <1>2, <2>1
  <2>3. k >= to - from
    BY <1>1, <1>2, <2>1
  <2>4. QED
    BY <1>1, <1>2, <2>2, <2>3 DEF n, k, Levels
<1>5. QED
  BY <1>1, <1>3, <1>4

LEMMA LookLevel ==
    ASSUME LookInv, NEW f \in Fixtures
    PROVE  Look(f) \in Levels
BY LinearFade DEF LookInv, FadeOK, Fade, Look, Fading

LEMMA EvaluatedLevels ==
    ASSUME LookInv
    PROVE  Evaluated \in [Fixtures -> Levels]
BY LookLevel DEF Evaluated

LEMMA NoFadeOK == FadeOK(NoFade)
<1>1. 0 \in Levels
  BY LightingAssumption DEF Levels
<1>2. QED
  BY <1>1 DEF FadeOK, Fade, NoFade

\* The steps that leave looks and fades alone.
LooksRest ==
    \/ GoShow \/ StopShow \/ ToggleOutput \/ ToggleSegment \/ PlayPixmap \/ StopPixmap
    \/ UploadPixmap \/ Recording \/ TakeFinished \/ Sample \/ NoSample \/ Throttled \/ Quiet
    \/ UNCHANGED vars

LEMMA LooksAtRest ==
    ASSUME LooksRest
    PROVE  UNCHANGED <<rig, live, fades>>
BY DEF LooksRest, GoShow, StopShow, ToggleOutput, ToggleSegment, PlayPixmap, StopPixmap,
       UploadPixmap, Recording, TakeFinished, Sample, NoSample, Throttled, Quiet, Ticks,
       Idle, Engine, looks, vars

LEMMA NextCases ==
    ASSUME [Next]_vars
    PROVE  LooksRest \/ Go \/ Snap \/ StopAll \/ ProjectChange \/ Restart \/ Submit \/ Elapse
BY DEF Next, Command, Output, LooksRest

LEMMA FadeToOK ==
    ASSUME LookInv, NEW S \in SUBSET Fixtures, NEW to \in [S -> {0, Full}],
           NEW dur \in FadeTimes \ {0}
    PROVE  /\ DOMAIN FadeTo(to, dur) = Fixtures
           /\ \A f \in Fixtures : FadeOK(FadeTo(to, dur)[f])
<1>1. DOMAIN FadeTo(to, dur) = Fixtures
  BY DEF FadeTo
<1>2. ASSUME NEW f \in Fixtures PROVE FadeOK(FadeTo(to, dur)[f])
  <2>1. CASE f \in S
    <3>1. /\ dur \in Nat /\ dur > 0 /\ to[f] \in Levels /\ Look(f) \in Levels
      BY <2>1, LookLevel, LightingAssumption DEF Levels
    <3>2. FadeTo(to, dur)[f] = [age |-> 0, dur |-> dur, from |-> Look(f), to |-> to[f]]
      BY <2>1 DEF FadeTo
    <3>3. QED
      BY <3>1, <3>2 DEF FadeOK, Fade
  <2>2. CASE f \notin S
    <3>1. FadeTo(to, dur)[f] \in {NoFade, fades[f]}
      BY <2>2 DEF FadeTo
    <3>2. QED
      BY <3>1, NoFadeOK DEF LookInv
  <2>3. QED
    BY <2>1, <2>2
<1>3. QED
  BY <1>1, <1>2

\* Time makes a fade older, never younger or another one.
LEMMA OlderFade ==
    ASSUME NEW fade, FadeOK(fade)
    PROVE  LET older == [fade EXCEPT !.age = Min2(@ + 1, fade.dur)] IN
           FadeOK(older) /\ (older = NoFade <=> fade = NoFade)
<1> DEFINE older == [fade EXCEPT !.age = Min2(@ + 1, fade.dur)]
<1>1. /\ older \in Fade /\ older.dur = fade.dur /\ older.from = fade.from /\ older.to = fade.to
      /\ older.age = Min2(fade.age + 1, fade.dur)
  BY DEF FadeOK, Fade, Min2
<1>2. older.age <= older.dur
  BY <1>1 DEF FadeOK, Fade, Min2
<1>3. CASE fade = NoFade
  <2>1. older = NoFade
    BY <1>3 DEF NoFade, Min2
  <2>2. QED
    BY <1>3, <2>1, NoFadeOK
<1>4. CASE fade # NoFade
  <2>1. older.dur > 0
    BY <1>1, <1>4 DEF FadeOK
  <2>2. older # NoFade
    BY <2>1 DEF NoFade
  <2>3. QED
    BY <1>1, <1>2, <1>4, <2>1, <2>2 DEF FadeOK
<1>5. QED
  BY <1>3, <1>4

\* Every fixture keeps a level, and a fade its length.
LEMMA LookNext ==
    ASSUME LookInv, [Next]_vars
    PROVE  LookInv'
<1>0. 0 \in Levels /\ Full \in Levels
  BY LightingAssumption DEF Levels
<1>1. CASE LooksRest
  BY <1>1, LooksAtRest DEF LookInv, Fixtures
<1>2. CASE Go
  <2>1. rig' = rig /\ live' = Evaluated
    BY <1>2 DEF Go, Idle
  <2>2. PICK dur \in FadeTimes \ {0}, S \in SUBSET Fixtures \ {{}} :
            \E to \in [S -> {0, Full}] : fades' = FadeTo(to, dur)
    BY <1>2 DEF Go
  <2>3. PICK to \in [S -> {0, Full}] : fades' = FadeTo(to, dur)
    BY <2>2
  <2>4. DOMAIN fades' = Fixtures /\ \A f \in Fixtures : FadeOK(fades'[f])
    BY <2>3, FadeToOK
  <2>5. QED
    BY <2>1, <2>4, EvaluatedLevels DEF LookInv, Fixtures
<1>3. CASE Snap
  <2>1. rig' = rig
    BY <1>3 DEF Snap, Idle
  <2>2. PICK S \in SUBSET Fixtures \ {{}} : \E to \in [S -> {0, Full}] :
            /\ live' = [f \in Fixtures |-> IF f \in S THEN to[f] ELSE Look(f)]
            /\ fades' = [f \in Fixtures |->
                            IF f \in S \/ Completed(f) THEN NoFade ELSE fades[f]]
    BY <1>3 DEF Snap
  <2>3. live' \in [Fixtures -> Levels]
    BY <1>0, <2>2, LookLevel
  <2>4. DOMAIN fades' = Fixtures /\ \A f \in Fixtures : fades'[f] \in {NoFade, fades[f]}
    BY <2>2
  <2>5. QED
    BY <2>1, <2>3, <2>4, NoFadeOK DEF LookInv, Fixtures
<1>4. CASE StopAll
  BY <1>4, EvaluatedLevels, NoFadeOK DEF StopAll, Idle, LookInv, Fixtures
<1>5. CASE ProjectChange \/ Restart
  BY <1>0, <1>5, NoFadeOK DEF ProjectChange, Restart, LookInv, Fixtures
<1>6. CASE Submit
  BY <1>6, EvaluatedLevels, NoFadeOK DEF Submit, Ticks, Advances, LookInv, Fixtures
<1>7. CASE Elapse
  <2>1. rig' = rig /\ live' = live
    BY <1>7 DEF Elapse
  <2>2. fades' = [f \in Fixtures |-> [fades[f] EXCEPT !.age = Min2(@ + 1, fades[f].dur)]]
    BY <1>7 DEF Elapse
  <2>3. \A f \in Fixtures : FadeOK(fades'[f])
    BY <2>2, OlderFade DEF LookInv
  <2>4. QED
    BY <2>1, <2>2, <2>3 DEF LookInv, Fixtures
<1>8. QED
  BY <1>1, <1>2, <1>3, <1>4, <1>5, <1>6, <1>7, NextCases

LEMMA LookInit == Init => LookInv
<1> SUFFICES ASSUME Init PROVE LookInv
  OBVIOUS
<1>1. 0 \in Levels
  BY LightingAssumption DEF Levels
<1>2. QED
  BY <1>1, NoFadeOK DEF Init, LookInv

LEMMA LooksCorrect == LightingSpec => []LookInv
BY LookInit, LookNext, PTL DEF LightingSpec

-----------------------------------------------------------------------------
(* No light jumps *)

\* A fade that starts stands where the look was, and a fade that is over leaves
\* its last look behind.
LEMMA FadeStartsAtLook ==
    ASSUME LookInv, NEW S \in SUBSET Fixtures, NEW to \in [S -> {0, Full}],
           NEW dur \in FadeTimes \ {0}, live' = Evaluated, fades' = FadeTo(to, dur),
           rig' = rig, NEW f \in Fixtures
    PROVE  Look(f)' = Look(f)
<1>1. Look(f) \in Levels /\ live'[f] = Look(f)
  BY LookLevel DEF Evaluated
<1>2. CASE f \in S
  <2>1. fades'[f] = [age |-> 0, dur |-> dur, from |-> Look(f), to |-> to[f]]
    BY <1>2 DEF FadeTo
  <2>2. /\ dur \in Nat /\ dur > 0 /\ Look(f) \in Int /\ to[f] \in Int
    BY <1>1, <1>2, LightingAssumption DEF Levels
  <2>3. fades'[f] # NoFade
    BY <2>1, <2>2 DEF NoFade
  <2>4. Look(f)' = Look(f) + ((to[f] - Look(f)) * 0) \div dur
    BY <2>1, <2>3 DEF Look, Fading
  <2>5. ((to[f] - Look(f)) * 0) \div dur = 0
    BY <2>2
  <2>6. QED
    BY <2>2, <2>4, <2>5
<1>3. CASE f \notin S
  <2>1. fades'[f] = IF Completed(f) THEN NoFade ELSE fades[f]
    BY <1>3 DEF FadeTo
  <2>2. QED
    BY <1>1, <2>1 DEF Look, Fading, Completed, FadeOK, LookInv, NoFade
<1>4. QED
  BY <1>2, <1>3

\* An evaluation that retires the fades that are over moves no look.
LEMMA RetiredFadeHolds ==
    ASSUME LookInv, NEW f \in Fixtures, live'[f] = Look(f),
           fades'[f] = NoFade \/ (fades'[f] = fades[f] /\ ~Completed(f))
    PROVE  Look(f)' = Look(f)
<1>1. CASE fades'[f] = NoFade
  BY <1>1 DEF Look, Fading
<1>2. CASE fades'[f] = fades[f] /\ ~Completed(f)
  <2>1. fades[f] # NoFade
    BY <1>2 DEF Completed, NoFade
  <2>2. QED
    BY <1>2, <2>1 DEF Look, Fading
<1>3. QED
  BY <1>1, <1>2

\* No light jumps: go_at fades from the look of its moment, and evaluate,
\* stop_fade_at and the tick move none.
THEOREM NoJumps == LightingSpec => NoLightJumps
<1>1. LookInv /\ [Next]_vars =>
          [ \/ Elapse \/ ProjectChange \/ Restart
            \/ \A f \in Fixtures :
                   Look(f)' = Look(f) \/ (Snap /\ ~Fading(f)' /\ live'[f] \in {0, Full}) ]_vars
  <2> SUFFICES ASSUME LookInv, [Next]_vars, ~Elapse, ~ProjectChange, ~Restart,
                      NEW f \in Fixtures
               PROVE  Look(f)' = Look(f) \/ (Snap /\ ~Fading(f)' /\ live'[f] \in {0, Full})
    OBVIOUS
  <2>1. CASE LooksRest
    BY <2>1, LooksAtRest DEF Look, Fading
  <2>2. CASE Go
    <3>1. rig' = rig /\ live' = Evaluated
      BY <2>2 DEF Go, Idle
    <3>2. PICK dur \in FadeTimes \ {0}, S \in SUBSET Fixtures \ {{}} :
              \E to \in [S -> {0, Full}] : fades' = FadeTo(to, dur)
      BY <2>2 DEF Go
    <3>3. QED
      BY <3>1, <3>2, FadeStartsAtLook
  <2>3. CASE Snap
    <3>1. PICK S \in SUBSET Fixtures \ {{}} : \E to \in [S -> {0, Full}] :
              /\ live' = [g \in Fixtures |-> IF g \in S THEN to[g] ELSE Look(g)]
              /\ fades' = [g \in Fixtures |->
                              IF g \in S \/ Completed(g) THEN NoFade ELSE fades[g]]
      BY <2>3 DEF Snap
    <3>2. CASE f \in S
      BY <2>3, <3>1, <3>2 DEF Fading
    <3>3. CASE f \notin S
      <4>1. /\ live'[f] = Look(f)
            /\ fades'[f] = IF Completed(f) THEN NoFade ELSE fades[f]
        BY <3>1, <3>3
      <4>2. QED
        BY <4>1, RetiredFadeHolds
    <3>4. QED
      BY <3>2, <3>3
  <2>4. CASE StopAll
    <3>1. fades'[f] = NoFade /\ live'[f] = Look(f)
      BY <2>4 DEF StopAll, Evaluated
    <3>2. QED
      BY <3>1, RetiredFadeHolds
  <2>5. CASE Submit
    <3>1. /\ live'[f] = Look(f)
          /\ fades'[f] = IF Completed(f) THEN NoFade ELSE fades[f]
      BY <2>5 DEF Submit, Advances, Evaluated
    <3>2. QED
      BY <3>1, RetiredFadeHolds
  <2>6. QED
    BY <2>1, <2>2, <2>3, <2>4, <2>5, NextCases
<1>2. QED
  BY <1>1, LooksCorrect, PTL DEF LightingSpec, NoLightJumps

-----------------------------------------------------------------------------
(* The ends of shows *)

\* A show that plays was started, and has reported its end if it is a held one
\* in its last frame; one that does not play has reported it.
EndsInv ==
    /\ rig \in Rigs
    /\ DOMAIN shows \subseteq Qids /\ finished \subseteq Qids
    /\ ends \in [Qids -> {-1, 0, 1}]
    /\ \A q \in DOMAIN shows :
        /\ DOMAIN shows[q] = {"age", "stop", "reported"}
        /\ shows[q].reported \in BOOLEAN
        /\ ends[q] = IF shows[q].reported THEN 1 ELSE 0
        /\ shows[q].reported => TakeOf(q).mode = "HoldLast"
    /\ \A q \in Qids : ~Playing(q) => ends[q] # 0

\* The steps that start, report or forget no show.
EndsRest ==
    \/ Go \/ Snap \/ ToggleOutput \/ ToggleSegment \/ PlayPixmap \/ StopPixmap \/ UploadPixmap
    \/ Recording \/ Sample \/ NoSample \/ Throttled \/ Quiet \/ UNCHANGED vars

LEMMA EndsAtRest ==
    ASSUME EndsRest
    PROVE  UNCHANGED <<rig, shows, ends>> /\ (finished' = finished)
BY DEF EndsRest, Go, Snap, ToggleOutput, ToggleSegment, PlayPixmap, StopPixmap, UploadPixmap,
       Recording, Sample, NoSample, Throttled, Quiet, Ticks, Idle, Engine, vars

LEMMA EndsCases ==
    ASSUME [Next]_vars
    PROVE  \/ EndsRest \/ GoShow \/ StopShow \/ StopAll \/ ProjectChange \/ Restart
           \/ TakeFinished \/ Submit \/ Elapse
BY DEF Next, Command, Output, EndsRest

LEMMA StartedEnds ==
    ASSUME EndsInv, NEW Q \in SUBSET Qids, shows' = Started(Q), rig' = rig,
           ends' = [q \in Qids |-> IF q \in Q THEN 0 ELSE ends[q]], finished' \subseteq finished
    PROVE  EndsInv'
<1>1. DOMAIN shows' = DOMAIN shows \union Q
  BY DEF Started
<1>2. \A q \in Q : shows'[q] = [age |-> 0, stop |-> NoStop, reported |-> FALSE]
  BY DEF Started
<1>3. \A q \in DOMAIN shows \ Q : shows'[q] = shows[q]
  BY DEF Started
<1>4. ends' \in [Qids -> {-1, 0, 1}]
  BY DEF EndsInv
<1>5. ASSUME NEW q \in DOMAIN shows'
      PROVE  /\ DOMAIN shows'[q] = {"age", "stop", "reported"}
             /\ shows'[q].reported \in BOOLEAN
             /\ ends'[q] = IF shows'[q].reported THEN 1 ELSE 0
             /\ shows'[q].reported => TakeOf(q).mode = "HoldLast"
  <2>1. CASE q \in Q
    <3>1. shows'[q] = [age |-> 0, stop |-> NoStop, reported |-> FALSE] /\ ends'[q] = 0
      BY <1>2, <2>1
    <3>2. DOMAIN shows'[q] = {"age", "stop", "reported"} /\ shows'[q].reported = FALSE
      BY <3>1
    <3>3. QED
      BY <3>1, <3>2
  <2>2. CASE q \notin Q
    BY <1>1, <1>3, <2>2 DEF EndsInv
  <2>3. QED
    BY <2>1, <2>2
<1>6. QED
  BY <1>1, <1>4, <1>5 DEF EndsInv, Playing, TakeOf, Qids

LEMMA EndsNext ==
    ASSUME EndsInv, [Next]_vars
    PROVE  EndsInv'
<1>1. CASE EndsRest
  BY <1>1, EndsAtRest DEF EndsInv, Playing, TakeOf, Qids
<1>2. CASE GoShow
  <2>1. PICK q \in Qids : shows' = Started({q}) /\ ends' = [ends EXCEPT ![q] = 0]
    BY <1>2 DEF GoShow
  <2>2. ends' = [p \in Qids |-> IF p \in {q} THEN 0 ELSE ends[p]]
    <3>1. ends \in [Qids -> {-1, 0, 1}]
      BY DEF EndsInv
    <3>2. QED
      BY <2>1, <3>1
  <2>3. QED
    BY <1>2, <2>1, <2>2, StartedEnds DEF GoShow, Idle
<1>3. CASE TakeFinished
  <2> DEFINE follows == {TakeOf(q).next : q \in finished} \ {NoShow}
  <2>1. /\ rig' = rig /\ shows' = Started(follows)
        /\ ends' = [q \in Qids |-> IF q \in follows THEN 0 ELSE ends[q]]
    BY <1>3 DEF TakeFinished
  <2>2. follows \subseteq Qids
    <3> SUFFICES ASSUME NEW q \in finished, TakeOf(q).next # NoShow
                 PROVE  TakeOf(q).next \in Qids
      OBVIOUS
    <3>1. Rig(rig) /\ q \in DOMAIN rig.shows
      BY LightingAssumption DEF EndsInv, Qids
    <3>2. rig.shows[q].next \in 0 .. Len(rig.shows) /\ Len(rig.shows) \in Nat
          /\ DOMAIN rig.shows = 1 .. Len(rig.shows)
      BY <3>1 DEF Rig
    <3>3. QED
      BY <3>2 DEF TakeOf, Qids, NoShow
  <2> HIDE DEF follows
  <2>3. QED
    BY <1>3, <2>1, <2>2, StartedEnds DEF TakeFinished
<1>4. CASE StopShow
  <2>1. PICK q \in DOMAIN shows, dur \in FadeTimes :
            shows' = [shows EXCEPT ![q] = Stopping(shows[q], dur)]
    BY <1>4 DEF StopShow
  <2>2. UNCHANGED <<rig, ends, finished>>
    BY <1>4 DEF StopShow, Idle
  <2>3. DOMAIN shows' = DOMAIN shows
    BY <2>1
  <2>4. \A p \in DOMAIN shows : /\ DOMAIN shows'[p] = DOMAIN shows[p]
                                /\ shows'[p].reported = shows[p].reported
    BY <2>1 DEF EndsInv, Stopping
  <2>5. QED
    BY <2>2, <2>3, <2>4 DEF EndsInv, Playing, TakeOf, Qids
<1>5. CASE StopAll
  <2>1. /\ UNCHANGED <<rig, finished>> /\ shows' = NoShows
        /\ ends' = [q \in Qids |-> IF Playing(q) THEN -1 ELSE ends[q]]
    BY <1>5 DEF StopAll, Idle, Forgotten
  <2>2. DOMAIN shows' = {}
    BY <2>1 DEF NoShows
  <2>3. \A q \in Qids : ends'[q] \in {-1, 0, 1} /\ ends'[q] # 0
    BY <2>1 DEF EndsInv
  <2>4. QED
    BY <2>1, <2>2, <2>3 DEF EndsInv, Qids
<1>6. CASE ProjectChange \/ Restart
  <2>1. /\ rig' = rig /\ finished' = {} /\ shows' = NoShows /\ ends' = [q \in Qids |-> -1]
    BY <1>6 DEF ProjectChange, Restart
  <2>2. DOMAIN shows' = {}
    BY <2>1 DEF NoShows
  <2>3. QED
    BY <2>1, <2>2 DEF EndsInv, Qids
<1>7. CASE Submit
  <2> DEFINE reports == {q \in DOMAIN shows : Reports(q)}
  <2>1. /\ rig' = rig /\ finished' = finished \union reports
        /\ ends' = [q \in Qids |-> IF q \in reports THEN ends[q] + 1 ELSE ends[q]]
        /\ shows' = [q \in Kept |-> [shows[q] EXCEPT !.reported = @ \/ q \in reports]]
    BY <1>7 DEF Submit, Ticks, Advances
  <2>2. \A q \in reports : q \in DOMAIN shows /\ ~shows[q].reported /\ ends[q] = 0
    BY DEF Reports, EndsInv
  <2>3. \A q \in reports \intersect Kept : TakeOf(q).mode = "HoldLast"
    BY DEF Reports, Kept
  <2>4. \A q \in DOMAIN shows \ Kept : shows[q].reported \/ q \in reports
    BY DEF Reports, Kept
  <2>5. Kept \subseteq DOMAIN shows
    BY DEF Kept
  <2> HIDE DEF reports
  <2>6. DOMAIN shows' = Kept
    BY <2>1
  <2>7. ends' \in [Qids -> {-1, 0, 1}]
    BY <2>1, <2>2 DEF EndsInv
  <2>8. ASSUME NEW q \in Kept
        PROVE  /\ DOMAIN shows'[q] = {"age", "stop", "reported"}
               /\ shows'[q].reported = (shows[q].reported \/ q \in reports)
    BY <2>1, <2>5, <2>8 DEF EndsInv
  <2>9. ASSUME NEW q \in Kept
        PROVE  /\ shows'[q].reported \in BOOLEAN
               /\ ends'[q] = IF shows'[q].reported THEN 1 ELSE 0
               /\ shows'[q].reported => TakeOf(q).mode = "HoldLast"
    <3>1. /\ q \in DOMAIN shows /\ q \in Qids /\ shows[q].reported \in BOOLEAN
          /\ ends[q] = IF shows[q].reported THEN 1 ELSE 0
          /\ shows[q].reported => TakeOf(q).mode = "HoldLast"
      BY <2>5, <2>9 DEF EndsInv
    <3>2. shows'[q].reported = (shows[q].reported \/ q \in reports)
      BY <2>8, <2>9
    <3>3. ends'[q] = IF q \in reports THEN ends[q] + 1 ELSE ends[q]
      BY <2>1, <3>1
    <3>4. CASE q \in reports
      <4>1. ends[q] = 0 /\ TakeOf(q).mode = "HoldLast" /\ shows'[q].reported
        BY <2>2, <2>3, <2>9, <3>2, <3>4
      <4>2. ends'[q] = 1 /\ shows'[q].reported = TRUE
        BY <3>1, <3>2, <3>3, <3>4, <4>1
      <4>3. QED
        BY <4>1, <4>2
    <3>5. CASE q \notin reports
      BY <3>1, <3>2, <3>3, <3>5
    <3>6. QED
      BY <3>4, <3>5
  <2>10. ASSUME NEW q \in Qids, q \notin Kept
         PROVE  ends'[q] # 0
    BY <2>1, <2>2, <2>4, <2>10 DEF EndsInv, Playing
  <2>11. finished' \subseteq Qids
    BY <2>1, <2>2 DEF EndsInv
  <2>12. QED
    BY <2>1, <2>5, <2>6, <2>7, <2>8, <2>9, <2>10, <2>11 DEF EndsInv, Playing, TakeOf, Qids
<1>8. CASE Elapse
  <2>1. UNCHANGED <<rig, ends, finished>> /\ shows' = [q \in DOMAIN shows |-> Later(q)]
    BY <1>8 DEF Elapse
  <2>2. \A q \in DOMAIN shows : /\ DOMAIN shows'[q] = DOMAIN shows[q]
                                /\ shows'[q].reported = shows[q].reported
    BY <2>1 DEF EndsInv, Later
  <2>3. DOMAIN shows' = DOMAIN shows
    BY <2>1
  <2>4. QED
    BY <2>1, <2>2, <2>3 DEF EndsInv, Playing, TakeOf, Qids
<1>9. QED
  BY <1>1, <1>2, <1>3, <1>4, <1>5, <1>6, <1>7, <1>8, EndsCases

\* The end of a show is reported once for each start (eval and take_finished_shows).
THEOREM EndsCorrect == LightingSpec => []EndsOnce
<1>1. Init => EndsInv
  BY DEF Init, EndsInv, NoShows, Playing
<1>2. EndsInv => EndsOnce
  BY DEF EndsInv, EndsOnce, Playing
<1>3. QED
  BY <1>1, <1>2, EndsNext, PTL DEF LightingSpec

-----------------------------------------------------------------------------
(* The frame on the wire *)

\* The sender's frame holds the engine's pixels and overlay unless dirty is set,
\* its looks while nothing fades, and no layer once no show plays.
WireInv ==
    /\ LookInv
    /\ wire # NoSender /\ ~dirty =>
        /\ wire.dots = pixels
        /\ wire.over = overlay
        /\ (\A f \in Fixtures : ~Fading(f)) => wire.looks = Evaluated
        /\ DOMAIN shows = {} => wire.layers = NoShows
    /\ lit \subseteq Segments

\* The steps that change neither the frame nor what it is made of, or set dirty.
LEMMA UnmovedWire ==
    ASSUME WireInv, LookInv', [Next]_vars, lit' \subseteq Segments', rig' = rig,
           \/ wire' = NoSender \/ dirty'
           \/ UNCHANGED <<wire, dirty, pixels, overlay, live, fades, shows>>
           \/ ~dirty /\ UNCHANGED <<wire, pixels, overlay, live, fades, shows>>
    PROVE  WireInv'
BY DEF WireInv, Fixtures, Segments, Evaluated, Look, Fading

LEMMA SegmentsNext ==
    ASSUME lit \subseteq Segments, [Next]_vars
    PROVE  lit' \subseteq Segments' /\ rig' = rig
<1>1. rig' = rig /\ (lit' = lit \/ ToggleSegment)
  BY DEF Next, Command, Output, Go, Snap, GoShow, StopShow, StopAll, ProjectChange,
         ToggleOutput, ToggleSegment, PlayPixmap, StopPixmap, UploadPixmap, Recording,
         Restart, TakeFinished, Sample, NoSample, Throttled, Quiet, Submit, Ticks, Elapse,
         Idle, vars
<1>2. CASE ToggleSegment
  <2>1. PICK t \in Segments : lit' = (lit \ {t}) \union ({t} \ lit)
    BY <1>2 DEF ToggleSegment
  <2>2. QED
    BY <1>1, <2>1 DEF Segments
<1>3. QED
  BY <1>1, <1>2 DEF Segments

\* Time moves no look that does not fade and ends no show by itself.
LEMMA ElapseWire ==
    ASSUME WireInv, LookInv', lit' \subseteq Segments', rig' = rig, Elapse
    PROVE  WireInv'
<1>1. /\ UNCHANGED <<wire, dirty, pixels, overlay, live>>
      /\ fades' = [f \in Fixtures |-> [fades[f] EXCEPT !.age = Min2(@ + 1, fades[f].dur)]]
      /\ shows' = [q \in DOMAIN shows |-> Later(q)]
  BY DEF Elapse
<1>2. \A f \in Fixtures : fades'[f] = NoFade <=> fades[f] = NoFade
  BY <1>1, OlderFade DEF WireInv, LookInv
<1>3. DOMAIN shows' = DOMAIN shows
  BY <1>1
<1>4. Fixtures' = Fixtures /\ \A f \in Fixtures : Fading(f)' <=> Fading(f)
  BY <1>2 DEF Fading, Fixtures
<1>5. (\A f \in Fixtures : ~Fading(f)) => Evaluated' = Evaluated
  BY <1>1, <1>4 DEF Evaluated, Look
<1>6. QED
  BY <1>1, <1>3, <1>4, <1>5 DEF WireInv

\* A frame that is sent is what the engine then holds.
LEMMA SubmitWire ==
    ASSUME WireInv, LookInv', lit' \subseteq Segments', rig' = rig, Submit
    PROVE  WireInv'
<1>1. /\ wire' = Frame(Evaluated, LitPixels, Overlay, Kept)
      /\ overlay' = Overlay /\ pixels' = LitPixels /\ live' = Evaluated
      /\ fades' = [f \in Fixtures |-> IF Completed(f) THEN NoFade ELSE fades[f]]
  BY DEF Submit, Ticks, Advances
<1>2. DOMAIN shows' = Kept
  BY DEF Submit, Advances
<1>3. /\ wire'.dots = pixels' /\ wire'.over = overlay' /\ wire'.looks = live'
      /\ wire'.layers = [q \in Kept |-> Layer(q)]
  BY <1>1 DEF Frame
<1>4. Kept = {} => wire'.layers = NoShows
  BY <1>3 DEF NoShows
<1>5. (\A f \in Fixtures' : ~Fading(f)') => Evaluated' = live'
  <2>1. live' \in [Fixtures' -> Levels]
    BY DEF LookInv
  <2>2. (\A f \in Fixtures' : ~Fading(f)') => \A f \in Fixtures' : Look(f)' = live'[f]
    BY DEF Look
  <2>3. QED
    BY <2>1, <2>2 DEF Evaluated
<1>6. QED
  BY <1>2, <1>3, <1>4, <1>5 DEF WireInv

LEMMA WireNext ==
    ASSUME WireInv, [Next]_vars
    PROVE  WireInv'
<1>1. LookInv' /\ lit' \subseteq Segments' /\ rig' = rig
  BY LookNext, SegmentsNext DEF WireInv
<1>2. CASE Elapse
  BY <1>1, <1>2, ElapseWire
<1>3. CASE Submit
  BY <1>1, <1>3, SubmitWire
<1>4. CASE Go \/ Snap \/ GoShow \/ StopShow
  BY <1>1, <1>4, UnmovedWire DEF Go, Snap, GoShow, StopShow
<1>5. CASE ProjectChange \/ Restart
  BY <1>1, <1>5, UnmovedWire DEF ProjectChange, Restart
<1>6. CASE ToggleOutput \/ ToggleSegment \/ PlayPixmap \/ StopPixmap \/ UploadPixmap \/ Recording
           \/ NoSample \/ UNCHANGED vars
  <2>1. UNCHANGED <<wire, dirty, pixels, overlay, live, fades, shows>>
    BY <1>6 DEF ToggleOutput, ToggleSegment, PlayPixmap, StopPixmap, UploadPixmap, Recording,
                NoSample, Idle, Engine, looks, vars
  <2>2. QED
    BY <1>1, <2>1, UnmovedWire
<1>7. CASE Sample
  <2>1. UNCHANGED <<wire, overlay, live, fades, shows>>
    BY <1>7 DEF Sample, looks
  <2>2. dirty' \/ (~dirty /\ UNCHANGED pixels)
    <3>1. CASE pixels' = pixels
      <4>1. PICK ready \in SUBSET {s \in Segments : flight[s] # NoPixels} :
                dirty' = (dirty \/ ready # {} \/ pixels' # pixels)
        BY <1>7 DEF Sample
      <4>2. dirty => dirty'
        BY <4>1, Zenon
      <4>3. QED
        BY <3>1, <4>2
    <3>2. CASE pixels' # pixels
      <4>1. PICK ready \in SUBSET {s \in Segments : flight[s] # NoPixels} :
                dirty' = (dirty \/ ready # {} \/ pixels' # pixels)
        BY <1>7 DEF Sample
      <4>2. QED
        BY <3>2, <4>1, Zenon
    <3>3. QED
      BY <3>1, <3>2
  <2>3. QED
    BY <1>1, <2>1, <2>2, UnmovedWire
<1>8. CASE Throttled \/ Quiet
  <2>1. UNCHANGED <<pixels, live, fades, shows>> /\ overlay' = Overlay /\ dirty' = IsDirty
    BY <1>8 DEF Throttled, Quiet, Ticks, looks
  <2>2. wire' = NoSender \/ wire' = wire
    BY <1>8 DEF Throttled, Quiet, Ticks
  <2>3. dirty' \/ (~dirty /\ UNCHANGED overlay)
    <3>1. CASE overlay = NoOverlay /\ Overlay = NoOverlay
      <4>1. UNCHANGED overlay
        BY <2>1, <3>1
      <4>2. dirty' <=> dirty
        BY <2>1, <3>1, Zenon DEF IsDirty
      <4>3. QED
        BY <4>1, <4>2
    <3>2. QED
      BY <2>1, <3>1, Zenon DEF IsDirty
  <2>4. QED
    BY <1>1, <2>1, <2>2, <2>3, UnmovedWire
<1>9. CASE TakeFinished
  <2> DEFINE follows == {TakeOf(q).next : q \in finished} \ {NoShow}
  <2>1. UNCHANGED <<wire, pixels, overlay, live, fades>>
    BY <1>9 DEF TakeFinished, looks
  <2>2. shows' = Started(follows) /\ dirty' = (dirty \/ follows # {})
    BY <1>9 DEF TakeFinished
  <2> HIDE DEF follows
  <2>3. CASE follows = {} /\ ~dirty'
    <3>1. DOMAIN shows' = DOMAIN shows
      BY <2>2, <2>3 DEF Started
    <3>2. QED
      BY <1>1, <2>1, <2>2, <2>3, <3>1 DEF WireInv, Fixtures, Evaluated, Look, Fading
  <2>4. QED
    BY <1>1, <2>2, <2>3, UnmovedWire
<1>10. CASE StopAll
  <2>1. /\ UNCHANGED <<wire, pixels, overlay>> /\ live' = Evaluated
        /\ fades' = [f \in Fixtures |-> NoFade]
        /\ dirty' = (dirty \/ shows # NoShows \/ \E f \in Fixtures : Fading(f))
    BY <1>10 DEF StopAll, Idle
  <2>2. CASE ~dirty'
    <3> ~(dirty \/ shows # NoShows \/ \E f \in Fixtures : Fading(f))
      BY <2>1, <2>2, Zenon
    <3>1. ~dirty /\ shows = NoShows /\ \A f \in Fixtures : ~Fading(f)
      OBVIOUS
    <3>2. Evaluated' = Evaluated
      <4>1. \A f \in Fixtures : Look(f)' = Look(f)
        BY <2>1 DEF Look, Fading, Evaluated
      <4>2. QED
        BY <1>1, <4>1 DEF Evaluated, Fixtures
    <3>3. DOMAIN shows = {}
      BY <3>1 DEF NoShows
    <3>4. wire # NoSender =>
            /\ wire.dots = pixels /\ wire.over = overlay /\ wire.layers = NoShows
            /\ wire.looks = Evaluated
      BY <3>1, <3>3 DEF WireInv
    <3>5. QED
      BY <1>1, <2>1, <3>2, <3>4 DEF WireInv
  <2>3. QED
    BY <1>1, <2>2, UnmovedWire
<1>11. QED
  BY <1>2, <1>3, <1>4, <1>5, <1>6, <1>7, <1>8, <1>9, <1>10 DEF Next, Command, Output

\* What the sender repeats is the merge of what the engine holds: whatever
\* changes it sets dirty or is animated (tick and set_overlay).
THEOREM WireCorrect == LightingSpec => []WireIsCurrent
<1>1. Init => WireInv
  BY LookInit DEF Init, WireInv
<1>2. WireInv => WireIsCurrent
  <2> SUFFICES ASSUME WireInv, wire # NoSender, ~dirty, ~Animating
               PROVE  /\ wire.looks = Evaluated /\ wire.layers = NoShows /\ wire.over = overlay
                      /\ \A s \in lit : wire.dots[s] = pixels[s]
    BY DEF WireIsCurrent
  <2>1. DOMAIN shows = {} /\ \A f \in Fixtures : ~Fading(f)
    BY DEF Animating, NoShows
  <2>2. QED
    BY <2>1 DEF WireInv
<1>3. QED
  BY <1>1, <1>2, WireNext, PTL DEF LightingSpec

-----------------------------------------------------------------------------
(* The recorder's takes *)

Files == [file : Contents, prev : Contents, swap : Contents, pass : Contents]

\* Until a keep or a revert fails the take in use is the take on disk; after one
\* failure it is still in one of the three files.
TakesInv ==
    /\ disk \in Files
    /\ takes \in 0 .. MaxTakes
    /\ failures \in Nat
    /\ recording => disk.pass \in 1 .. MaxTakes
    /\ kept # NoTake /\ failures = 0 => disk.file = kept
    /\ LastTakeKept

\* The steps of the recorder that leave its files alone.
LEMMA TakesAtRest ==
    ASSUME TakesInv, UNCHANGED <<disk, takes, kept, failures>>, recording' => recording
    PROVE  TakesInv'
BY DEF TakesInv, LastTakeKept

LEMMA StartPassTakes ==
    ASSUME TakesInv, StartPass
    PROVE  TakesInv'
<1>1. takes' \in 1 .. MaxTakes /\ takes' \in Contents
  BY RecorderAssumption DEF TakesInv, StartPass, Contents, NoTake, Broken
<1>2. /\ disk' = [disk EXCEPT !.pass = takes'] /\ UNCHANGED <<kept, failures>>
  BY DEF StartPass
<1>3. /\ disk' \in Files /\ disk'.pass = takes' /\ disk'.file = disk.file
      /\ disk'.prev = disk.prev /\ disk'.swap = disk.swap
  BY <1>1, <1>2 DEF TakesInv, Files
<1>4. QED
  BY <1>1, <1>2, <1>3 DEF TakesInv, LastTakeKept

LEMMA DiscardTakes ==
    ASSUME TakesInv, Discard
    PROVE  TakesInv'
<1>1. /\ disk' = [disk EXCEPT !.pass = NoTake] /\ UNCHANGED <<takes, kept, failures>>
      /\ ~recording'
  BY DEF Discard
<1>2. /\ disk' \in Files /\ disk'.file = disk.file
      /\ disk'.prev = disk.prev /\ disk'.swap = disk.swap
  BY <1>1, RecorderAssumption DEF TakesInv, Files, Contents, NoTake, Broken
<1>3. QED
  BY <1>1, <1>2 DEF TakesInv, LastTakeKept

\* What each step of a keep leaves on disk.
LEMMA StopKeepTakes ==
    ASSUME TakesInv, StopKeep
    PROVE  TakesInv'
<1> DEFINE rotated == Rename(disk, "file", "prev")
           created == [rotated EXCEPT !.file = Broken]
           written == [created EXCEPT !.file = disk.pass]
           cleared == [written EXCEPT !.pass = NoTake]
<1>1. PICK i \in 1 .. 5 :
          /\ disk' = <<disk, rotated, created, written, cleared>>[i]
          /\ \/ i = 5 /\ UNCHANGED failures
             \/ i < 5 /\ failures' = failures + 1
          /\ kept' = IF disk'.file = disk.pass THEN disk.pass ELSE kept
  BY DEF StopKeep, KeepSteps, ComesTo
<1>2. /\ recording /\ ~recording' /\ UNCHANGED takes
  BY DEF StopKeep
<1>3. NoTake \in Contents /\ Broken \in Contents /\ disk.pass \in Contents
  BY RecorderAssumption DEF TakesInv, Contents, NoTake, Broken, Files
<1>4. /\ rotated \in Files
      /\ disk.file # NoTake => rotated.prev = disk.file
      /\ disk.file = NoTake => rotated = disk
  BY <1>3 DEF TakesInv, Files, Rename
<1> HIDE DEF rotated
<1>5. /\ created \in Files /\ created.prev = rotated.prev
      /\ written \in Files /\ written.prev = rotated.prev /\ written.file = disk.pass
      /\ cleared \in Files /\ cleared.file = disk.pass
  BY <1>3, <1>4 DEF Files
<1> HIDE DEF created, written, cleared
<1>6. CASE i = 5
  <2>1. disk' = cleared /\ kept' = disk.pass /\ failures' = failures
    BY <1>1, <1>5, <1>6
  <2>2. QED
    BY <1>2, <1>5, <2>1 DEF TakesInv, LastTakeKept
<1>7. CASE i < 5
  <2>1. failures' = failures + 1 /\ failures' # 0 /\ failures' \in Nat
    BY <1>1, <1>7 DEF TakesInv
  <2>2. disk' \in {disk, rotated, created, written}
    BY <1>1, <1>7
  <2>3. kept' # NoTake /\ failures = 0 => kept' \in {disk'.file, disk'.prev, disk'.swap}
    <3> SUFFICES ASSUME kept' # NoTake, failures = 0, disk'.file # disk.pass
                 PROVE  kept' \in {disk'.file, disk'.prev, disk'.swap}
      BY <1>1
    <3>1. kept' = kept /\ disk.file = kept /\ disk.file # NoTake
      BY <1>1 DEF TakesInv
    <3>2. CASE disk' = disk
      BY <3>1, <3>2
    <3>3. CASE disk' \in {rotated, created, written}
      BY <1>4, <1>5, <3>1, <3>3
    <3>4. QED
      BY <2>2, <3>2, <3>3
  <2>4. disk' \in Files
    BY <1>4, <1>5, <2>2 DEF TakesInv
  <2>5. failures' <= 1 => failures = 0
    BY <2>1 DEF TakesInv
  <2>6. QED
    BY <1>2, <2>1, <2>3, <2>4, <2>5 DEF TakesInv, LastTakeKept
<1>8. QED
  BY <1>6, <1>7

\* What each step of a revert leaves on disk.
LEMMA RevertTakes ==
    ASSUME TakesInv, Revert
    PROVE  TakesInv'
<1> DEFINE aside == Rename(disk, "file", "swap")
           undone == Rename(aside, "prev", "file")
           done == Rename(undone, "swap", "prev")
<1>1. PICK i \in 1 .. 4 :
          /\ disk' = <<disk, aside, undone, done>>[i]
          /\ \/ i = 4 /\ UNCHANGED failures
             \/ i < 4 /\ failures' = failures + 1
          /\ kept' = IF i = 4 THEN disk'.file ELSE kept
  BY DEF Revert, RevertSteps, ComesTo
<1>2. ~recording' /\ UNCHANGED takes /\ disk.prev # NoTake
  BY DEF Revert
<1>3. NoTake \in Contents
  BY RecorderAssumption DEF Contents, NoTake, Broken
<1>4. /\ aside \in Files
      /\ disk.file # NoTake => aside.swap = disk.file
  BY <1>3 DEF TakesInv, Files, Rename
<1> HIDE DEF aside
<1>5. undone \in Files /\ undone.swap = aside.swap
  BY <1>3, <1>4 DEF Files, Rename
<1> HIDE DEF undone
<1>6. done \in Files
  BY <1>3, <1>5 DEF Files, Rename
<1> HIDE DEF done
<1>7. CASE i = 4
  BY <1>1, <1>2, <1>6, <1>7 DEF TakesInv, LastTakeKept
<1>8. CASE i < 4
  <2>1. failures' = failures + 1 /\ failures' # 0 /\ failures' \in Nat /\ kept' = kept
    BY <1>1, <1>8 DEF TakesInv
  <2>2. disk' \in {disk, aside, undone}
    BY <1>1, <1>8
  <2>3. kept # NoTake /\ failures = 0 => kept \in {disk'.file, disk'.prev, disk'.swap}
    BY <1>4, <1>5, <2>2 DEF TakesInv
  <2>4. disk' \in Files
    BY <1>4, <1>5, <2>2 DEF TakesInv
  <2>5. failures' <= 1 => failures = 0
    BY <2>1 DEF TakesInv
  <2>6. QED
    BY <1>2, <2>1, <2>3, <2>4, <2>5 DEF TakesInv, LastTakeKept
<1>9. QED
  BY <1>7, <1>8

\* A process that ends in a pass leaves the files as they are.
LEMMA CrashTakes ==
    ASSUME TakesInv, Crash
    PROVE  TakesInv'
BY DEF TakesInv, LastTakeKept, Crash

\* The take in use is not lost by any number of passes and of ends of the process
\* in one, nor by one keep or revert that fails or is cut short at any of its
\* steps (stop_keep and revert).
THEOREM TakesCorrect == LightingSpec => []LastTakeKept
<1>1. Init => TakesInv
  BY RecorderAssumption DEF Init, RecorderInit, TakesInv, LastTakeKept, NoFiles, Files,
                            Contents, NoTake, Broken
<1>2. TakesInv /\ [Next]_vars => TakesInv'
  <2> SUFFICES ASSUME TakesInv, [Next]_vars PROVE TakesInv'
    OBVIOUS
  <2>1. CASE Recording
    BY <2>1, StartPassTakes, DiscardTakes, StopKeepTakes, RevertTakes, TakesAtRest
       DEF Recording, RecorderOperation, SetMonitor, LiveInput, SetScrub
  <2>2. CASE Restart
    BY <2>2, CrashTakes DEF Restart
  <2>3. CASE ~Recording /\ ~Restart
    <3>1. UNCHANGED recorder
      BY <2>3 DEF Next, Command, Output, Go, Snap, GoShow, StopShow, StopAll, ProjectChange,
           ToggleOutput, ToggleSegment, PlayPixmap, StopPixmap, UploadPixmap, TakeFinished,
           Sample, NoSample, Throttled, Quiet, Submit, Ticks, Elapse, Idle, vars
    <3>2. QED
      BY <3>1, TakesAtRest DEF recorder
  <2>4. QED
    BY <2>1, <2>2, <2>3
<1>3. TakesInv => LastTakeKept
  BY DEF TakesInv
<1>4. QED
  BY <1>1, <1>2, <1>3, PTL DEF LightingSpec

-----------------------------------------------------------------------------
(* Timecode: the numbers it computes with *)

\* The durations and counts of the model are natural numbers.
LEMMA TimecodeNumbers ==
    /\ MaxPos \in Nat /\ Digit \in Nat /\ Digit > 0 /\ Offset \in Nat
    /\ Deadband \in Nat /\ HardSync \in Nat /\ Deadband < HardSync
    /\ Floor \in Nat /\ Timeout \in Nat /\ MaxLost \in Nat
    /\ MaxLoop \in Nat /\ MaxLoop > 0 /\ Settle \in Nat
    /\ MaxMoves \in Nat /\ MaxFaults \in Nat
    /\ Top \in Nat /\ Top = MaxPos + Digit /\ Long \in Nat /\ Long > 0
BY TimecodeAssumption DEF Top, Long

\* A position the source is moved to is even and before its end.
LEMMA StartsInside ==
    \A p \in Starts : p \in 0 .. MaxPos /\ p < MaxPos /\ p \in 0 .. Top
<1>1. TAKE p \in Starts
<1>2. p \in 0 .. MaxPos - 1
  BY TimecodeAssumption
<1>3. QED
  BY <1>2, TimecodeNumbers

\* An age that is counted up to a bound.
LEMMA OlderInside ==
    ASSUME NEW bound \in Nat, NEW age \in 0 .. bound
    PROVE  /\ Older(age, bound) \in 0 .. bound
           /\ Older(age, bound) >= age
           /\ Older(age, bound) <= age + 1
           /\ Older(age, bound) = age + 1 \/ Older(age, bound) = bound
BY DEF Older, Least

\* A position assembled from two messages stays below the next digit.
LEMMA AssembleInside ==
    ASSUME NEW from \in [{1, 2} -> 0 .. MaxPos]
    PROVE  Assemble(from) \in 0 .. Top
<1> DEFINE low == from[1] % Digit
           high == from[2] \div Digit
<1>1. from[1] \in 0 .. MaxPos /\ from[2] \in 0 .. MaxPos
  OBVIOUS
<1>2. low \in 0 .. Digit - 1
  BY <1>1, TimecodeNumbers
<1>3. high \in Nat /\ Digit * high <= from[2]
  BY <1>1, TimecodeNumbers
<1>4. Digit * high \in Nat
  <2> HIDE DEF high
  <2>1. QED
    BY <1>3, TimecodeNumbers
<1> HIDE DEF low, high
<1>5. low + Digit * high \in 0 .. Top
  <2> DEFINE h == Digit * high
  <2>1. h \in Nat /\ h <= from[2]
    BY <1>3, <1>4
  <2> HIDE DEF h
  <2>2. low + h \in 0 .. Top
    BY <1>1, <1>2, <2>1, TimecodeNumbers
  <2>3. QED
    BY <2>2 DEF h
<1>6. QED
  BY <1>5 DEF Assemble, low, high

\* The message a position belongs to begins at or before it.
LEMMA MessageInside ==
    ASSUME NEW p \in 0 .. MaxPos
    PROVE  /\ Message(p) \in 0 .. MaxPos /\ Piece(p) \in {1, 2}
           /\ Message(p) <= p /\ p <= Message(p) + 1
<1>1. p % 2 \in 0 .. 1 /\ p % 2 <= p
  BY TimecodeNumbers
<1>2. QED
  BY <1>1, TimecodeNumbers DEF Message, Piece

-----------------------------------------------------------------------------
(* Timecode: what a turn of drive_mtc_follow may do *)

Timecodes == [pos : 0 .. Top, playing : BOOLEAN]

\* Where it drives the picture to, from where.
Aim(tc) == Target(Extrapolated(Noted(tc), tc))
Shows == Current(follow, video)
Off(tc) == Gap(Aim(tc), Shows)

\* The picture is reopened at the target.
Reopens(tc) ==
    /\ MayReopen
    /\ video' = Reopened(Aim(tc)) /\ syncAge' = 0 /\ back' = 0

\* The picture stays as it is.
Stays == video' = video /\ syncAge' = syncAge

\* A source that stands still: the picture is there, is reopened, or waits.
Freezes(tc) ==
    /\ ~tc.playing /\ Off(tc) <= Deadband
    /\ follow'.hold = Aim(tc) /\ Stays /\ back' = back + Most(Shows - Aim(tc), 0)
Jumps(tc) ==
    /\ ~tc.playing /\ Off(tc) > Deadband
    /\ follow'.hold = Aim(tc) /\ Reopens(tc)
Waits(tc) ==
    /\ ~tc.playing /\ Off(tc) > Deadband /\ ~MayReopen
    /\ follow'.hold = follow.hold /\ Stays /\ back' = back

\* A source that plays: the picture is reopened, goes on from the target or from
\* its clock, is let be or nudged.
Catches(tc) ==
    /\ tc.playing /\ Off(tc) > HardSync
    /\ follow'.hold = NoHold /\ Reopens(tc)
Resumes(tc) ==
    /\ tc.playing /\ follow.hold # NoHold /\ Off(tc) <= HardSync
    /\ follow'.hold = NoHold /\ video' = Reanchored(Aim(tc))
    /\ syncAge' = syncAge /\ back' = back + Most(Shows - Aim(tc), 0)
Drops(tc) ==
    /\ tc.playing /\ follow.hold # NoHold /\ Off(tc) > HardSync /\ ~MayReopen
    /\ follow'.hold = NoHold /\ Stays /\ back' = back + Most(Shows - video.clock, 0)
Runs(tc) ==
    /\ tc.playing /\ follow.hold = NoHold
    /\ loop.dt = 0 \/ Off(tc) <= Deadband \/ (Off(tc) > HardSync /\ ~MayReopen)
    /\ follow'.hold = NoHold /\ Stays /\ back' = back
Slews(tc) ==
    /\ tc.playing /\ follow.hold = NoHold /\ loop.dt > 0
    /\ Off(tc) > Deadband /\ Off(tc) <= HardSync
    /\ follow'.hold = NoHold /\ video' \in Nudged(Aim(tc) - Shows)
    /\ syncAge' = syncAge /\ back' = back

\* The position and its age that the follow keeps.
LEMMA NotedInside ==
    ASSUME TimecodeTypeOK, NEW tc \in Timecodes
    PROVE  /\ Noted(tc) \in [on : BOOLEAN, hold : -1 .. Top, secs : 0 .. Top, age : 0 .. Long]
           /\ Noted(tc).on = follow.on /\ Noted(tc).hold = follow.hold
           /\ Noted(tc).secs = tc.pos
           /\ Noted(tc).age = IF tc.pos = follow.secs THEN follow.age ELSE 0
<1>1. follow \in [on : BOOLEAN, hold : -1 .. Top, secs : 0 .. Top, age : 0 .. Long]
      /\ tc.pos \in 0 .. Top
  BY DEF TimecodeTypeOK, Timecodes
<1>2. 0 \in 0 .. Long
  BY TimecodeNumbers
<1>3. CASE tc.pos = follow.secs
  BY <1>1, <1>3 DEF Noted
<1>4. CASE tc.pos # follow.secs
  <2>1. Noted(tc) = [follow EXCEPT !.secs = tc.pos, !.age = 0]
    BY <1>4 DEF Noted
  <2>2. QED
    BY <1>1, <1>2, <1>4, <2>1
<1>5. QED
  BY <1>3, <1>4

\* The target is a position, that of the source once it stands still.
LEMMA AimInside ==
    ASSUME TimecodeTypeOK, NEW tc \in Timecodes
    PROVE  /\ Aim(tc) \in 0 .. Top
           /\ ~tc.playing => Aim(tc) = Target(tc.pos)
           /\ tc.playing => Aim(tc) = Target(Least(tc.pos + Noted(tc).age, Top))
<1>1. tc.pos \in 0 .. Top /\ Noted(tc).age \in 0 .. Long
  BY NotedInside DEF Timecodes
<1> DEFINE age == Noted(tc).age
<1> HIDE DEF age
<1>2. age \in Nat
  BY <1>1, TimecodeNumbers DEF age
<1>3. Extrapolated(Noted(tc), tc) = IF tc.playing THEN Least(tc.pos + age, Top) ELSE tc.pos
  BY DEF Extrapolated, age
<1>4. \A x \in 0 .. Top : Target(x) \in 0 .. Top
  BY TimecodeNumbers DEF Target, Most
<1>5. Least(tc.pos + age, Top) \in 0 .. Top
  BY <1>1, <1>2, TimecodeNumbers DEF Least
<1>6. QED
  BY <1>1, <1>3, <1>4, <1>5 DEF Aim, age

\* The picture is at a position.
LEMMA ShowsInside ==
    ASSUME TimecodeTypeOK
    PROVE  Shows \in 0 .. Top /\ (follow.hold # NoHold => Shows = follow.hold)
           /\ (follow.hold = NoHold => Shows = video.clock)
<1>1. follow.hold \in -1 .. Top /\ video.clock \in 0 .. Top
  BY DEF TimecodeTypeOK
<1>2. follow.hold # -1 => follow.hold \in 0 .. Top
  BY <1>1, TimecodeNumbers
<1>3. QED
  BY <1>1, <1>2 DEF Shows, Current, NoHold

\* A nudge takes the clock some of the way to the target, no further than the turn
\* was long.
LEMMA NudgedInside ==
    ASSUME TimecodeTypeOK, NEW aim \in 0 .. Top, NEW v \in Nudged(aim - video.clock)
    PROVE  \E to \in 0 .. Top :
             /\ v = [video EXCEPT !.clock = to]
             /\ to >= video.clock - loop.dt
             /\ aim >= video.clock => to >= video.clock /\ to <= aim
             /\ aim <= video.clock => to <= video.clock /\ to >= aim
<1>1. video.clock \in 0 .. Top /\ loop.dt \in 0 .. MaxLoop
  BY DEF TimecodeTypeOK
<1> DEFINE clock == video.clock
           dt == loop.dt
           least == Least(0, Most(-dt, aim - clock))
           most == Most(0, Least(dt, aim - clock))
<1>2. PICK n \in least .. most : v = [video EXCEPT !.clock = Most(0, @ + n)]
  BY DEF Nudged
<1>3. v = [video EXCEPT !.clock = Most(0, clock + n)]
  BY <1>2
<1>4. clock \in 0 .. Top /\ dt \in Nat
  BY <1>1, TimecodeNumbers
<1> HIDE DEF clock, dt
<1>5. n \in Int /\ n >= -dt /\ (aim >= clock => n >= 0 /\ n <= aim - clock)
      /\ (aim <= clock => n <= 0 /\ n >= aim - clock)
  BY <1>4, TimecodeNumbers DEF Most, Least
<1> HIDE DEF least, most
<1>6. /\ Most(0, clock + n) \in 0 .. Top /\ Most(0, clock + n) >= clock - dt
      /\ aim >= clock => Most(0, clock + n) >= clock /\ Most(0, clock + n) <= aim
      /\ aim <= clock => Most(0, clock + n) <= clock /\ Most(0, clock + n) >= aim
  BY <1>4, <1>5, TimecodeNumbers DEF Most
<1>7. QED
  BY <1>3, <1>6 DEF clock, dt

\* A turn does one of these, and notes the position.
LEMMA DriveCases ==
    ASSUME TimecodeTypeOK, NEW tc \in Timecodes, Drive(tc)
    PROVE  /\ follow' = [Noted(tc) EXCEPT !.hold = follow'.hold]
           /\ \/ Freezes(tc) \/ Jumps(tc) \/ Waits(tc)
              \/ Catches(tc) \/ Resumes(tc) \/ Drops(tc) \/ Runs(tc) \/ Slews(tc)
<1> DEFINE f == Noted(tc)
           aim == Aim(tc)
           act == LocateAction(aim - Shows, MayReopen)
           sync == /\ MayReopen
                   /\ IF tc.playing THEN /\ Gap(aim, Shows) > HardSync
                                         /\ f.hold # NoHold \/ loop.dt > 0
                      ELSE act.sync
           jumped == IF tc.playing THEN f.hold # NoHold ELSE Gap(aim, Shows) <= Deadband
<1>f. f \in [on : BOOLEAN, hold : -1 .. Top, secs : 0 .. Top, age : 0 .. Long]
      /\ f.hold = follow.hold
  BY NotedInside
<1>a. aim \in 0 .. Top /\ Shows \in 0 .. Top /\ loop.dt \in 0 .. MaxLoop
      /\ video \in [clock : 0 .. Top, shown : 0 .. Top]
      /\ follow \in [on : BOOLEAN, hold : -1 .. Top, secs : 0 .. Top, age : 0 .. Long]
      /\ (follow.hold # NoHold => Shows = follow.hold)
      /\ (follow.hold = NoHold => Shows = video.clock)
  BY AimInside, ShowsInside DEF TimecodeTypeOK
<1>s. Current(f, video) = Shows
  BY <1>f DEF Shows, Current
<1>1. /\ follow' = [f EXCEPT !.hold = IF tc.playing THEN FreedHold(@)
                                      ELSE IF act.hold THEN aim ELSE @]
      /\ video' \in IF tc.playing THEN Chased(f.hold, aim)
                    ELSE {IF act.sync THEN HardSynced(aim) ELSE video}
      /\ syncAge' = IF sync THEN 0 ELSE syncAge
      /\ back' = IF sync THEN 0
                 ELSE IF jumped THEN back + Most(Shows - Current(follow', video'), 0)
                 ELSE back
  <2>1. Target(Extrapolated(f, tc)) = aim
    BY DEF Aim
  <2> HIDE DEF f, aim
  <2>2. Current(f, video) = Shows
    BY <1>s DEF f
  <2>3. QED
    BY <2>1, <2>2 DEF Drive, f
<1> HIDE DEF f, aim
<1>2. follow' = [f EXCEPT !.hold = follow'.hold]
  BY <1>1, <1>f
<1>g. Gap(aim - Shows, 0) = Gap(aim, Shows) /\ Off(tc) = Gap(aim, Shows)
      /\ Gap(aim, Shows) \in Nat
  BY <1>a, TimecodeNumbers DEF Gap, Most, Off, aim
<1>3. CASE ~tc.playing
  <2>1. follow'.hold = (IF act.hold THEN aim ELSE follow.hold)
        /\ video' = (IF act.sync THEN HardSynced(aim) ELSE video)
        /\ syncAge' = (IF MayReopen /\ act.sync THEN 0 ELSE syncAge)
        /\ back' = (IF MayReopen /\ act.sync THEN 0
                    ELSE IF Gap(aim, Shows) <= Deadband
                         THEN back + Most(Shows - Current(follow', video'), 0)
                         ELSE back)
    BY <1>1, <1>f, <1>3
  <2>2. CASE Gap(aim, Shows) <= Deadband
    <3>1. act.hold = TRUE /\ act.sync = FALSE
      BY <2>2, <1>g DEF LocateAction
    <3>2. follow'.hold = aim /\ Stays
      BY <2>1, <3>1 DEF Stays
    <3>3. Current(follow', video') = aim
      BY <3>2, <1>a, TimecodeNumbers DEF Current, NoHold
    <3>4. Freezes(tc)
      BY <1>3, <1>g, <2>1, <2>2, <3>1, <3>2, <3>3 DEF Freezes, aim
    <3>5. QED
      BY <1>2, <3>4 DEF f
  <2>3. CASE ~(Gap(aim, Shows) <= Deadband) /\ MayReopen
    <3>1. act.hold = TRUE /\ act.sync = TRUE
      BY <2>3, <1>g DEF LocateAction
    <3>2. video' = Reopened(aim) /\ follow'.hold = aim /\ syncAge' = 0 /\ back' = 0
      BY <2>1, <2>3, <3>1 DEF HardSynced
    <3>3. Off(tc) > Deadband
      BY <1>g, <2>3, TimecodeNumbers
    <3>4. Jumps(tc)
      BY <1>3, <2>3, <3>2, <3>3 DEF Jumps, Reopens, aim
    <3>5. QED
      BY <1>2, <3>4 DEF f
  <2>4. CASE ~(Gap(aim, Shows) <= Deadband) /\ ~MayReopen
    <3>1. act.hold = FALSE /\ act.sync = FALSE
      BY <2>4, <1>g DEF LocateAction
    <3>2. follow'.hold = follow.hold /\ Stays
      BY <2>1, <3>1 DEF Stays
    <3>3. Waits(tc)
      <4>1. Off(tc) > Deadband
        BY <1>g, <2>4, TimecodeNumbers
      <4>2. back' = back
        BY <2>1, <2>4, <3>1
      <4>3. QED
        BY <1>3, <2>4, <3>2, <4>1, <4>2 DEF Waits
    <3>5. QED
      BY <1>2, <3>3 DEF f
  <2>5. QED
    BY <2>2, <2>3, <2>4
<1>4. CASE tc.playing /\ follow.hold # NoHold
  <2>1. /\ follow'.hold = NoHold
        /\ video' \in (IF Gap(aim, Shows) > HardSync THEN {HardSynced(aim)}
                       ELSE {Reanchored(aim)})
        /\ syncAge' = (IF MayReopen /\ Gap(aim, Shows) > HardSync THEN 0 ELSE syncAge)
        /\ back' = (IF MayReopen /\ Gap(aim, Shows) > HardSync THEN 0
                    ELSE back + Most(Shows - Current(follow', video'), 0))
    BY <1>1, <1>f, <1>4, <1>a DEF FreedHold, Chased
  <2>c. Current(follow', video') = video'.clock
    BY <2>1 DEF Current
  <2>2. CASE Gap(aim, Shows) <= HardSync
    <3>0. ~(Gap(aim, Shows) > HardSync)
      BY <2>2, <1>g, TimecodeNumbers
    <3>1. video' = Reanchored(aim) /\ syncAge' = syncAge
      BY <2>1, <3>0
    <3>2. video'.clock = aim
      BY <3>1, <1>a DEF Reanchored
    <3>3. back' = back + Most(Shows - aim, 0)
      BY <2>1, <2>c, <3>0, <3>2
    <3>4. Resumes(tc)
      BY <1>4, <1>g, <2>1, <2>2, <3>1, <3>3 DEF Resumes, aim
    <3>5. QED
      BY <1>2, <3>4 DEF f
  <2>3. CASE Gap(aim, Shows) > HardSync /\ MayReopen
    <3>1. video' = Reopened(aim) /\ syncAge' = 0 /\ back' = 0
      BY <2>1, <2>3 DEF HardSynced
    <3>4. Catches(tc)
      BY <1>4, <1>g, <2>1, <2>3, <3>1 DEF Catches, Reopens, aim
    <3>5. QED
      BY <1>2, <3>4 DEF f
  <2>4. CASE Gap(aim, Shows) > HardSync /\ ~MayReopen
    <3>1. Stays
      BY <2>1, <2>4 DEF HardSynced, Stays
    <3>2. back' = back + Most(Shows - video.clock, 0)
      BY <2>1, <2>4, <2>c, <3>1 DEF Stays
    <3>4. Drops(tc)
      BY <1>4, <1>g, <2>1, <2>4, <3>1, <3>2 DEF Drops
    <3>5. QED
      BY <1>2, <3>4 DEF f
  <2>5. QED
    BY <2>2, <2>3, <2>4, <1>g, TimecodeNumbers
<1>5. CASE tc.playing /\ follow.hold = NoHold
  <2>1. /\ follow'.hold = NoHold
        /\ video' \in Corrected(aim - video.clock, aim)
        /\ syncAge' = (IF MayReopen /\ Gap(aim, Shows) > HardSync /\ loop.dt > 0
                       THEN 0 ELSE syncAge)
        /\ back' = (IF MayReopen /\ Gap(aim, Shows) > HardSync /\ loop.dt > 0
                    THEN 0 ELSE back)
    BY <1>1, <1>f, <1>5, <1>a DEF FreedHold, Chased
  <2>c. video.clock = Shows
    BY <1>a, <1>5
  <2>d. Corrected(aim - Shows, aim) =
        CASE loop.dt = 0 \/ Gap(aim, Shows) <= Deadband -> {video}
          [] loop.dt > 0 /\ Gap(aim, Shows) > HardSync -> {HardSynced(aim)}
          [] OTHER -> Nudged(aim - Shows)
    BY <1>g DEF Corrected
  <2>2. CASE loop.dt = 0 \/ Gap(aim, Shows) <= Deadband
    <3>1. ~(Gap(aim, Shows) > HardSync /\ loop.dt > 0)
      BY <2>2, <1>a, <1>g, TimecodeNumbers
    <3>2. Corrected(aim - Shows, aim) = {video}
      BY <2>2, <2>d, <3>1
    <3>3. Runs(tc)
      BY <1>5, <1>g, <2>1, <2>2, <2>c, <3>1, <3>2 DEF Runs, Stays
    <3>5. QED
      BY <1>2, <3>3 DEF f
  <2>3. CASE loop.dt > 0 /\ Gap(aim, Shows) > HardSync
    <3>1. ~(loop.dt = 0 \/ Gap(aim, Shows) <= Deadband)
      BY <2>3, <1>a, <1>g, TimecodeNumbers
    <3>2. Corrected(aim - Shows, aim) = {HardSynced(aim)}
      BY <2>3, <2>d, <3>1
    <3>3. CASE MayReopen
      <4>1. Catches(tc)
        BY <1>5, <1>g, <2>1, <2>3, <2>c, <3>2, <3>3 DEF Catches, Reopens, HardSynced, aim
      <4>2. QED
        BY <1>2, <4>1 DEF f
    <3>4. CASE ~MayReopen
      <4>1. Runs(tc)
        BY <1>5, <1>g, <2>1, <2>3, <2>c, <3>2, <3>4 DEF Runs, Stays, HardSynced
      <4>2. QED
        BY <1>2, <4>1 DEF f
    <3>5. QED
      BY <3>3, <3>4
  <2>4. CASE loop.dt > 0 /\ Gap(aim, Shows) > Deadband /\ Gap(aim, Shows) <= HardSync
    <3>1. ~(loop.dt = 0 \/ Gap(aim, Shows) <= Deadband)
          /\ ~(loop.dt > 0 /\ Gap(aim, Shows) > HardSync)
      BY <2>4, <1>a, <1>g, TimecodeNumbers
    <3>2. Corrected(aim - Shows, aim) = Nudged(aim - Shows)
      BY <2>d, <3>1
    <3>3. Slews(tc)
      BY <1>5, <1>g, <2>1, <2>4, <2>c, <3>1, <3>2 DEF Slews, aim
    <3>5. QED
      BY <1>2, <3>3 DEF f
  <2>5. QED
    BY <2>2, <2>3, <2>4, <1>a, <1>g, TimecodeNumbers
<1>6. QED
  BY <1>3, <1>4, <1>5

-----------------------------------------------------------------------------
(* Timecode: types *)

\* What Pass changes whatever the source sends.
Tick ==
    /\ loop' = [loop EXCEPT !.dt = @ + 1]
    /\ follow' = [follow EXCEPT !.age = Older(@, Long)]
    /\ video' = IF follow.on
                THEN Presented(follow, [video EXCEPT !.clock = Older(@, Top)])
                ELSE video
    /\ syncAge' = Older(syncAge, Floor)

\* The follow and the picture after a unit of time.
LEMMA TickInside ==
    ASSUME TimecodeTypeOK, loop.dt < MaxLoop, Tick
    PROVE  /\ loop' \in [at : {"refresh", "drive"}, expired : BOOLEAN, dt : 0 .. MaxLoop]
           /\ loop'.dt = loop.dt + 1 /\ loop'.at = loop.at /\ loop'.expired = loop.expired
           /\ follow' \in [on : BOOLEAN, hold : -1 .. Top, secs : 0 .. Top, age : 0 .. Long]
           /\ follow'.on = follow.on /\ follow'.hold = follow.hold
           /\ follow'.secs = follow.secs /\ follow'.age = Older(follow.age, Long)
           /\ video' \in [clock : 0 .. Top, shown : 0 .. Top]
           /\ follow.on =>
                /\ video'.clock = Older(video.clock, Top)
                /\ video'.shown = Most(video.shown, IF follow.hold # NoHold THEN follow.hold
                                                    ELSE Older(video.clock, Top))
           /\ ~follow.on => video' = video
           /\ syncAge' \in 0 .. Floor
<1>1. /\ loop \in [at : {"refresh", "drive"}, expired : BOOLEAN, dt : 0 .. MaxLoop]
      /\ follow \in [on : BOOLEAN, hold : -1 .. Top, secs : 0 .. Top, age : 0 .. Long]
      /\ video \in [clock : 0 .. Top, shown : 0 .. Top] /\ syncAge \in 0 .. Floor
  BY DEF TimecodeTypeOK
<1>2. loop.dt + 1 \in 0 .. MaxLoop
  BY <1>1, TimecodeNumbers
<1>3. Older(follow.age, Long) \in 0 .. Long
  BY <1>1, OlderInside, TimecodeNumbers
<1>4. Older(video.clock, Top) \in 0 .. Top
  BY <1>1, OlderInside, TimecodeNumbers
<1>5. Older(syncAge, Floor) \in 0 .. Floor
  BY <1>1, OlderInside, TimecodeNumbers
<1>6. loop' = [loop EXCEPT !.dt = loop.dt + 1]
      /\ follow' = [follow EXCEPT !.age = Older(follow.age, Long)]
  BY DEF Tick
<1>7. CASE follow.on
  <2> DEFINE now == IF follow.hold # NoHold THEN follow.hold ELSE Older(video.clock, Top)
             v == [video EXCEPT !.clock = Older(video.clock, Top)]
  <2>1. now \in 0 .. Top
    <3>1. follow.hold # -1 => follow.hold \in 0 .. Top
      BY <1>1, TimecodeNumbers
    <3>2. QED
      BY <3>1, <1>4 DEF NoHold
  <2>2. v \in [clock : 0 .. Top, shown : 0 .. Top] /\ v.clock = Older(video.clock, Top)
        /\ v.shown = video.shown
    BY <1>1, <1>4
  <2>3. Current(follow, v) = now
    BY <2>2 DEF Current
  <2>4. video' = Presented(follow, v)
    BY <1>7 DEF Tick
  <2> HIDE DEF v, now
  <2>5. video' = [v EXCEPT !.shown = Most(video.shown, now)]
    BY <2>2, <2>3, <2>4 DEF Presented
  <2>6. Most(video.shown, now) \in 0 .. Top
    BY <1>1, <2>1 DEF Most
  <2>7. video' \in [clock : 0 .. Top, shown : 0 .. Top]
        /\ video'.clock = Older(video.clock, Top) /\ video'.shown = Most(video.shown, now)
    BY <2>2, <2>5, <2>6
  <2>8. QED
    BY <1>1, <1>2, <1>3, <1>5, <1>6, <1>7, <2>7 DEF now, Tick
<1>8. CASE ~follow.on
  <2>1. video' = video
    BY <1>8 DEF Tick
  <2>2. QED
    BY <1>1, <1>2, <1>3, <1>5, <1>6, <1>8, <2>1 DEF Tick
<1>9. QED
  BY <1>7, <1>8

\* What a source sends leaves the receivers' state well formed.
LEMMA SentInside ==
    ASSUME TimecodeTypeOK, NEW p \in 0 .. MaxPos, Sent(p)
    PROVE  /\ dec' \in [from : [{1, 2} -> 0 .. MaxPos], seen : SUBSET {1, 2}]
           /\ ltc' \in [expected : -1 .. MaxPos + 2, mismatches : 0 .. 1,
                        queue : Seq(0 .. MaxPos), due : Seq(0 .. MaxPos)]
           /\ pub' \in [pos : 0 .. Top, playing : BOOLEAN]
           /\ heard' \in 0 .. Timeout + 1
           /\ faults' \in 0 .. MaxFaults
<1>1. /\ dec \in [from : [{1, 2} -> 0 .. MaxPos], seen : SUBSET {1, 2}]
      /\ ltc \in [expected : -1 .. MaxPos + 2, mismatches : 0 .. 1,
                  queue : Seq(0 .. MaxPos), due : Seq(0 .. MaxPos)]
      /\ pub \in [pos : 0 .. Top, playing : BOOLEAN]
      /\ heard \in 0 .. Timeout + 1 /\ faults \in 0 .. MaxFaults
  BY DEF TimecodeTypeOK
<1>2. Message(p) \in 0 .. MaxPos /\ Piece(p) \in {1, 2}
  BY MessageInside
<1>3. Older(heard, Timeout + 1) \in 0 .. Timeout + 1 /\ 0 \in 0 .. Timeout + 1
  BY <1>1, TimecodeNumbers DEF Older, Least
<1>4. faults < MaxFaults => faults + 1 \in 0 .. MaxFaults
  BY <1>1, TimecodeNumbers
<1>5. CASE QuarterFrame(Piece(p), Message(p)) /\ UNCHANGED faults
  <2> DEFINE from == [dec.from EXCEPT ![Piece(p)] = Message(p)]
             seen == dec.seen \cup {Piece(p)}
  <2>1. from \in [{1, 2} -> 0 .. MaxPos] /\ seen \in SUBSET {1, 2}
    BY <1>1, <1>2
  <2>2. Assemble(from) \in 0 .. Top
    BY <2>1, AssembleInside
  <2>3. /\ dec' = [from |-> from, seen |-> IF seen = {1, 2} THEN {} ELSE seen]
        /\ pub' = [pos |-> IF seen = {1, 2} THEN Assemble(from) ELSE pub.pos,
                   playing |-> TRUE]
        /\ heard' = 0 /\ ltc' = ltc /\ faults' = faults
    BY <1>5 DEF QuarterFrame
  <2> HIDE DEF from, seen
  <2>4. QED
    BY <1>1, <1>3, <2>1, <2>2, <2>3
<1>6. CASE \E read \in {Message(p)} \cup
                      (IF faults < MaxFaults /\ Piece(p) = 2 THEN Starts ELSE {}) :
            /\ ltc' = IF Piece(p) = 2
                      THEN [ltc EXCEPT !.queue = Append(@, read)] ELSE ltc
            /\ faults' = IF read = Message(p) THEN faults ELSE faults + 1
            /\ heard' = Older(heard, Timeout + 1)
            /\ UNCHANGED <<dec, pub>>
  <2>1. PICK read \in {Message(p)} \cup
                      (IF faults < MaxFaults /\ Piece(p) = 2 THEN Starts ELSE {}) :
            /\ ltc' = IF Piece(p) = 2
                      THEN [ltc EXCEPT !.queue = Append(@, read)] ELSE ltc
            /\ faults' = IF read = Message(p) THEN faults ELSE faults + 1
            /\ heard' = Older(heard, Timeout + 1)
            /\ UNCHANGED <<dec, pub>>
    BY <1>6
  <2>2. read \in 0 .. MaxPos
    BY <1>2, StartsInside
  <2>3. read # Message(p) => faults < MaxFaults
    OBVIOUS
  <2>4. Append(ltc.queue, read) \in Seq(0 .. MaxPos)
    BY <1>1, <2>2
  <2>5. ltc' \in [expected : -1 .. MaxPos + 2, mismatches : 0 .. 1,
                  queue : Seq(0 .. MaxPos), due : Seq(0 .. MaxPos)]
    BY <1>1, <2>1, <2>4
  <2>6. QED
    BY <1>1, <1>3, <1>4, <2>1, <2>3, <2>5
<1>7. CASE faults < MaxFaults /\ faults' = faults + 1 /\ Nothing
  BY <1>1, <1>3, <1>4, <1>7 DEF Nothing
<1>8. QED
  BY <1>5, <1>6, <1>7 DEF Sent

\* The first of a sequence and the others.
LEMMA HeadTail ==
    ASSUME NEW S, NEW q \in Seq(S), q # <<>>
    PROVE  Head(q) \in S /\ Tail(q) \in Seq(S)
<1>1. Len(q) \in Nat /\ Len(q) # 0 /\ q \in [1 .. Len(q) -> S]
  OBVIOUS
<1>2. Head(q) \in S
  BY <1>1
<1>3. Tail(q) \in Seq(S)
  BY <1>1
<1>4. QED
  BY <1>2, <1>3

\* The next frame drained, accepted or not.
LEMMA DecodeInside ==
    ASSUME TimecodeTypeOK, ltc.due # <<>>, AcceptFrame(Head(ltc.due))
    PROVE  /\ ltc' \in [expected : -1 .. MaxPos + 2, mismatches : 0 .. 1,
                        queue : Seq(0 .. MaxPos), due : Seq(0 .. MaxPos)]
           /\ ltc'.queue = ltc.queue
           /\ pub' \in [pos : 0 .. Top, playing : BOOLEAN]
           /\ heard' \in 0 .. Timeout + 1
           /\ \/ pub' = pub /\ heard' = heard
              \/ /\ pub' = [pos |-> Head(ltc.due), playing |-> TRUE]
                 /\ heard' = 0
<1> DEFINE frame == Head(ltc.due)
           rest == Tail(ltc.due)
<1>1. /\ ltc \in [expected : -1 .. MaxPos + 2, mismatches : 0 .. 1,
                  queue : Seq(0 .. MaxPos), due : Seq(0 .. MaxPos)]
      /\ pub \in [pos : 0 .. Top, playing : BOOLEAN]
      /\ heard \in 0 .. Timeout + 1
  BY DEF TimecodeTypeOK
<1>2. frame \in 0 .. MaxPos /\ rest \in Seq(0 .. MaxPos)
  <2> DEFINE d == ltc.due
  <2>1. d \in Seq(0 .. MaxPos) /\ d # <<>>
    BY <1>1
  <2> HIDE DEF d
  <2>2. Head(d) \in 0 .. MaxPos /\ Tail(d) \in Seq(0 .. MaxPos)
    BY <2>1, HeadTail
  <2>3. QED
    BY <2>2 DEF d
<1>3. frame \in 0 .. Top /\ frame + 2 \in -1 .. MaxPos + 2 /\ 0 \in 0 .. Timeout + 1
  BY <1>2, TimecodeNumbers
<1>4. \/ /\ ltc' = [ltc EXCEPT !.due = rest, !.mismatches = 1]
         /\ pub' = pub /\ heard' = heard
      \/ /\ ltc' = [ltc EXCEPT !.due = rest, !.mismatches = 0,
                               !.expected = frame + 2]
         /\ pub' = [pos |-> frame, playing |-> TRUE] /\ heard' = 0
  BY DEF AcceptFrame
<1> HIDE DEF frame, rest
<1>5. CASE /\ ltc' = [ltc EXCEPT !.due = rest, !.mismatches = 1]
           /\ pub' = pub /\ heard' = heard
  <2>1. ltc' = [expected |-> ltc.expected, mismatches |-> 1,
                queue |-> ltc.queue, due |-> rest]
    BY <1>1, <1>5
  <2>2. ltc' \in [expected : -1 .. MaxPos + 2, mismatches : 0 .. 1,
                  queue : Seq(0 .. MaxPos), due : Seq(0 .. MaxPos)]
        /\ ltc'.queue = ltc.queue
    BY <1>1, <1>2, <2>1
  <2>3. QED
    BY <1>1, <1>5, <2>2
<1>6. CASE /\ ltc' = [ltc EXCEPT !.due = rest, !.mismatches = 0,
                                 !.expected = frame + 2]
           /\ pub' = [pos |-> frame, playing |-> TRUE] /\ heard' = 0
  <2>3. ltc' = [expected |-> frame + 2, mismatches |-> 0,
                queue |-> ltc.queue, due |-> rest]
    BY <1>1, <1>6
  <2>1. ltc' \in [expected : -1 .. MaxPos + 2, mismatches : 0 .. 1,
                  queue : Seq(0 .. MaxPos), due : Seq(0 .. MaxPos)]
        /\ ltc'.queue = ltc.queue
    BY <1>1, <1>2, <1>3, <2>3
  <2>2. QED
    BY <1>1, <1>3, <1>6, <2>1 DEF frame
<1>7. QED
  BY <1>4, <1>5, <1>6

\* What LoopDrive leaves in the published state is a timecode.
LEMMA ReadInside ==
    ASSUME TimecodeTypeOK, LoopDrive
    PROVE  pub' \in Timecodes /\ pub'.pos = pub.pos /\ (pub'.playing => pub.playing)
           /\ (pub'.playing => ~loop.expired /\ (kind = "ltc" => heard <= Timeout))
BY DEF TimecodeTypeOK, LoopDrive, Timecodes

\* The follow and the picture after a turn.
LEMMA DriveInside ==
    ASSUME TimecodeTypeOK, NEW tc \in Timecodes, Drive(tc)
    PROVE  /\ follow' \in [on : BOOLEAN, hold : -1 .. Top, secs : 0 .. Top, age : 0 .. Long]
           /\ follow'.on = follow.on /\ follow'.secs = tc.pos
           /\ follow'.age = (IF tc.pos = follow.secs THEN follow.age ELSE 0)
           /\ video' \in [clock : 0 .. Top, shown : 0 .. Top]
           /\ syncAge' \in 0 .. Floor
           /\ back' \in Nat
<1>1. /\ video \in [clock : 0 .. Top, shown : 0 .. Top] /\ syncAge \in 0 .. Floor
      /\ back \in Nat /\ loop.dt \in 0 .. MaxLoop /\ follow.hold \in -1 .. Top
  BY DEF TimecodeTypeOK
<1>2. Aim(tc) \in 0 .. Top
  BY AimInside
<1>3. Shows \in 0 .. Top
  BY ShowsInside
<1>4. Noted(tc) \in [on : BOOLEAN, hold : -1 .. Top, secs : 0 .. Top, age : 0 .. Long]
      /\ Noted(tc).on = follow.on /\ Noted(tc).secs = tc.pos
      /\ Noted(tc).age = (IF tc.pos = follow.secs THEN follow.age ELSE 0)
  BY NotedInside
<1>5. follow' = [Noted(tc) EXCEPT !.hold = follow'.hold]
  BY DriveCases
<1>6. NoHold \in -1 .. Top /\ 0 \in 0 .. Floor
      /\ (\A x \in 0 .. Top : x \in -1 .. Top)
      /\ (\A a, b \in 0 .. Top : back + Most(a - b, 0) \in Nat)
  BY <1>1, TimecodeNumbers DEF NoHold, Most
<1>7. follow'.hold \in -1 .. Top /\ syncAge' \in 0 .. Floor /\ back' \in Nat
      /\ video' \in [clock : 0 .. Top, shown : 0 .. Top]
  <2>1. CASE Freezes(tc)
    BY <1>1, <1>2, <1>3, <1>6, <2>1 DEF Freezes, Stays
  <2>2. CASE Jumps(tc)
    BY <1>1, <1>2, <1>6, <2>2 DEF Jumps, Reopens, Reopened
  <2>3. CASE Waits(tc)
    BY <1>1, <2>3 DEF Waits, Stays
  <2>4. CASE Catches(tc)
    BY <1>1, <1>2, <1>6, <2>4 DEF Catches, Reopens, Reopened
  <2>5. CASE Resumes(tc)
    BY <1>1, <1>2, <1>3, <1>6, <2>5 DEF Resumes, Reanchored
  <2>6. CASE Drops(tc)
    BY <1>1, <1>3, <1>6, <2>6 DEF Drops, Stays
  <2>7. CASE Runs(tc)
    BY <1>1, <1>6, <2>7 DEF Runs, Stays
  <2>8. CASE Slews(tc)
    <3>1. video.clock = Shows
      BY <2>8, ShowsInside DEF Slews
    <3>2. PICK to \in 0 .. Top : video' = [video EXCEPT !.clock = to]
      BY <1>2, <2>8, <3>1, NudgedInside DEF Slews
    <3>3. QED
      BY <1>1, <1>6, <2>8, <3>2 DEF Slews
  <2>9. QED
    BY <2>1, <2>2, <2>3, <2>4, <2>5, <2>6, <2>7, <2>8, DriveCases
<1>8. QED
  BY <1>4, <1>5, <1>7

\* A source that plays has not come to its end.
TimecodeTypes == TimecodeTypeOK /\ (src.playing => src.pos < MaxPos)

\* Every step keeps the types.
LEMMA TimecodeTypesStep ==
    ASSUME TimecodeTypes, [TimecodeNext]_timecodeVars
    PROVE  TimecodeTypes'
<1>1. TimecodeTypeOK /\ (src.playing => src.pos < MaxPos)
  BY DEF TimecodeTypes
<1>2. CASE Pass
  <2>1. /\ loop' \in [at : {"refresh", "drive"}, expired : BOOLEAN, dt : 0 .. MaxLoop]
        /\ follow' \in [on : BOOLEAN, hold : -1 .. Top, secs : 0 .. Top, age : 0 .. Long]
        /\ video' \in [clock : 0 .. Top, shown : 0 .. Top]
        /\ syncAge' \in 0 .. Floor
    <3>1. loop.dt < MaxLoop /\ Tick
      BY <1>2 DEF Pass, Tick
    <3>2. QED
      BY <1>1, <3>1, TickInside
  <2>2. kind' \in Kinds /\ back' \in Nat /\ moves' \in 0 .. MaxMoves
    BY <1>1, <1>2 DEF Pass, TimecodeTypeOK
  <2>3. steady \in 0 .. Settle /\ src \in [pos : 0 .. MaxPos, playing : BOOLEAN]
        /\ heard \in 0 .. Timeout + 1
    BY <1>1 DEF TimecodeTypeOK
  <2>4. Older(steady, Settle) \in 0 .. Settle /\ 0 \in 0 .. Settle
        /\ Older(heard, Timeout + 1) \in 0 .. Timeout + 1
    BY <2>3, TimecodeNumbers DEF Older, Least
  <2>5. CASE src.playing
    <3>1. Sent(src.pos)
          /\ src' = [pos |-> src.pos + 1, playing |-> src.pos + 1 < MaxPos]
          /\ steady' \in {0, Older(steady, Settle)}
      BY <1>2, <2>5 DEF Pass
    <3>2. src.pos \in 0 .. MaxPos /\ src.pos + 1 \in 0 .. MaxPos
      BY <1>1, <2>3, <2>5, TimecodeNumbers
    <3>3. /\ dec' \in [from : [{1, 2} -> 0 .. MaxPos], seen : SUBSET {1, 2}]
          /\ ltc' \in [expected : -1 .. MaxPos + 2, mismatches : 0 .. 1,
                       queue : Seq(0 .. MaxPos), due : Seq(0 .. MaxPos)]
          /\ pub' \in [pos : 0 .. Top, playing : BOOLEAN]
          /\ heard' \in 0 .. Timeout + 1
          /\ faults' \in 0 .. MaxFaults
      BY <1>1, <3>1, <3>2, SentInside
    <3>4. src' \in [pos : 0 .. MaxPos, playing : BOOLEAN]
          /\ (src'.playing => src'.pos < MaxPos)
      <4> DEFINE on == src.pos + 1 < MaxPos
      <4>1. src' = [pos |-> src.pos + 1, playing |-> on] /\ on \in BOOLEAN
        BY <3>1
      <4>2. on => src.pos + 1 < MaxPos
        OBVIOUS
      <4> HIDE DEF on
      <4>3. src'.pos = src.pos + 1 /\ src'.playing = on
            /\ src' \in [pos : 0 .. MaxPos, playing : BOOLEAN]
        BY <3>2, <4>1
      <4>4. QED
        BY <4>2, <4>3
    <3>5. steady' \in 0 .. Settle
      BY <2>4, <3>1
    <3>6. QED
      BY <2>1, <2>2, <3>3, <3>4, <3>5 DEF TimecodeTypes, TimecodeTypeOK
  <2>6. CASE ~src.playing
    <3>1. Nothing /\ steady' = Older(steady, Settle) /\ src' = src /\ faults' = faults
      BY <1>2, <2>6 DEF Pass
    <3>2. dec' = dec /\ ltc' = ltc /\ pub' = pub /\ heard' = Older(heard, Timeout + 1)
      BY <3>1 DEF Nothing
    <3>3. QED
      BY <1>1, <2>1, <2>2, <2>4, <3>1, <3>2 DEF TimecodeTypes, TimecodeTypeOK
  <2>7. QED
    BY <2>5, <2>6
<1>m. Move => moves' \in 0 .. MaxMoves /\ steady' \in 0 .. Settle
  BY <1>1, TimecodeNumbers DEF Move, TimecodeTypeOK
<1>s. \A p \in Starts : p \in 0 .. MaxPos /\ p < MaxPos /\ p \in 0 .. Top
  BY StartsInside
<1>0. src \in [pos : 0 .. MaxPos, playing : BOOLEAN]
      /\ follow \in [on : BOOLEAN, hold : -1 .. Top, secs : 0 .. Top, age : 0 .. Long]
      /\ pub \in [pos : 0 .. Top, playing : BOOLEAN]
      /\ loop \in [at : {"refresh", "drive"}, expired : BOOLEAN, dt : 0 .. MaxLoop]
      /\ ltc \in [expected : -1 .. MaxPos + 2, mismatches : 0 .. 1,
                  queue : Seq(0 .. MaxPos), due : Seq(0 .. MaxPos)]
      /\ 0 \in 0 .. Top /\ 0 \in 0 .. Long /\ 0 \in 0 .. MaxLoop /\ 0 \in 0 .. Settle
      /\ NoHold \in -1 .. Top /\ 0 \in -1 .. Top
  BY <1>1, TimecodeNumbers DEF TimecodeTypeOK, NoHold
<1>3. CASE Play
  <2>1. src' = [src EXCEPT !.playing = TRUE] /\ src.pos < MaxPos /\ Move
    BY <1>3 DEF Play
  <2>2. src' \in [pos : 0 .. MaxPos, playing : BOOLEAN] /\ src'.pos < MaxPos
    BY <1>0, <2>1
  <2>3. QED
    BY <1>1, <1>3, <1>m, <2>1, <2>2 DEF Play, TimecodeTypes, TimecodeTypeOK
<1>4. CASE StopSource
  <2>1. src' = [src EXCEPT !.playing = FALSE] /\ Move
    BY <1>4 DEF StopSource
  <2>2. src' \in [pos : 0 .. MaxPos, playing : BOOLEAN] /\ ~src'.playing
    BY <1>0, <2>1
  <2>3. QED
    BY <1>1, <1>4, <1>m, <2>1, <2>2 DEF StopSource, TimecodeTypes, TimecodeTypeOK
<1>5. ASSUME NEW p \in Starts, Locate(p)
      PROVE  TimecodeTypes'
  <2>1. src' = [src EXCEPT !.pos = p] /\ Move
        /\ (pub' = pub \/ pub' = [pos |-> p, playing |-> FALSE])
    BY <1>5 DEF Locate
  <2>2. src' \in [pos : 0 .. MaxPos, playing : BOOLEAN] /\ src'.pos < MaxPos
    BY <1>0, <1>s, <2>1
  <2>4. pub' \in [pos : 0 .. Top, playing : BOOLEAN]
    <3>1. pub \in [pos : 0 .. Top, playing : BOOLEAN]
      BY <1>0
    <3>2. [pos |-> p, playing |-> FALSE] \in [pos : 0 .. Top, playing : BOOLEAN]
      BY <1>s
    <3>3. QED
      BY <2>1, <3>1, <3>2
  <2>3. QED
    BY <1>1, <1>5, <1>m, <2>1, <2>2, <2>4 DEF Locate, TimecodeTypes, TimecodeTypeOK
<1>6. ASSUME NEW p \in Starts, SeekCue(p)
      PROVE  TimecodeTypes'
  <2>1. follow' = [follow EXCEPT !.hold = IF @ = NoHold THEN @ ELSE p]
        /\ video' = [clock |-> p, shown |-> p] /\ Move /\ back' = 0
    BY <1>6 DEF SeekCue
  <2>2. p \in 0 .. Top /\ p \in -1 .. Top
    BY <1>s, TimecodeNumbers
  <2>3. follow' \in [on : BOOLEAN, hold : -1 .. Top, secs : 0 .. Top, age : 0 .. Long]
        /\ video' \in [clock : 0 .. Top, shown : 0 .. Top]
    BY <1>0, <2>1, <2>2
  <2>4. QED
    BY <1>1, <1>6, <1>m, <2>1, <2>3 DEF SeekCue, TimecodeTypes, TimecodeTypeOK
<1>7. CASE StartCue
  <2>1. follow' \in [on : BOOLEAN, hold : -1 .. Top, secs : 0 .. Top, age : 0 .. Long]
        /\ video' \in [clock : 0 .. Top, shown : 0 .. Top]
        /\ steady' \in 0 .. Settle /\ back' \in Nat
    BY <1>0, <1>7 DEF StartCue
  <2>2. QED
    BY <1>1, <1>7, <2>1 DEF StartCue, TimecodeTypes, TimecodeTypeOK
<1>8. CASE StopCue
  <2>1. follow' \in [on : BOOLEAN, hold : -1 .. Top, secs : 0 .. Top, age : 0 .. Long]
    BY <1>0, <1>8 DEF StopCue, NoFollow
  <2>2. Move
    BY <1>8 DEF StopCue
  <2>3. QED
    BY <1>1, <1>8, <1>m, <2>1, <2>2 DEF StopCue, TimecodeTypes, TimecodeTypeOK
<1>9. CASE LoopRefresh
  <2> DEFINE late == kind = "mtc" /\ heard > Timeout
  <2>1. loop' = [loop EXCEPT !.at = "drive", !.expired = late] /\ late \in BOOLEAN
        /\ ltc' = [ltc EXCEPT !.due = ltc.queue, !.queue = <<>>]
    BY <1>9 DEF LoopRefresh, Expired, Drained
  <2> HIDE DEF late
  <2>2. loop' \in [at : {"refresh", "drive"}, expired : BOOLEAN, dt : 0 .. MaxLoop]
    <3>1. loop \in [at : {"refresh", "drive"}, expired : BOOLEAN, dt : 0 .. MaxLoop]
      BY <1>0
    <3>2. loop' = [at |-> "drive", expired |-> late, dt |-> loop.dt]
      BY <2>1, <3>1
    <3>3. QED
      BY <2>1, <3>1, <3>2
  <2>4. ltc' \in [expected : -1 .. MaxPos + 2, mismatches : 0 .. 1,
                  queue : Seq(0 .. MaxPos), due : Seq(0 .. MaxPos)]
    <3>1. ltc \in [expected : -1 .. MaxPos + 2, mismatches : 0 .. 1,
                   queue : Seq(0 .. MaxPos), due : Seq(0 .. MaxPos)]
      BY <1>0
    <3>2. ltc' = [expected |-> ltc.expected, mismatches |-> ltc.mismatches,
                  queue |-> <<>>, due |-> ltc.queue]
      BY <2>1, <3>1
    <3>3. << >> \in Seq(0 .. MaxPos)
      OBVIOUS
    <3>4. QED
      BY <3>1, <3>2, <3>3
  <2>3. QED
    BY <1>1, <1>9, <2>2, <2>4 DEF LoopRefresh, Expired, Drained, TimecodeTypes, TimecodeTypeOK
<1>10. CASE LoopDecode
  <2>1. /\ ltc' \in [expected : -1 .. MaxPos + 2, mismatches : 0 .. 1,
                     queue : Seq(0 .. MaxPos), due : Seq(0 .. MaxPos)]
        /\ pub' \in [pos : 0 .. Top, playing : BOOLEAN]
        /\ heard' \in 0 .. Timeout + 1
    BY <1>1, <1>10, DecodeInside DEF LoopDecode
  <2>2. steady' = 0 \/ steady' = steady
    BY <1>10 DEF LoopDecode
  <2>3. steady' \in 0 .. Settle
    BY <1>0, <1>1, <2>2 DEF TimecodeTypeOK
  <2>4. QED
    BY <1>1, <1>10, <2>1, <2>3 DEF LoopDecode, TimecodeTypes, TimecodeTypeOK
<1>11. CASE LoopDrive
  <2>1. pub' \in Timecodes
    BY <1>1, <1>11, ReadInside
  <2>2. loop' \in [at : {"refresh", "drive"}, expired : BOOLEAN, dt : 0 .. MaxLoop]
    BY <1>0, <1>11 DEF LoopDrive
  <2>3. /\ follow' \in [on : BOOLEAN, hold : -1 .. Top, secs : 0 .. Top, age : 0 .. Long]
        /\ video' \in [clock : 0 .. Top, shown : 0 .. Top]
        /\ syncAge' \in 0 .. Floor
        /\ back' \in Nat
    <3>1. CASE follow.on
      <4>1. Drive(pub')
        BY <1>11, <3>1 DEF LoopDrive
      <4>2. QED
        BY <1>1, <2>1, <4>1, DriveInside
    <3>2. CASE ~follow.on
      BY <1>1, <1>11, <3>2 DEF LoopDrive, TimecodeTypeOK
    <3>3. QED
      BY <3>1, <3>2
  <2>4. QED
    BY <1>1, <1>11, <2>1, <2>2, <2>3 DEF LoopDrive, TimecodeTypes, TimecodeTypeOK, Timecodes
<1>12. CASE UNCHANGED timecodeVars
  BY <1>1, <1>12 DEF timecodeVars, TimecodeTypes, TimecodeTypeOK
<1>13. QED
  BY <1>2, <1>3, <1>4, <1>5, <1>6, <1>7, <1>8, <1>9, <1>10, <1>11, <1>12
  DEF TimecodeNext

\* The program starts with everything well formed.
LEMMA TimecodeTypesInit == TimecodeInit => TimecodeTypes
<1> SUFFICES ASSUME TimecodeInit PROVE TimecodeTypes
  OBVIOUS
<1>1. 0 \in 0 .. Top /\ 0 \in 0 .. Long /\ 0 \in 0 .. MaxLoop /\ 0 \in 0 .. Settle
      /\ 0 \in 0 .. MaxPos /\ 0 \in 0 .. MaxMoves /\ 0 \in 0 .. MaxFaults
      /\ NoHold \in -1 .. Top /\ NoFrame \in -1 .. MaxPos + 2 /\ 0 \in 0 .. 1
      /\ Timeout + 1 \in 0 .. Timeout + 1 /\ Floor \in 0 .. Floor
  BY TimecodeNumbers DEF NoHold, NoFrame
<1>2. dec \in [from : [{1, 2} -> 0 .. MaxPos], seen : SUBSET {1, 2}]
  <2>1. <<0, 0>> \in [{1, 2} -> 0 .. MaxPos]
    BY <1>1
  <2>2. QED
    BY <2>1 DEF TimecodeInit
<1>3. ltc \in [expected : -1 .. MaxPos + 2, mismatches : 0 .. 1,
               queue : Seq(0 .. MaxPos), due : Seq(0 .. MaxPos)]
  BY <1>1 DEF TimecodeInit
<1>4. QED
  BY <1>1, <1>2, <1>3 DEF TimecodeInit, TimecodeTypes, TimecodeTypeOK, NoFollow

\* The published state, what is captured, the follow and the picture keep their
\* types, whatever the source does and however often it is moved (all of Timecode).
THEOREM TimecodeTypeCorrect == TimecodeSpec => []TimecodeTypeOK
<1>1. TimecodeTypes => TimecodeTypeOK
  BY DEF TimecodeTypes
<1>2. QED
  BY <1>1, TimecodeTypesInit, TimecodeTypesStep, PTL DEF TimecodeSpec

-----------------------------------------------------------------------------
(* Timecode: a source that stands still is noticed *)

\* Units after which a source that stands still is known to.
Deaf == Timeout + 4 * MaxLoop

\* What was captured before the source stopped is decoded in the next turn, and
\* nothing is heard any more: it counts as playing until it timed out.
Unheard ==
    /\ loop.at = "refresh" => ltc.due = <<>>
    /\ ~src.playing =>
        /\ ltc.queue # <<>> =>
             steady <= loop.dt + (IF loop.at = "refresh" THEN MaxLoop ELSE 0)
        /\ ltc.due # <<>> => steady <= loop.dt + MaxLoop
        /\ heard >= Least(steady - 2 * MaxLoop, Timeout + 1)
        /\ loop.at = "drive" /\ kind = "mtc" /\ ~loop.expired =>
             steady <= Timeout + 2 * MaxLoop + loop.dt
        /\ pub.playing => steady <= Timeout + 3 * MaxLoop + loop.dt

\* The types of what Unheard is about.
LEMMA QuietNumbers ==
    ASSUME TimecodeTypes
    PROVE  /\ loop \in [at : {"refresh", "drive"}, expired : BOOLEAN, dt : 0 .. MaxLoop]
           /\ loop.dt \in 0 .. MaxLoop /\ steady \in 0 .. Settle
           /\ heard \in 0 .. Timeout + 1 /\ pub \in Timecodes
           /\ kind \in {"mtc", "ltc"}
BY TimecodeAssumption DEF TimecodeTypes, TimecodeTypeOK, Timecodes

\* A source that is touched, or comes to its end, starts the count.
LEMMA QuietTouched ==
    ASSUME TimecodeTypes, TimecodeTypes', steady' = 0,
           loop'.at = "refresh" => ltc'.due = <<>>
    PROVE  Unheard'
<1>1. loop'.dt \in 0 .. MaxLoop /\ heard' \in 0 .. Timeout + 1
  BY DEF TimecodeTypes, TimecodeTypeOK
<1>2. heard' >= Least(0 - 2 * MaxLoop, Timeout + 1)
  BY <1>1, TimecodeNumbers DEF Least
<1>3. 0 <= Timeout + 2 * MaxLoop + loop'.dt /\ 0 <= Timeout + 3 * MaxLoop + loop'.dt
      /\ 0 <= loop'.dt + MaxLoop /\ 0 <= loop'.dt + 0
  BY <1>1, TimecodeNumbers
<1>4. 0 <= loop'.dt + (IF loop'.at = "refresh" THEN MaxLoop ELSE 0)
  BY <1>3
<1>5. QED
  BY <1>2, <1>3, <1>4 DEF Unheard

\* Every step keeps the count.
LEMMA QuietStep ==
    ASSUME TimecodeTypes, Unheard, [TimecodeNext]_timecodeVars, TimecodeTypes'
    PROVE  Unheard'
<1>n. /\ loop \in [at : {"refresh", "drive"}, expired : BOOLEAN, dt : 0 .. MaxLoop]
      /\ loop.dt \in 0 .. MaxLoop /\ steady \in 0 .. Settle
      /\ heard \in 0 .. Timeout + 1
      /\ kind \in {"mtc", "ltc"}
  BY QuietNumbers
<1>m. Move => steady' = 0
  BY DEF Move
<1>1. CASE Pass
  <2>1. loop'.at = loop.at /\ loop'.dt = loop.dt + 1 /\ loop'.expired = loop.expired
    BY <1>1, <1>n DEF Pass
  <2>2. ltc'.due = ltc.due
    <3>1. ltc' = ltc \/ \E read : ltc' = [ltc EXCEPT !.queue = Append(@, read)]
      BY <1>1 DEF Pass, Sent, Nothing, QuarterFrame
    <3>2. ltc \in [expected : -1 .. MaxPos + 2, mismatches : 0 .. 1,
                   queue : Seq(0 .. MaxPos), due : Seq(0 .. MaxPos)]
      BY DEF TimecodeTypes, TimecodeTypeOK
    <3>3. QED
      BY <3>1, <3>2
  <2>3. loop'.at = "refresh" => ltc'.due = <<>>
    BY <2>1, <2>2 DEF Unheard
  <2>4. CASE src.playing
    <3>1. src'.playing \/ steady' = 0
      BY <1>1, <2>4 DEF Pass
    <3>2. CASE src'.playing
      BY <2>3, <3>2 DEF Unheard
    <3>3. CASE steady' = 0
      BY <2>3, <3>3, QuietTouched
    <3>4. QED
      BY <3>1, <3>2, <3>3
  <2>5. CASE ~src.playing
    <3>1. ltc' = ltc /\ pub' = pub /\ kind' = kind /\ src' = src
          /\ heard' = Older(heard, Timeout + 1) /\ steady' = Older(steady, Settle)
      BY <1>1, <2>5 DEF Pass, Nothing
    <3>2. steady' <= steady + 1
      BY <1>n, <3>1, OlderInside, TimecodeNumbers
    <3>3. steady' \in 0 .. Settle
      BY DEF TimecodeTypes, TimecodeTypeOK
    <3>4. heard >= Least(steady - 2 * MaxLoop, Timeout + 1)
          => heard' >= Least(steady' - 2 * MaxLoop, Timeout + 1)
      BY <1>n, <3>1, <3>2, <3>3, TimecodeNumbers DEF Older, Least
    <3>5. \A x \in Int : steady <= loop.dt + x => steady' <= loop'.dt + x
      BY <1>n, <2>1, <3>2, <3>3, TimecodeNumbers
    <3>6. \A x \in Int : steady <= x + loop.dt => steady' <= x + loop'.dt
      BY <1>n, <2>1, <3>2, <3>3, TimecodeNumbers
    <3>7. (IF loop.at = "refresh" THEN MaxLoop ELSE 0) \in Int /\ MaxLoop \in Int
          /\ Timeout + 2 * MaxLoop \in Int /\ Timeout + 3 * MaxLoop \in Int
      BY TimecodeNumbers
    <3>8. QED
      BY <2>1, <2>3, <2>5, <3>1, <3>4, <3>5, <3>6, <3>7 DEF Unheard
  <2>6. QED
    BY <2>4, <2>5
<1>2. CASE Play \/ StopSource \/ (\E p \in Starts : Locate(p) \/ SeekCue(p)) \/ StopCue
  <2>1. loop' = loop /\ ltc' = ltc /\ steady' = 0
    BY <1>2, <1>m DEF Play, StopSource, Locate, SeekCue, StopCue
  <2>2. QED
    BY <2>1, QuietTouched DEF Unheard
<1>3. CASE StartCue
  <2>1. loop' = loop /\ ltc' = ltc /\ steady' = 0
    BY <1>3 DEF StartCue
  <2>2. QED
    BY <2>1, QuietTouched DEF Unheard
<1>4. CASE LoopRefresh
  <2> DEFINE late == kind = "mtc" /\ heard > Timeout
  <2>1. loop' = [loop EXCEPT !.at = "drive", !.expired = late]
        /\ ltc' = [ltc EXCEPT !.due = ltc.queue, !.queue = <<>>]
        /\ loop.at = "refresh"
        /\ UNCHANGED <<kind, src, pub, heard, steady>>
    BY <1>4 DEF LoopRefresh, Expired, Drained
  <2> HIDE DEF late
  <2>2. loop'.at = "drive" /\ loop'.dt = loop.dt /\ loop'.expired = late
    BY <1>n, <2>1
  <2>3. ltc'.due = ltc.queue /\ ltc'.queue = <<>>
    <3>1. ltc \in [expected : -1 .. MaxPos + 2, mismatches : 0 .. 1,
                   queue : Seq(0 .. MaxPos), due : Seq(0 .. MaxPos)]
      BY DEF TimecodeTypes, TimecodeTypeOK
    <3>2. QED
      BY <2>1, <3>1
  <2>4. ~late /\ kind = "mtc" /\ heard >= Least(steady - 2 * MaxLoop, Timeout + 1)
        => steady <= Timeout + 2 * MaxLoop + loop.dt
    BY <1>n, TimecodeNumbers DEF late, Least
  <2>5. QED
    BY <2>1, <2>2, <2>3, <2>4 DEF Unheard
<1>5. CASE LoopDecode
  <2>1. ltc.due # <<>> /\ AcceptFrame(Head(ltc.due)) /\ loop.at = "drive"
        /\ UNCHANGED <<kind, src, loop>> /\ (~src.playing => steady' = steady)
    BY <1>5 DEF LoopDecode
  <2>2. /\ ltc'.queue = ltc.queue
        /\ \/ pub' = pub /\ heard' = heard
           \/ heard' = 0
    BY <2>1, DecodeInside DEF TimecodeTypes
  <2>3. CASE src.playing
    BY <2>1, <2>3 DEF Unheard
  <2>4. CASE ~src.playing
    <3>1. steady <= loop.dt + MaxLoop
      BY <2>1, <2>4 DEF Unheard
    <3>2. 0 >= Least(steady - 2 * MaxLoop, Timeout + 1)
          /\ steady <= Timeout + 3 * MaxLoop + loop.dt
      BY <1>n, <3>1, TimecodeNumbers DEF Least
    <3>3. QED
      BY <2>1, <2>2, <2>4, <3>1, <3>2 DEF Unheard
  <2>5. QED
    BY <2>3, <2>4
<1>6. CASE LoopDrive
  <2>1. /\ loop.at = "drive" /\ ltc.due = <<>>
        /\ loop'.at = "refresh" /\ loop'.dt = 0
        /\ UNCHANGED <<kind, src, ltc, heard, steady>>
    BY <1>6 DEF LoopDrive
  <2>2. pub'.playing => pub.playing /\ ~loop.expired /\ (kind = "ltc" => heard <= Timeout)
    BY <1>6, ReadInside DEF TimecodeTypes
  <2>3. CASE src.playing
    BY <2>1, <2>3 DEF Unheard
  <2>4. CASE ~src.playing
    <3>1. pub'.playing => steady <= Timeout + 3 * MaxLoop + 0
      <4>1. CASE kind = "mtc"
        <5>1. pub'.playing => steady <= Timeout + 2 * MaxLoop + loop.dt
          BY <2>1, <2>2, <2>4, <4>1 DEF Unheard
        <5>2. QED
          BY <5>1, <1>n, TimecodeNumbers
      <4>2. CASE kind = "ltc"
        <5>1. heard >= Least(steady - 2 * MaxLoop, Timeout + 1)
          BY <2>4 DEF Unheard
        <5>2. pub'.playing => heard <= Timeout
          BY <2>2, <4>2
        <5>3. QED
          BY <5>1, <5>2, <1>n, TimecodeNumbers DEF Least
      <4>3. QED
        BY <1>n, <4>1, <4>2
    <3>2. ltc.queue # <<>> => steady <= 0 + MaxLoop
      <4>1. ltc.queue # <<>> => steady <= loop.dt + 0
        BY <2>1, <2>4 DEF Unheard
      <4>2. QED
        BY <4>1, <1>n, TimecodeNumbers
    <3>3. QED
      BY <2>1, <2>4, <3>1, <3>2 DEF Unheard
  <2>5. QED
    BY <2>3, <2>4
<1>7. CASE UNCHANGED timecodeVars
  BY <1>7 DEF timecodeVars, Unheard
<1>8. QED
  BY <1>1, <1>2, <1>3, <1>4, <1>5, <1>6, <1>7 DEF TimecodeNext

\* Once it has stood still that long it does not count as playing.
LEMMA DeafAfter ==
    ASSUME TimecodeTypes, Unheard, ~src.playing, pub.playing
    PROVE  steady <= Deaf
<1>1. steady <= Timeout + 3 * MaxLoop + loop.dt
  BY DEF Unheard
<1>2. QED
  BY <1>1, QuietNumbers, TimecodeNumbers DEF Deaf

-----------------------------------------------------------------------------
(* Timecode: the picture does not run ahead of what it shows *)

\* What is left of the turn's own allowance.
Slack == IF follow.hold = NoHold THEN MaxLoop - loop.dt ELSE MaxLoop

\* The picture decoded is ahead of the one to be shown by the steps back alone.
Overshoot == follow.on => video.shown <= Shows + back + Slack

\* The types of what Overshoot is about.
LEMMA PictureNumbers ==
    ASSUME TimecodeTypeOK
    PROVE  /\ video.shown \in 0 .. Top /\ video.clock \in 0 .. Top
           /\ back \in Nat /\ loop.dt \in 0 .. MaxLoop /\ follow.hold \in -1 .. Top
           /\ syncAge \in 0 .. Floor /\ Shows \in 0 .. Top
           /\ Slack \in 0 .. MaxLoop /\ (loop.dt = 0 => Slack = MaxLoop)
           /\ (follow.hold # NoHold => Slack = MaxLoop)
           /\ (follow.hold = NoHold => Slack = MaxLoop - loop.dt)
<1>1. loop.dt \in 0 .. MaxLoop
  BY DEF TimecodeTypeOK
<1>2. /\ video.shown \in 0 .. Top /\ video.clock \in 0 .. Top
      /\ back \in Nat /\ follow.hold \in -1 .. Top
      /\ syncAge \in 0 .. Floor /\ Shows \in 0 .. Top
  BY ShowsInside DEF TimecodeTypeOK
<1>3. QED
  BY <1>1, <1>2, TimecodeNumbers DEF Slack

\* A turn of the follow keeps it.
LEMMA OvershootDrive ==
    ASSUME TimecodeTypes, TimecodeTypes', Overshoot, follow.on, loop'.dt = 0,
           NEW tc \in Timecodes, Drive(tc)
    PROVE  Overshoot'
<1>a. TimecodeTypeOK /\ TimecodeTypeOK'
  BY DEF TimecodeTypes
<1>b. video.shown <= Shows + back + Slack
  BY DEF Overshoot
<1>c. /\ video.shown \in 0 .. Top /\ video.clock \in 0 .. Top
      /\ back \in Nat /\ loop.dt \in 0 .. MaxLoop /\ Shows \in 0 .. Top
      /\ Slack \in 0 .. MaxLoop
      /\ (follow.hold = NoHold => Slack = MaxLoop - loop.dt)
      /\ video \in [clock : 0 .. Top, shown : 0 .. Top]
  BY <1>a, PictureNumbers DEF TimecodeTypeOK
<1>d. Slack' = MaxLoop
  BY <1>a, TimecodeNumbers DEF TimecodeTypeOK, Slack
<1>e. Shows' = IF follow'.hold # NoHold THEN follow'.hold ELSE video'.clock
  BY DEF Shows, Current
<1>f. Aim(tc) \in 0 .. Top /\ Aim(tc) # NoHold
  BY <1>a, AimInside, TimecodeNumbers DEF NoHold
<1>g. (follow.hold = NoHold => Shows = video.clock)
  BY <1>a, ShowsInside
<1> SUFFICES video'.shown <= Shows' + back' + MaxLoop
  BY <1>d DEF Overshoot
<1>1. CASE Freezes(tc)
  <2>1. Shows' = Aim(tc) /\ video' = video /\ back' = back + Most(Shows - Aim(tc), 0)
    BY <1>e, <1>f, <1>1 DEF Freezes, Stays
  <2>2. video.shown <= Aim(tc) + (back + Most(Shows - Aim(tc), 0)) + MaxLoop
    BY <1>b, <1>c, <1>f, TimecodeNumbers DEF Most
  <2>3. QED
    BY <2>1, <2>2
<1>2. CASE Jumps(tc)
  <2>1. Shows' = Aim(tc) /\ video'.shown = Aim(tc) /\ back' = 0
    BY <1>e, <1>f, <1>2 DEF Jumps, Reopens, Reopened
  <2>2. QED
    BY <2>1, <1>f, TimecodeNumbers
<1>3. CASE Waits(tc)
  <2>1. Shows' = Shows /\ video' = video /\ back' = back
    BY <1>e, <1>3 DEF Waits, Stays, Shows, Current
  <2>2. QED
    BY <2>1, <1>b, <1>c, TimecodeNumbers
<1>4. CASE Catches(tc)
  <2>1. Shows' = Aim(tc) /\ video'.shown = Aim(tc) /\ back' = 0
    BY <1>e, <1>4 DEF Catches, Reopens, Reopened
  <2>2. QED
    BY <2>1, <1>f, TimecodeNumbers
<1>5. CASE Resumes(tc)
  <2>1. Shows' = Aim(tc) /\ video'.shown = video.shown
        /\ back' = back + Most(Shows - Aim(tc), 0)
    BY <1>e, <1>c, <1>5 DEF Resumes, Reanchored
  <2>2. video.shown <= Aim(tc) + (back + Most(Shows - Aim(tc), 0)) + MaxLoop
    BY <1>b, <1>c, <1>f, TimecodeNumbers DEF Most
  <2>3. QED
    BY <2>1, <2>2
<1>6. CASE Drops(tc)
  <2>1. Shows' = video.clock /\ video'.shown = video.shown
        /\ back' = back + Most(Shows - video.clock, 0)
    BY <1>e, <1>6 DEF Drops, Stays
  <2>2. video.shown <= video.clock + (back + Most(Shows - video.clock, 0)) + MaxLoop
    BY <1>b, <1>c, TimecodeNumbers DEF Most
  <2>3. QED
    BY <2>1, <2>2
<1>7. CASE Runs(tc)
  <2>1. Shows' = Shows /\ video'.shown = video.shown /\ back' = back
    BY <1>e, <1>g, <1>7 DEF Runs, Stays
  <2>2. QED
    BY <2>1, <1>b, <1>c, TimecodeNumbers
<1>8. CASE Slews(tc)
  <2>1. Shows = video.clock /\ Slack = MaxLoop - loop.dt
    BY <1>c, <1>g, <1>8 DEF Slews
  <2>2. PICK to \in 0 .. Top :
          video' = [video EXCEPT !.clock = to] /\ to >= video.clock - loop.dt
    BY <1>a, <1>f, <1>8, <2>1, NudgedInside DEF Slews
  <2>3. follow'.hold = NoHold /\ back' = back
    BY <1>8 DEF Slews
  <2>4. Shows' = to /\ video'.shown = video.shown
    BY <1>c, <1>e, <2>2, <2>3
  <2>5. video.shown <= to + back + MaxLoop
    BY <1>b, <1>c, <2>1, <2>2, TimecodeNumbers
  <2>6. QED
    BY <2>3, <2>4, <2>5
<1>9. QED
  BY <1>a, <1>1, <1>2, <1>3, <1>4, <1>5, <1>6, <1>7, <1>8, DriveCases

\* Every step keeps it.
LEMMA OvershootStep ==
    ASSUME TimecodeTypes, Overshoot, [TimecodeNext]_timecodeVars, TimecodeTypes'
    PROVE  Overshoot'
<1>a. TimecodeTypeOK /\ TimecodeTypeOK'
  BY DEF TimecodeTypes
<1>e. Shows' = IF follow'.hold # NoHold THEN follow'.hold ELSE video'.clock
  BY DEF Shows, Current
<1>k. loop'.dt \in 0 .. MaxLoop
  BY <1>a DEF TimecodeTypeOK
<1>1. CASE Pass
  <2>1. CASE ~follow.on
    <3>1. ~follow'.on
      BY <1>1, <1>a, <2>1 DEF Pass, TimecodeTypeOK
    <3>2. QED
      BY <3>1 DEF Overshoot
  <2>2. CASE follow.on
    <3> DEFINE now == IF follow.hold # NoHold THEN follow.hold ELSE Older(video.clock, Top)
    <3>1. loop.dt < MaxLoop /\ Tick
      BY <1>1 DEF Pass, Tick
    <3>2. /\ loop'.dt = loop.dt + 1 /\ follow'.hold = follow.hold
          /\ video'.clock = Older(video.clock, Top)
          /\ video'.shown = Most(video.shown, now)
      BY <1>a, <2>2, <3>1, TickInside
    <3>3. Shows' = now /\ back' = back
      BY <1>1, <1>e, <3>2 DEF Pass
    <3>4. video.shown <= Shows + back + Slack
      BY <2>2 DEF Overshoot
    <3>5. /\ video.shown \in 0 .. Top /\ video.clock \in 0 .. Top
          /\ back \in Nat /\ loop.dt \in 0 .. MaxLoop /\ follow.hold \in -1 .. Top
      BY <1>a, PictureNumbers
    <3>6. CASE follow.hold = NoHold
      <4>1. Shows = video.clock /\ Slack = MaxLoop - loop.dt /\ now = Older(video.clock, Top)
            /\ Slack' = MaxLoop - (loop.dt + 1)
        BY <1>a, <3>2, <3>6, ShowsInside, PictureNumbers DEF Slack
      <4>2. now \in 0 .. Top /\ (now = video.clock + 1 \/ now = Top)
        BY <3>5, <4>1, OlderInside, TimecodeNumbers
      <4> HIDE DEF now
      <4>3. Most(video.shown, now) <= now + back + (MaxLoop - (loop.dt + 1))
        BY <3>1, <3>4, <3>5, <4>1, <4>2, TimecodeNumbers DEF Most
      <4>4. QED
        BY <3>2, <3>3, <4>1, <4>3 DEF Overshoot
    <3>7. CASE follow.hold # NoHold
      <4>1. Shows = follow.hold /\ Slack = MaxLoop /\ now = follow.hold /\ Slack' = MaxLoop
        BY <1>a, <3>2, <3>7, ShowsInside, PictureNumbers DEF Slack
      <4> HIDE DEF now
      <4>3. Most(video.shown, now) <= now + back + MaxLoop
        BY <3>4, <3>5, <4>1, TimecodeNumbers DEF Most
      <4>4. QED
        BY <3>2, <3>3, <4>1, <4>3 DEF Overshoot
    <3>8. QED
      BY <3>6, <3>7
  <2>3. QED
    BY <2>1, <2>2
<1>2. CASE Play \/ StopSource \/ (\E p \in Starts : Locate(p)) \/ LoopRefresh \/ LoopDecode
  <2>1. follow' = follow /\ video' = video /\ back' = back /\ loop'.dt = loop.dt
    BY <1>2, <1>a DEF Play, StopSource, Locate, LoopRefresh, Expired, Drained, LoopDecode, TimecodeTypeOK
  <2>2. QED
    BY <2>1 DEF Overshoot, Slack, Shows, Current
<1>3. ASSUME NEW p \in Starts, SeekCue(p)
      PROVE  Overshoot'
  <2>1. video' = [clock |-> p, shown |-> p] /\ back' = 0
        /\ follow' = [follow EXCEPT !.hold = IF @ = NoHold THEN @ ELSE p]
    BY <1>3 DEF SeekCue
  <2>2. p \in 0 .. Top /\ p # NoHold
    BY StartsInside, TimecodeNumbers DEF NoHold
  <2>3. follow'.hold = NoHold \/ follow'.hold = p
    BY <1>a, <2>1 DEF TimecodeTypeOK
  <2>4. Shows' = p /\ video'.shown = p
    BY <1>e, <2>1, <2>3
  <2>5. Slack' \in 0 .. MaxLoop
    BY <1>k, TimecodeNumbers DEF Slack
  <2>6. QED
    BY <2>1, <2>2, <2>4, <2>5, TimecodeNumbers DEF Overshoot
<1>4. CASE StartCue
  <2>1. Shows' = 0 /\ video'.shown = 0 /\ back' = 0
    BY <1>e, <1>4 DEF StartCue, NoHold
  <2>2. Slack' \in 0 .. MaxLoop
    BY <1>k, TimecodeNumbers DEF Slack
  <2>3. 0 <= 0 + 0 + Slack'
    BY <1>k, TimecodeNumbers DEF Slack
  <2>4. QED
    BY <2>1, <2>3 DEF Overshoot
<1>5. CASE StopCue
  BY <1>5 DEF StopCue, NoFollow, Overshoot
<1>6. CASE LoopDrive
  <2>1. pub' \in Timecodes /\ loop'.dt = 0
    BY <1>a, <1>6, ReadInside DEF LoopDrive
  <2>2. CASE follow.on
    <3>1. Drive(pub')
      BY <1>6, <2>2 DEF LoopDrive
    <3>2. QED
      BY <2>1, <2>2, <3>1, OvershootDrive
  <2>3. CASE ~follow.on
    BY <1>6, <2>3 DEF LoopDrive, Overshoot
  <2>4. QED
    BY <2>2, <2>3
<1>7. CASE UNCHANGED timecodeVars
  BY <1>7 DEF timecodeVars, Overshoot, Slack, Shows, Current
<1>8. QED
  BY <1>1, <1>2, <1>3, <1>4, <1>5, <1>6, <1>7 DEF TimecodeNext

-----------------------------------------------------------------------------
(* Timecode: the picture lands *)

\* Units after which the picture has landed.
Late == Deaf + Floor + MaxLoop

Lands == follow.hold = Target(pub.pos)

\* Once the source is known to stand still only the floor of reopenings keeps the
\* picture from it, and the time since the last one runs.
Landing ==
    follow.on /\ ~src.playing =>
        /\ ~Lands => /\ syncAge >= Least(Floor, steady - Deaf)
                     /\ steady <= Deaf + Floor + loop.dt
        /\ follow.hold # NoHold /\ video.shown < follow.hold => steady <= Late

\* So far it may be that the picture waits.
LEMMA LandingEarly ==
    ASSUME TimecodeTypes', steady' <= Deaf
    PROVE  Landing'
<1>1. loop'.dt \in 0 .. MaxLoop /\ syncAge' \in 0 .. Floor /\ steady' \in 0 .. Settle
  BY DEF TimecodeTypes, TimecodeTypeOK
<1>2. syncAge' >= Least(Floor, steady' - Deaf)
  <2>1. \A s \in 0 .. Settle, a \in 0 .. Floor : s <= Deaf => a >= Least(Floor, s - Deaf)
    BY TimecodeNumbers DEF Least, Deaf
  <2>2. QED
    BY <1>1, <2>1
<1>3. steady' <= Deaf + Floor + loop'.dt /\ steady' <= Late
  BY <1>1, TimecodeNumbers DEF Late, Deaf
<1>4. QED
  BY <1>2, <1>3 DEF Landing

\* A turn of the follow on a source that does not play lands the picture, or waits.
LEMMA LandingDrive ==
    ASSUME TimecodeTypes, TimecodeTypes', Landing, LoopDrive,
           follow.on, ~src.playing, ~pub'.playing
    PROVE  Landing'
<1>a. TimecodeTypeOK
  BY DEF TimecodeTypes
<1>b. Drive(pub') /\ loop'.dt = 0 /\ src' = src /\ steady' = steady
  BY DEF LoopDrive
<1>c. pub' \in Timecodes /\ pub'.pos = pub.pos
  BY <1>a, ReadInside
<1>d. Aim(pub') = Target(pub.pos) /\ Aim(pub') \in 0 .. Top
  BY <1>a, <1>c, AimInside
<1>e. loop.dt \in 0 .. MaxLoop /\ syncAge \in 0 .. Floor /\ steady \in 0 .. Settle
      /\ Deaf \in Nat
  BY <1>a, TimecodeNumbers DEF TimecodeTypeOK, Deaf
<1>f. steady <= Deaf + Floor + loop.dt => steady <= Late
  BY <1>e, TimecodeNumbers DEF Late
<1>1. CASE Freezes(pub')
  <2>1. follow'.hold = Target(pub.pos) /\ video' = video
    BY <1>d, <1>1 DEF Freezes, Stays
  <2>2. Lands'
    BY <1>c, <2>1 DEF Lands
  <2>3. CASE Lands
    BY <1>b, <2>1, <2>2, <2>3 DEF Landing, Lands
  <2>4. CASE ~Lands
    <3>1. steady <= Late
      BY <1>f, <2>4 DEF Landing
    <3>2. QED
      BY <1>b, <2>2, <3>1 DEF Landing
  <2>5. QED
    BY <2>3, <2>4
<1>2. CASE Jumps(pub')
  <2>1. follow'.hold = Target(pub.pos) /\ video'.shown = Target(pub.pos)
    BY <1>d, <1>2 DEF Jumps, Reopens, Reopened
  <2>2. Lands' /\ ~(video'.shown < follow'.hold)
    BY <1>c, <1>d, <2>1, TimecodeNumbers DEF Lands
  <2>3. QED
    BY <2>2 DEF Landing
<1>3. CASE Waits(pub')
  <2>1. follow'.hold = follow.hold /\ video' = video /\ syncAge' = syncAge /\ ~MayReopen
    BY <1>3 DEF Waits, Stays
  <2>2. syncAge < Floor
    BY <1>e, <2>1, TimecodeNumbers DEF MayReopen
  <2>3. Lands' = Lands
    BY <1>c, <2>1 DEF Lands
  <2>4. syncAge >= Least(Floor, steady - Deaf) => steady <= Deaf + Floor + 0
    BY <1>e, <2>2, TimecodeNumbers DEF Least
  <2>5. QED
    BY <1>b, <2>1, <2>3, <2>4 DEF Landing
<1>4. QED
  BY <1>a, <1>b, <1>c, <1>1, <1>2, <1>3, DriveCases
  DEF Catches, Resumes, Drops, Runs, Slews

\* Every step keeps it.
LEMMA LandingStep ==
    ASSUME TimecodeTypes, Unheard, Landing, [TimecodeNext]_timecodeVars, TimecodeTypes'
    PROVE  Landing'
<1>a. TimecodeTypeOK
  BY DEF TimecodeTypes
<1>0. Deaf \in Nat /\ (steady' = 0 => Landing')
  <2>1. Deaf \in Nat
    BY TimecodeNumbers DEF Deaf
  <2>2. 0 <= Deaf
    BY <2>1
  <2>3. QED
    BY <2>1, <2>2, LandingEarly
<1>n. loop.dt \in 0 .. MaxLoop /\ syncAge \in 0 .. Floor /\ steady \in 0 .. Settle
      /\ follow.hold \in -1 .. Top /\ video.shown \in 0 .. Top
  BY <1>a DEF TimecodeTypeOK
<1>1. CASE Pass
  <2>1. CASE src.playing
    <3>1. src'.playing \/ steady' = 0
      BY <1>1, <2>1 DEF Pass
    <3>2. QED
      BY <1>0, <3>1 DEF Landing
  <2>2. CASE ~src.playing /\ ~follow.on
    <3>1. ~follow'.on
      BY <1>1, <1>a, <2>2 DEF Pass, TimecodeTypeOK
    <3>2. QED
      BY <3>1 DEF Landing
  <2>3. CASE ~src.playing /\ follow.on
    <3>1. loop.dt < MaxLoop /\ Tick
      BY <1>1 DEF Pass, Tick
    <3>2. src' = src /\ pub' = pub /\ steady' = Older(steady, Settle)
          /\ syncAge' = Older(syncAge, Floor)
      BY <1>1, <2>3 DEF Pass, Nothing
    <3>3. loop'.dt = loop.dt + 1 /\ follow'.hold = follow.hold
          /\ (follow.hold # NoHold => video'.shown = Most(video.shown, follow.hold))
      BY <1>a, <2>3, <3>1, TickInside
    <3>4. follow.hold # NoHold => ~(video'.shown < follow'.hold)
      BY <1>n, <3>3, TimecodeNumbers DEF Most
    <3>5. Lands' = Lands
      BY <3>2, <3>3 DEF Lands
    <3>6. steady <= Deaf + Floor + loop.dt => steady' <= Deaf + Floor + loop'.dt
      BY <1>0, <1>n, <3>2, <3>3, TimecodeNumbers DEF Older, Least
    <3>7. syncAge >= Least(Floor, steady - Deaf) => syncAge' >= Least(Floor, steady' - Deaf)
      BY <1>0, <1>n, <3>2, TimecodeNumbers DEF Older, Least
    <3>8. QED
      BY <2>3, <3>3, <3>4, <3>5, <3>6, <3>7 DEF Landing
  <2>4. QED
    BY <2>1, <2>2, <2>3
<1>2. CASE Play \/ StopSource \/ (\E p \in Starts : Locate(p) \/ SeekCue(p)) \/ StopCue
           \/ StartCue
  <2>1. steady' = 0
    BY <1>2 DEF Play, StopSource, Locate, SeekCue, StopCue, StartCue, Move
  <2>2. QED
    BY <1>0, <2>1
<1>3. CASE LoopRefresh
  <2>1. loop'.dt = loop.dt /\ UNCHANGED <<src, pub, follow, video, syncAge, steady>>
    BY <1>3, <1>a DEF LoopRefresh, Expired, Drained, TimecodeTypeOK
  <2>2. QED
    BY <2>1 DEF Landing, Lands
<1>4. CASE LoopDecode
  <2>1. ltc.due # <<>> /\ UNCHANGED <<src, loop, follow, video, syncAge>>
        /\ (~src.playing => steady' = steady)
    BY <1>4 DEF LoopDecode
  <2>2. CASE src.playing
    BY <2>1, <2>2 DEF Landing
  <2>3. CASE ~src.playing
    <3>1. steady <= loop.dt + MaxLoop
      BY <2>1, <2>3 DEF Unheard
    <3>2. steady <= Deaf
      BY <1>n, <3>1, TimecodeNumbers DEF Deaf
    <3>3. QED
      BY <2>1, <2>3, <3>2, LandingEarly
  <2>4. QED
    BY <2>2, <2>3
<1>5. CASE LoopDrive
  <2>1. src' = src /\ steady' = steady
    BY <1>5 DEF LoopDrive
  <2>2. CASE src.playing
    BY <2>1, <2>2 DEF Landing
  <2>3. CASE ~src.playing /\ pub'.playing
    <3>1. pub.playing
      BY <1>a, <1>5, <2>3, ReadInside
    <3>2. steady <= Deaf
      BY <2>3, <3>1, DeafAfter
    <3>3. QED
      BY <2>1, <3>2, LandingEarly
  <2>4. CASE ~src.playing /\ ~pub'.playing /\ follow.on
    BY <1>5, <2>4, LandingDrive
  <2>5. CASE ~follow.on
    BY <1>5, <2>5 DEF LoopDrive, Landing
  <2>6. QED
    BY <2>2, <2>3, <2>4, <2>5
<1>6. CASE UNCHANGED timecodeVars
  BY <1>6 DEF timecodeVars, Landing, Lands
<1>7. QED
  BY <1>1, <1>2, <1>3, <1>4, <1>5, <1>6 DEF TimecodeNext

\* A source left alone longer than it takes to land has landed the picture.
LEMMA LandedAfter ==
    ASSUME Settle > Late, TimecodeTypes, Overshoot, Landing
    PROVE  FollowLands
<1>1. SUFFICES ASSUME follow.on, ~src.playing, steady >= Settle
               PROVE  /\ follow.hold = Target(pub.pos)
                      /\ video.shown \in follow.hold .. follow.hold + back + MaxLoop
  BY DEF FollowLands
<1>2. /\ loop.dt \in 0 .. MaxLoop /\ steady \in 0 .. Settle /\ video.shown \in 0 .. Top
      /\ back \in Nat /\ pub.pos \in 0 .. Top /\ Late \in Nat
      /\ Late = Deaf + Floor + MaxLoop /\ Deaf \in Nat
  BY PictureNumbers, TimecodeNumbers DEF TimecodeTypes, TimecodeTypeOK, Late, Deaf
<1>3. ~(steady <= Late) /\ ~(steady <= Deaf + Floor + loop.dt)
  BY <1>1, <1>2, TimecodeNumbers
<1>4. Lands
  BY <1>1, <1>3 DEF Landing
<1>5. Target(pub.pos) \in Nat
  BY <1>2, TimecodeNumbers DEF Target, Most
<1>6. follow.hold \in Nat /\ follow.hold # NoHold
  BY <1>4, <1>5 DEF Lands, NoHold
<1>7. ~(video.shown < follow.hold)
  BY <1>1, <1>3, <1>6 DEF Landing
<1>8. video.shown <= follow.hold + back + MaxLoop
  <2>1. Shows = follow.hold /\ Slack = MaxLoop
    BY <1>6 DEF Shows, Current, Slack
  <2>2. QED
    BY <1>1, <2>1 DEF Overshoot
<1>9. video.shown \in follow.hold .. follow.hold + back + MaxLoop
  BY <1>2, <1>6, <1>7, <1>8, TimecodeNumbers
<1>10. QED
  BY <1>4, <1>9 DEF Lands

\* The picture lands on the position the source was last heard at, whatever the
\* operator did before, for both receivers and all durations, when it is given the
\* timeout, the floor between two reopenings and five turns of the event loop
\* (drive_mtc_follow, locate_action, mtc_hard_sync).
THEOREM LandsCorrect ==
    ASSUME Settle > Timeout + Floor + 5 * MaxLoop
    PROVE  TimecodeSpec => []FollowLands
<1> DEFINE Inv == TimecodeTypes /\ Unheard /\ Overshoot /\ Landing
<1>1. Settle > Late
  BY TimecodeNumbers DEF Late, Deaf
<1>2. TimecodeInit => Inv
  <2> SUFFICES ASSUME TimecodeInit PROVE Inv
    OBVIOUS
  <2>1. TimecodeTypes
    BY TimecodeTypesInit
  <2>2. Overshoot /\ Landing
    BY DEF TimecodeInit, Overshoot, Landing, NoFollow
  <2>3. Unheard
    <3>1. 0 <= 0 + MaxLoop /\ Timeout + 1 >= Least(0 - 2 * MaxLoop, Timeout + 1)
          /\ 0 <= Timeout + 3 * MaxLoop + 0
      BY TimecodeNumbers DEF Least
    <3>2. QED
      BY <3>1 DEF TimecodeInit, Unheard
  <2>4. QED
    BY <2>1, <2>2, <2>3
<1>3. Inv /\ [TimecodeNext]_timecodeVars => Inv'
  BY TimecodeTypesStep, QuietStep, OvershootStep, LandingStep
<1>4. Inv => FollowLands
  BY <1>1, LandedAfter
<1>5. QED
  BY <1>2, <1>3, <1>4, PTL DEF TimecodeSpec

-----------------------------------------------------------------------------
(* Timecode: a source that plays is heard *)

\* Units the source may play before a position of it is published: pieces or frames
\* may be lost or misread, two frames may be needed, each waits for a turn.
Silence == IF "ltc" \in Kinds THEN 4 + 4 * MaxFaults + 4 * MaxLoop
           ELSE 2 * MaxFaults + 1

\* Units that may have passed since the last one was published: of MIDI, a piece is
\* there or is not; of LTC, frames wait for their turns, and one may be dropped.
MtcWaited == 2 * faults + (IF dec.seen # {} /\ Piece(src.pos) \notin dec.seen THEN 1 ELSE 0)
Pending == ltc.queue # <<>> \/ ltc.due # <<>>
Turns == loop.dt + (IF loop.at = "refresh" \/ ltc.due # <<>> THEN MaxLoop ELSE 0)
LtcWaited ==
    2 * faults + (IF ltc.mismatches = 0 THEN 0 ELSE 2 * faults + 2 * MaxLoop + 2)
    + (IF Pending THEN 2 + Turns ELSE src.pos % 2)
Waited == IF kind = "mtc" THEN MtcWaited ELSE LtcWaited

\* The longest silence is a number, and no shorter than the faults.
LEMMA SilenceNumbers ==
    Silence \in Nat /\ MaxFaults <= Silence
BY TimecodeNumbers DEF Silence

\* The pieces of a message alternate.
LEMMA PieceTurns ==
    ASSUME NEW p \in 0 .. MaxPos
    PROVE  /\ p % 2 \in 0 .. 1 /\ (p + 1) % 2 = 1 - (p % 2)
           /\ Piece(p) \in {1, 2} /\ Piece(p + 1) \in {1, 2} /\ Piece(p + 1) # Piece(p)
           /\ Piece(p) = 1 + (p % 2)
<1>1. p % 2 \in 0 .. 1 /\ (p + 1) % 2 = 1 - (p % 2)
  BY TimecodeNumbers
<1>2. QED
  BY <1>1 DEF Piece

\* The types of what is counted.
LEMMA WaitedNumbers ==
    ASSUME TimecodeTypes
    PROVE  /\ faults \in 0 .. MaxFaults /\ src.pos \in 0 .. MaxPos
           /\ loop.dt \in 0 .. MaxLoop /\ ltc.mismatches \in 0 .. 1
           /\ Turns \in 0 .. 2 * MaxLoop /\ Turns >= loop.dt
           /\ MtcWaited \in 0 .. 2 * MaxFaults + 1
           /\ LtcWaited \in 0 .. 4 + 4 * MaxFaults + 4 * MaxLoop
<1>1. /\ faults \in 0 .. MaxFaults /\ src.pos \in 0 .. MaxPos
      /\ loop.dt \in 0 .. MaxLoop /\ ltc.mismatches \in 0 .. 1
  BY DEF TimecodeTypes, TimecodeTypeOK
<1>2. Turns \in 0 .. 2 * MaxLoop /\ Turns >= loop.dt
  BY <1>1, TimecodeNumbers DEF Turns
<1>3. src.pos % 2 \in 0 .. 1
  BY <1>1, PieceTurns
<1>4. MtcWaited \in 0 .. 2 * MaxFaults + 1
  BY <1>1, TimecodeNumbers DEF MtcWaited
<1>5. LtcWaited \in 0 .. 4 + 4 * MaxFaults + 4 * MaxLoop
  <2> DEFINE parity == src.pos % 2
  <2>1. parity \in 0 .. 1
    BY <1>3
  <2> HIDE DEF parity
  <2>2. (IF Pending THEN 2 + Turns ELSE parity) \in 0 .. 2 + 2 * MaxLoop
    BY <1>2, <2>1, TimecodeNumbers
  <2>3. (IF ltc.mismatches = 0 THEN 0 ELSE 2 * faults + 2 * MaxLoop + 2)
          \in 0 .. 2 * MaxFaults + 2 * MaxLoop + 2
    BY <1>1, TimecodeNumbers
  <2>4. QED
    BY <1>1, <2>2, <2>3, TimecodeNumbers DEF LtcWaited, parity
<1>6. QED
  BY <1>1, <1>2, <1>4, <1>5

\* It stays below the longest silence.
LEMMA WaitedInside ==
    ASSUME TimecodeTypes
    PROVE  Waited \in 0 .. Silence
<1>1. kind \in Kinds /\ Kinds \subseteq {"mtc", "ltc"}
  BY TimecodeAssumption DEF TimecodeTypes, TimecodeTypeOK
<1>2. CASE kind = "mtc"
  <2>1. Waited = MtcWaited
    BY <1>2 DEF Waited
  <2>2. Waited \in 0 .. 2 * MaxFaults + 1
    BY <2>1, WaitedNumbers
  <2>3. QED
    BY <2>2, TimecodeNumbers DEF Silence
<1>3. CASE kind = "ltc"
  <2>1. Waited = LtcWaited
    BY <1>3 DEF Waited
  <2>2. Silence = 4 + 4 * MaxFaults + 4 * MaxLoop
    BY <1>1, <1>3 DEF Silence
  <2>3. QED
    BY <2>1, <2>2, WaitedNumbers
<1>4. QED
  BY <1>1, <1>2, <1>3

\* A unit of a MIDI source: its position is published, its piece is heard, or one
\* more is lost.
LEMMA MtcPass ==
    ASSUME TimecodeTypes, TimecodeTypes', kind = "mtc", src.playing, Pass
    PROVE  \/ dec.seen # {} /\ dec'.seen = {} /\ heard' = 0 /\ pub'.playing
           \/ pub'.pos = pub.pos /\ pub'.playing /\ heard' = 0 /\ Waited' >= Waited + 1
           \/ /\ pub' = pub /\ faults' = faults + 1 /\ heard' = Older(heard, Timeout + 1)
              /\ Waited' >= Waited + 1
<1>1. Sent(src.pos) /\ src'.pos = src.pos + 1 /\ kind' = kind
  BY DEF Pass
<1>2. /\ dec.seen \in SUBSET {1, 2} /\ faults \in 0 .. MaxFaults /\ src.pos \in 0 .. MaxPos
      /\ pub \in [pos : 0 .. Top, playing : BOOLEAN]
      /\ faults' \in 0 .. MaxFaults
  BY DEF TimecodeTypes, TimecodeTypeOK
<1> DEFINE i == Piece(src.pos)
<1>3. i \in {1, 2} /\ Piece(src'.pos) \in {1, 2} /\ Piece(src'.pos) # i
  BY <1>1, <1>2, PieceTurns
<1>4. Waited = MtcWaited /\ Waited' = MtcWaited'
  BY <1>1 DEF Waited
<1>5. CASE QuarterFrame(i, Message(src.pos)) /\ UNCHANGED faults
  <2> DEFINE seen == dec.seen \cup {i}
  <2>1. /\ dec'.seen = (IF seen = {1, 2} THEN {} ELSE seen)
        /\ pub'.pos = (IF seen = {1, 2} THEN pub'.pos ELSE pub.pos)
        /\ pub'.playing /\ heard' = 0 /\ faults' = faults
    BY <1>5 DEF QuarterFrame
  <2>2. CASE seen = {1, 2}
    <3>1. dec.seen # {}
      BY <1>3, <2>2
    <3>2. QED
      BY <2>1, <2>2, <3>1
  <2>3. CASE seen # {1, 2}
    <3>1. dec'.seen = seen /\ i \in seen /\ Piece(src'.pos) \notin seen
      BY <1>2, <1>3, <2>1, <2>3
    <3>2. MtcWaited' = 2 * faults + 1
      BY <2>1, <3>1 DEF MtcWaited
    <3>3. MtcWaited = 2 * faults
      BY <1>2, <1>3, <2>3 DEF MtcWaited
    <3>4. QED
      BY <1>2, <1>4, <2>1, <2>3, <3>2, <3>3, TimecodeNumbers
  <2>4. QED
    BY <2>2, <2>3
<1>6. CASE faults' = faults + 1 /\ Nothing
  <2>1. dec' = dec /\ pub' = pub /\ heard' = Older(heard, Timeout + 1)
    BY <1>6 DEF Nothing
  <2>2. MtcWaited' >= 2 * (faults + 1)
    BY <1>2, <1>6, TimecodeNumbers DEF MtcWaited
  <2>3. MtcWaited <= 2 * faults + 1
    BY <1>2, TimecodeNumbers DEF MtcWaited
  <2>4. MtcWaited \in Int /\ MtcWaited' \in Int
    BY <1>2, TimecodeNumbers DEF MtcWaited
  <2>5. QED
    BY <1>2, <1>4, <1>6, <2>1, <2>2, <2>3, <2>4, TimecodeNumbers
<1>7. QED
  BY <1>1, <1>5, <1>6 DEF Sent

\* A unit of an LTC source: nothing is published before the next turn.
LEMMA LtcPass ==
    ASSUME TimecodeTypes, TimecodeTypes', kind = "ltc", src.playing, Pass
    PROVE  pub' = pub /\ heard' = Older(heard, Timeout + 1) /\ dec' = dec
           /\ Waited' >= Waited + 1
<1>1. Sent(src.pos) /\ src'.pos = src.pos + 1 /\ kind' = kind
      /\ loop' = [loop EXCEPT !.dt = @ + 1]
  BY DEF Pass
<1>2. /\ faults \in 0 .. MaxFaults /\ src.pos \in 0 .. MaxPos /\ faults' \in 0 .. MaxFaults
      /\ ltc \in [expected : -1 .. MaxPos + 2, mismatches : 0 .. 1,
                  queue : Seq(0 .. MaxPos), due : Seq(0 .. MaxPos)]
      /\ loop \in [at : {"refresh", "drive"}, expired : BOOLEAN, dt : 0 .. MaxLoop]
  BY DEF TimecodeTypes, TimecodeTypeOK
<1>3. pub' = pub /\ heard' = Older(heard, Timeout + 1) /\ dec' = dec
  BY <1>1 DEF Sent, Nothing
<1>4. loop'.dt = loop.dt + 1 /\ loop'.at = loop.at
  BY <1>1, <1>2
<1> DEFINE parity == src.pos % 2
           parity1 == src'.pos % 2
           lost == IF ltc.mismatches = 0 THEN 0 ELSE 2 * faults + 2 * MaxLoop + 2
           lost1 == IF ltc'.mismatches = 0 THEN 0 ELSE 2 * faults' + 2 * MaxLoop + 2
           waits == IF Pending THEN 2 + Turns ELSE parity
           waits1 == IF Pending' THEN 2 + Turns' ELSE parity1
<1>5. parity \in 0 .. 1 /\ parity1 = 1 - parity /\ Piece(src.pos) = 1 + parity
  BY <1>1, <1>2, PieceTurns
<1>6. LtcWaited = 2 * faults + lost + waits /\ LtcWaited' = 2 * faults' + lost1 + waits1
  BY DEF LtcWaited
<1>t. loop.dt \in Nat /\ loop.dt + 1 \in Nat
  BY <1>2, TimecodeNumbers
<1>d. (IF loop'.at = "refresh" \/ ltc'.due # <<>> THEN MaxLoop ELSE 0) \in Nat
      /\ (IF loop.at = "refresh" \/ ltc.due # <<>> THEN MaxLoop ELSE 0) \in Nat
  BY TimecodeNumbers
<1>7. Turns \in Nat /\ Turns' \in Nat
  BY <1>4, <1>t, <1>d DEF Turns
<1> HIDE DEF parity, parity1
<1>8. waits \in Nat /\ waits1 \in Nat /\ lost \in Nat /\ lost1 \in Nat
  <2>0. \A x \in Nat : 2 + x \in Nat /\ 2 * x + 2 * MaxLoop + 2 \in Nat
    BY TimecodeNumbers
  <2>5. parity \in Nat /\ parity1 \in Nat
    BY <1>5
  <2>1. waits \in Nat /\ waits1 \in Nat
    BY <1>7, <2>0, <2>5
  <2>2. faults \in Nat /\ faults' \in Nat
    BY <1>2, TimecodeNumbers
  <2>3. 2 * faults + 2 * MaxLoop + 2 \in Nat /\ 2 * faults' + 2 * MaxLoop + 2 \in Nat
    BY <2>0, <2>2
  <2>4. QED
    BY <2>1, <2>3
<1>l. faults' >= faults /\ ltc'.mismatches = ltc.mismatches => lost1 >= lost
  <2>1. faults \in Nat /\ faults' \in Nat
    BY <1>2, TimecodeNumbers
  <2>2. \A a, b \in Nat : b >= a => 2 * b + 2 * MaxLoop + 2 >= 2 * a + 2 * MaxLoop + 2
    BY TimecodeNumbers
  <2>3. QED
    BY <2>1, <2>2
<1>u. Pending /\ ltc'.due = ltc.due /\ (ltc.queue # <<>> => ltc'.queue # <<>>)
      => Pending' /\ Turns' = Turns + 1 /\ waits1 = waits + 1
  <2>1. SUFFICES ASSUME Pending, ltc'.due = ltc.due, ltc.queue # <<>> => ltc'.queue # <<>>
                 PROVE  Pending' /\ Turns' = Turns + 1 /\ waits1 = waits + 1
    OBVIOUS
  <2>2. Pending'
    BY <2>1 DEF Pending
  <2> DEFINE turn == IF loop.at = "refresh" \/ ltc.due # <<>> THEN MaxLoop ELSE 0
  <2>3. Turns = loop.dt + turn /\ Turns' = (loop.dt + 1) + turn
    BY <1>4, <2>1 DEF Turns
  <2>4. turn \in Nat
    BY TimecodeNumbers
  <2> HIDE DEF turn
  <2>5. Turns' = Turns + 1
    BY <1>t, <2>3, <2>4
  <2>6. QED
    BY <1>7, <2>1, <2>2, <2>5
\* The frame that ends is captured, read right or not.
<1>9. CASE \E read \in {Message(src.pos)} \cup
                      (IF faults < MaxFaults /\ Piece(src.pos) = 2 THEN Starts ELSE {}) :
            /\ ltc' = IF Piece(src.pos) = 2
                      THEN [ltc EXCEPT !.queue = Append(@, read)] ELSE ltc
            /\ faults' = IF read = Message(src.pos) THEN faults ELSE faults + 1
  <2>1. PICK read \in {Message(src.pos)} \cup
                      (IF faults < MaxFaults /\ Piece(src.pos) = 2 THEN Starts ELSE {}) :
            /\ ltc' = IF Piece(src.pos) = 2
                      THEN [ltc EXCEPT !.queue = Append(@, read)] ELSE ltc
            /\ faults' = IF read = Message(src.pos) THEN faults ELSE faults + 1
    BY <1>9
  <2>2. faults' >= faults
    BY <1>2, <2>1
  <2>3. ltc'.mismatches = ltc.mismatches /\ ltc'.due = ltc.due
        /\ (parity = 1 => ltc'.queue # <<>>) /\ (ltc.queue # <<>> => ltc'.queue # <<>>)
    <3>1. CASE Piece(src.pos) = 2
      <4>1. ltc' = [ltc EXCEPT !.queue = Append(@, read)]
        BY <2>1, <3>1
      <4>2. Append(ltc.queue, read) # <<>>
        <5>1. ltc.queue \in Seq(0 .. MaxPos) /\ read \in 0 .. MaxPos
          BY <1>2, StartsInside, MessageInside
        <5> DEFINE q == ltc.queue
        <5> HIDE DEF q
        <5>2. q \in Seq(0 .. MaxPos) => Len(Append(q, read)) = Len(q) + 1 /\ Len(q) \in Nat
          BY <5>1
        <5>3. q \in Seq(0 .. MaxPos) => Append(q, read) # <<>>
          BY <5>2
        <5>4. QED
          BY <5>1, <5>3 DEF q
      <4>3. QED
        BY <1>2, <4>1, <4>2
    <3>2. CASE Piece(src.pos) # 2
      <4>1. ltc' = ltc
        BY <2>1, <3>2
      <4>2. parity # 1
        BY <1>5, <3>2
      <4>3. QED
        BY <4>1, <4>2
    <3>3. QED
      BY <3>1, <3>2
  <2>4. lost1 >= lost
    BY <1>l, <2>2, <2>3
  <2>5. waits1 >= waits + 1
    <3>1. CASE Pending
      <4>1. waits1 = waits + 1
        BY <1>u, <2>3, <3>1
      <4>2. QED
        BY <1>8, <4>1
    <3>2. CASE ~Pending /\ parity = 1
      <4>1. Pending'
        BY <2>3, <3>2 DEF Pending
      <4>2. waits = 1 /\ waits1 = 2 + Turns'
        BY <3>2, <4>1
      <4>3. \A x \in Nat : 2 + x >= 1 + 1
        OBVIOUS
      <4>4. QED
        BY <1>7, <4>2, <4>3
    <3>3. CASE ~Pending /\ parity = 0
      <4>1. parity1 = 1
        BY <1>5, <3>3
      <4>2. waits = 0 /\ (waits1 = 2 + Turns' \/ waits1 = 1)
        BY <3>3, <4>1
      <4> HIDE DEF waits, waits1
      <4>3. \A x \in Nat : 2 + x >= 0 + 1
        OBVIOUS
      <4>4. QED
        BY <1>7, <4>2, <4>3
    <3>4. QED
      BY <1>5, <3>1, <3>2, <3>3
  <2> HIDE DEF lost, lost1, waits, waits1
  <2>6. 2 * faults' + lost1 + waits1 >= (2 * faults + lost + waits) + 1
    <3>1. faults \in Nat /\ faults' \in Nat
      BY <1>2, TimecodeNumbers
    <3>2. \A a, b, c, d, e, f \in Nat : b >= a /\ d >= c /\ f >= e + 1 =>
            2 * b + d + f >= (2 * a + c + e) + 1
      OBVIOUS
    <3>3. QED
      BY <1>8, <2>2, <2>4, <2>5, <3>1, <3>2
  <2>7. QED
    BY <1>1, <1>3, <1>6, <2>6 DEF Waited
\* It is lost.
<1>10. CASE faults' = faults + 1 /\ Nothing
  <2>1. ltc' = ltc
    BY <1>10 DEF Nothing
  <2>2. lost1 >= lost
    <3>1. faults' >= faults
      BY <1>2, <1>10, TimecodeNumbers
    <3>2. QED
      BY <1>l, <2>1, <3>1
  <2>3. waits1 + 1 >= waits
    <3>1. CASE Pending
      <4>1. waits1 = waits + 1
        BY <1>u, <2>1, <3>1
      <4>2. QED
        BY <1>8, <4>1
    <3>2. CASE ~Pending
      <4>1. waits <= 1
        BY <1>5, <3>2
      <4>2. QED
        BY <1>8, <4>1
    <3>3. QED
      BY <3>1, <3>2
  <2> HIDE DEF lost, lost1, waits, waits1
  <2>4. 2 * faults' + lost1 + waits1 >= (2 * faults + lost + waits) + 1
    <3>1. faults \in Nat /\ faults' = faults + 1
      BY <1>2, <1>10, TimecodeNumbers
    <3>2. QED
      BY <1>8, <2>2, <2>3, <3>1
  <2>5. QED
    BY <1>1, <1>3, <1>6, <2>4 DEF Waited
<1>11. QED
  BY <1>1, <1>9, <1>10 DEF Sent

\* A turn begins: what was captured is drained.
LEMMA WaitedRefresh ==
    ASSUME TimecodeTypes, Unheard, LoopRefresh
    PROVE  Waited' = Waited
<1>1. /\ loop.at = "refresh" /\ ltc.due = <<>>
      /\ UNCHANGED <<kind, src, dec, faults>>
  BY DEF Unheard, LoopRefresh, Expired, Drained
<1>2. /\ ltc \in [expected : -1 .. MaxPos + 2, mismatches : 0 .. 1,
                  queue : Seq(0 .. MaxPos), due : Seq(0 .. MaxPos)]
      /\ loop \in [at : {"refresh", "drive"}, expired : BOOLEAN, dt : 0 .. MaxLoop]
  BY DEF TimecodeTypes, TimecodeTypeOK
<1>3. /\ ltc'.due = ltc.queue /\ ltc'.queue = <<>> /\ ltc'.mismatches = ltc.mismatches
      /\ loop'.dt = loop.dt /\ loop'.at = "drive"
  BY <1>2 DEF LoopRefresh, Expired, Drained
<1>4. Pending' = Pending /\ (Pending => Turns' = Turns)
  BY <1>1, <1>3 DEF Pending, Turns
<1>5. QED
  BY <1>1, <1>3, <1>4 DEF Waited, MtcWaited, LtcWaited

\* It ends.
LEMMA WaitedDrive ==
    ASSUME TimecodeTypes, LoopDrive
    PROVE  Waited' >= Waited
<1>1. /\ loop.at = "drive" /\ ltc.due = <<>> /\ loop'.at = "refresh" /\ loop'.dt = 0
      /\ UNCHANGED <<kind, src, dec, ltc, faults>>
  BY DEF LoopDrive
<1>2. loop.dt \in 0 .. MaxLoop /\ faults \in 0 .. MaxFaults /\ src.pos \in 0 .. MaxPos
      /\ ltc.mismatches \in 0 .. 1
      /\ MtcWaited \in 0 .. 2 * MaxFaults + 1
      /\ LtcWaited \in 0 .. 4 + 4 * MaxFaults + 4 * MaxLoop
  BY WaitedNumbers
<1>3. MtcWaited' = MtcWaited
  BY <1>1 DEF MtcWaited
<1>4. LtcWaited' >= LtcWaited
  <2> DEFINE lost == IF ltc.mismatches = 0 THEN 0 ELSE 2 * faults + 2 * MaxLoop + 2
             parity == src.pos % 2
  <2>1. Turns' = MaxLoop /\ Turns = loop.dt /\ Pending' = Pending
    BY <1>1, <1>2, TimecodeNumbers DEF Turns, Pending
  <2>2. lost \in Nat /\ parity \in 0 .. 1
    BY <1>2, PieceTurns, TimecodeNumbers
  <2>3. /\ LtcWaited = 2 * faults + lost + (IF Pending THEN 2 + loop.dt ELSE parity)
        /\ LtcWaited' = 2 * faults + lost + (IF Pending THEN 2 + MaxLoop ELSE parity)
    BY <1>1, <2>1 DEF LtcWaited
  <2> HIDE DEF lost, parity
  <2>4. QED
    BY <1>2, <2>2, <2>3, TimecodeNumbers
<1>5. QED
  BY <1>1, <1>2, <1>3, <1>4, TimecodeNumbers DEF Waited

\* A frame is accepted, or it is the one dropped.
LEMMA WaitedDecode ==
    ASSUME TimecodeTypes, TimecodeTypes', src.playing, LoopDecode
    PROVE  \/ heard' = 0 /\ pub'.playing /\ (steady' = 0 \/ Told') 
           \/ pub' = pub /\ heard' = heard /\ steady' = steady /\ Waited' >= Waited
<1>1. /\ ltc.due # <<>> /\ AcceptFrame(Head(ltc.due))
      /\ UNCHANGED <<kind, src, loop, dec, faults>>
      /\ steady' = IF src.playing /\ ltc'.mismatches = 0 /\ ~Told' THEN 0 ELSE steady
  BY DEF LoopDecode
<1>2. /\ ltc \in [expected : -1 .. MaxPos + 2, mismatches : 0 .. 1,
                  queue : Seq(0 .. MaxPos), due : Seq(0 .. MaxPos)]
      /\ pub \in [pos : 0 .. Top, playing : BOOLEAN]
  BY DEF TimecodeTypes, TimecodeTypeOK
<1> DEFINE frame == Head(ltc.due)
           rest == Tail(ltc.due)
<1>3. CASE ltc.expected # NoFrame /\ ~Continues(ltc.expected, frame) /\ ltc.mismatches = 0
  <2>1. ltc' = [ltc EXCEPT !.due = rest, !.mismatches = 1] /\ pub' = pub /\ heard' = heard
    BY <1>1, <1>3 DEF AcceptFrame
  <2> HIDE DEF rest
  <2>2. ltc'.mismatches = 1 /\ ltc.mismatches = 0
    BY <1>2, <1>3, <2>1
  <2>3. steady' = steady
    BY <1>1, <2>2
  <2>4. loop.dt \in 0 .. MaxLoop /\ faults \in 0 .. MaxFaults /\ src.pos \in 0 .. MaxPos
        /\ MtcWaited \in 0 .. 2 * MaxFaults + 1
    BY WaitedNumbers
  <2>5. MtcWaited' = MtcWaited
    BY <1>1 DEF MtcWaited
  <2>6. LtcWaited' >= LtcWaited
    <3> DEFINE parity == src.pos % 2
               waits1 == IF Pending' THEN 2 + Turns' ELSE parity
    <3>1. parity \in 0 .. 1
      BY <2>4, PieceTurns
    <3> HIDE DEF parity
    <3>2. Pending /\ Turns = loop.dt + MaxLoop
      BY <1>1 DEF Pending, Turns
    <3>3. Turns' \in Nat
      <4>1. (IF loop'.at = "refresh" \/ ltc'.due # <<>> THEN MaxLoop ELSE 0) \in Nat
            /\ loop.dt \in Nat
        BY <2>4, TimecodeNumbers
      <4>2. QED
        BY <1>1, <4>1 DEF Turns
    <3>4. waits1 \in Nat
      <4>1. parity \in Nat /\ (\A x \in Nat : 2 + x \in Nat)
        BY <3>1
      <4>2. QED
        BY <3>3, <4>1
    <3>5. LtcWaited = 2 * faults + 0 + (2 + (loop.dt + MaxLoop))
      BY <2>2, <3>2 DEF LtcWaited
    <3>6. LtcWaited' = 2 * faults + (2 * faults + 2 * MaxLoop + 2) + waits1
      BY <1>1, <2>2 DEF LtcWaited, parity
    <3> HIDE DEF waits1
    <3>7. QED
      BY <2>4, <3>4, <3>5, <3>6, TimecodeNumbers
  <2>7. QED
    BY <1>1, <2>1, <2>3, <2>4, <2>5, <2>6, TimecodeNumbers DEF Waited
<1>4. CASE ~(ltc.expected # NoFrame /\ ~Continues(ltc.expected, frame) /\ ltc.mismatches = 0)
  <2>1. /\ ltc' = [ltc EXCEPT !.due = rest, !.mismatches = 0, !.expected = frame + 2]
        /\ pub' = [pos |-> frame, playing |-> TRUE] /\ heard' = 0
    BY <1>1, <1>4 DEF AcceptFrame
  <2> HIDE DEF rest, frame
  <2>2. ltc'.mismatches = 0 /\ pub'.playing
    BY <1>2, <2>1
  <2>3. QED
    BY <1>1, <2>1, <2>2
<1>5. QED
  BY <1>3, <1>4

\* A position was published not long ago, and was one the source was at.
Recent ==
    src.playing =>
        \/ steady <= Waited
        \/ src.pos - pub.pos \in 0 .. 1 + 2 * MaxLoop + Waited /\ heard <= Waited

\* A position the source was at is published, or none is for n more units.
Hears == heard' = 0 /\ pub'.playing /\ Told'
Misses(n) == pub'.pos = pub.pos /\ heard' <= heard + n /\ Waited' >= Waited + n

\* A unit of a source that goes on playing.
LEMMA PassCases ==
    ASSUME TimecodeTypes, TimecodeTypes', Pass, src.playing
    PROVE  /\ src'.pos = src.pos + 1 /\ loop'.dt = loop.dt + 1
           /\ steady' <= steady + 1
           /\ steady' = 0 \/ Hears \/ Misses(1)
<1>1. /\ kind \in {"mtc", "ltc"} /\ steady \in 0 .. Settle /\ heard \in 0 .. Timeout + 1
      /\ loop \in [at : {"refresh", "drive"}, expired : BOOLEAN, dt : 0 .. MaxLoop]
  BY QuietNumbers
<1>2. /\ src'.pos = src.pos + 1 /\ loop'.dt = loop.dt + 1
      /\ steady' \in {0, Older(steady, Settle)}
      /\ (dec.seen # {} /\ dec'.seen = {} => steady' = 0 \/ Told')
  BY <1>1 DEF Pass
<1>3. 0 <= steady + 1 /\ Older(steady, Settle) <= steady + 1
      /\ Older(heard, Timeout + 1) <= heard + 1 /\ 0 <= heard + 1
  BY <1>1, TimecodeNumbers DEF Older, Least
<1>4. CASE kind = "mtc"
  BY <1>2, <1>3, <1>4, MtcPass DEF Hears, Misses
<1>5. CASE kind = "ltc"
  BY <1>2, <1>3, <1>5, LtcPass DEF Hears, Misses
<1>6. QED
  BY <1>1, <1>2, <1>3, <1>4, <1>5

\* Every step keeps it.
LEMMA RecentStep ==
    ASSUME TimecodeTypes, TimecodeTypes', Unheard, Waited' \in 0 .. Silence,
           Recent, [TimecodeNext]_timecodeVars
    PROVE  Recent'
<1>n. /\ steady \in 0 .. Settle /\ heard \in 0 .. Timeout + 1 /\ loop.dt \in 0 .. MaxLoop
      /\ src.pos \in 0 .. MaxPos /\ pub.pos \in 0 .. Top /\ Waited \in 0 .. Silence
      /\ Silence \in Nat
  BY QuietNumbers, WaitedNumbers, WaitedInside, SilenceNumbers DEF Timecodes
<1>p. /\ steady' \in 0 .. Settle /\ heard' \in 0 .. Timeout + 1 /\ loop'.dt \in 0 .. MaxLoop
      /\ src'.pos \in 0 .. MaxPos /\ pub'.pos \in 0 .. Top
  BY DEF TimecodeTypes, TimecodeTypeOK
<1>w. PICK waited \in 0 .. Silence : waited = Waited'
  OBVIOUS
<1>0. steady' = 0 => Recent'
  <2>1. 0 <= waited
    BY <1>n
  <2>2. QED
    BY <1>w, <2>1 DEF Recent
<1>h. Hears => Recent'
  <2>1. SUFFICES ASSUME Hears PROVE Recent'
    OBVIOUS
  <2>2. \A d \in 0 .. MaxLoop : \A x \in Int :
          x \in 0 .. 1 + MaxLoop + d => x \in 0 .. 1 + 2 * MaxLoop + waited
    BY <1>n, TimecodeNumbers
  <2>3. src'.pos - pub'.pos \in Int
    BY <1>p, TimecodeNumbers
  <2>4. src'.pos - pub'.pos \in 0 .. 1 + MaxLoop + loop'.dt
    BY <2>1 DEF Hears, Told
  <2>5. src'.pos - pub'.pos \in 0 .. 1 + 2 * MaxLoop + waited
    BY <1>p, <2>2, <2>3, <2>4
  <2>6. 0 <= waited
    BY <1>n
  <2>7. QED
    BY <1>w, <2>1, <2>5, <2>6 DEF Hears, Recent
<1>m. ASSUME NEW n \in 0 .. 1, Misses(n), src.playing, src'.pos = src.pos + n,
             steady' <= steady + n
      PROVE  Recent'
  <2>1. pub'.pos = pub.pos /\ heard' <= heard + n /\ waited >= Waited + n
    BY <1>w, <1>m DEF Misses
  <2>2. steady <= Waited => steady' <= waited
    BY <1>n, <1>p, <1>m, <2>1, TimecodeNumbers
  <2>3. heard <= Waited => heard' <= waited
    BY <1>n, <1>p, <2>1, TimecodeNumbers
  <2>4. src.pos - pub.pos \in 0 .. 1 + 2 * MaxLoop + Waited
        => (src.pos + n) - pub.pos \in 0 .. 1 + 2 * MaxLoop + waited
    BY <1>n, <2>1, TimecodeNumbers
  <2>5. src'.pos - pub'.pos = (src.pos + n) - pub.pos
    BY <1>m, <2>1
  <2>6. QED
    BY <1>w, <1>m, <2>2, <2>3, <2>4, <2>5 DEF Recent
<1>1. CASE Pass
  <2>1. CASE ~src.playing
    <3>1. ~src'.playing
      BY <1>1, <2>1 DEF Pass
    <3>2. QED
      BY <3>1 DEF Recent
  <2>2. CASE src.playing
    BY <1>0, <1>h, <1>m, <1>1, <2>2, PassCases
  <2>3. QED
    BY <2>1, <2>2
<1>2. CASE Play \/ StopSource \/ (\E p \in Starts : Locate(p) \/ SeekCue(p)) \/ StopCue
           \/ StartCue
  <2>1. steady' = 0
    BY <1>2 DEF Play, StopSource, Locate, SeekCue, StopCue, StartCue, Move
  <2>2. QED
    BY <1>0, <2>1
<1>3. CASE LoopRefresh
  <2>1. src' = src /\ pub' = pub /\ heard' = heard /\ steady' = steady /\ Waited' = Waited
    BY <1>3, WaitedRefresh DEF LoopRefresh, Expired, Drained
  <2>2. QED
    BY <2>1 DEF Recent
<1>4. CASE LoopDecode
  <2>1. src' = src /\ loop' = loop
    BY <1>4 DEF LoopDecode
  <2>2. CASE ~src.playing
    BY <2>1, <2>2 DEF Recent
  <2>3. CASE src.playing
    <3>1. Hears \/ steady' = 0 \/ (/\ pub' = pub /\ heard' = heard /\ steady' = steady
                                   /\ Waited' >= Waited)
      BY <1>4, <2>3, WaitedDecode DEF Hears
    <3>2. ASSUME pub' = pub, heard' = heard, steady' = steady, Waited' >= Waited
          PROVE  Recent'
      <4>1. waited >= Waited + 0 /\ heard <= heard + 0 /\ steady <= steady + 0
            /\ src.pos = src.pos + 0
        BY <1>n, <1>w, <3>2
      <4>2. Misses(0)
        BY <1>w, <3>2, <4>1 DEF Misses
      <4>3. QED
        BY <1>m, <2>1, <2>3, <3>2, <4>1, <4>2
    <3>3. QED
      BY <1>0, <1>h, <3>1, <3>2
  <2>4. QED
    BY <2>2, <2>3
<1>5. CASE LoopDrive
  <2>1. src' = src /\ pub'.pos = pub.pos /\ heard' = heard /\ steady' = steady
        /\ Waited' >= Waited
    BY <1>5, ReadInside, WaitedDrive DEF LoopDrive, TimecodeTypes
  <2>2. CASE ~src.playing
    BY <2>1, <2>2 DEF Recent
  <2>3. CASE src.playing
    <3>1. waited >= Waited + 0 /\ heard <= heard + 0 /\ steady <= steady + 0
          /\ src.pos = src.pos + 0
      BY <1>n, <1>w, <2>1
    <3>2. Misses(0)
      BY <1>w, <2>1, <3>1 DEF Misses
    <3>3. QED
      BY <1>m, <2>1, <2>3, <3>1, <3>2
  <2>4. QED
    BY <2>2, <2>3
<1>6. CASE UNCHANGED timecodeVars
  BY <1>6 DEF timecodeVars, Recent, Waited, MtcWaited, LtcWaited, Pending, Turns
<1>7. QED
  BY <1>1, <1>2, <1>3, <1>4, <1>5, <1>6 DEF TimecodeNext

-----------------------------------------------------------------------------
(* Timecode: a source that plays counts as playing *)

\* Units after which it does.
Awake == Silence + MaxLoop + MaxFaults

\* The timeouts of the receivers do not strike a source that goes on playing.
Counts ==
    /\ loop.expired => kind = "mtc"
    /\ src.playing =>
        /\ loop.expired => steady <= Silence + loop.dt
        /\ ~pub.playing =>
             steady <= (IF kind = "mtc" THEN Silence + MaxLoop + faults ELSE Waited)

\* Every step keeps it.
LEMMA CountsStep ==
    ASSUME Silence <= Timeout, TimecodeTypes, TimecodeTypes', Unheard,
           Waited' \in 0 .. Silence, Recent, Counts, [TimecodeNext]_timecodeVars
    PROVE  Counts'
<1>n. /\ steady \in 0 .. Settle /\ heard \in 0 .. Timeout + 1 /\ loop.dt \in 0 .. MaxLoop
      /\ faults \in 0 .. MaxFaults /\ kind \in {"mtc", "ltc"}
      /\ Waited \in 0 .. Silence /\ Silence \in Nat
      /\ pub \in [pos : 0 .. Top, playing : BOOLEAN]
      /\ loop \in [at : {"refresh", "drive"}, expired : BOOLEAN, dt : 0 .. MaxLoop]
  BY QuietNumbers, WaitedNumbers, WaitedInside, SilenceNumbers DEF Timecodes
<1>p. steady' \in 0 .. Settle /\ loop'.dt \in 0 .. MaxLoop /\ faults' \in 0 .. MaxFaults
  BY DEF TimecodeTypes, TimecodeTypeOK
<1>w. PICK waited \in 0 .. Silence : waited = Waited'
  OBVIOUS
<1> DEFINE patience == IF kind = "mtc" THEN Silence + MaxLoop + faults ELSE Waited
           patience1 == IF kind' = "mtc" THEN Silence + MaxLoop + faults' ELSE waited
<1>0. steady' = 0 /\ (loop'.expired => kind' = "mtc") => Counts'
  <2>1. \A x \in 0 .. MaxLoop, y \in 0 .. MaxFaults :
          0 <= Silence + x /\ 0 <= Silence + MaxLoop + y /\ 0 <= waited
    BY <1>n, TimecodeNumbers
  <2>2. 0 <= Silence + loop'.dt /\ 0 <= Silence + MaxLoop + faults' /\ 0 <= waited
    BY <1>p, <2>1
  <2>3. QED
    BY <1>w, <2>2 DEF Counts
<1>1. CASE Pass
  <2>1. loop'.expired = loop.expired /\ kind' = kind
    BY <1>1, <1>n DEF Pass
  <2>2. CASE ~src.playing
    <3>1. ~src'.playing
      BY <1>1, <2>2 DEF Pass
    <3>2. QED
      BY <2>1, <3>1 DEF Counts
  <2>3. CASE src.playing
    <3>1. loop'.dt = loop.dt + 1 /\ steady' <= steady + 1
      BY <1>1, <2>3, PassCases
    <3>2. loop.expired => steady' <= Silence + loop'.dt
      <4>1. loop.expired => steady <= Silence + loop.dt
        BY <2>3 DEF Counts
      <4>2. QED
        BY <1>n, <1>p, <3>1, <4>1
    <3>3. ~pub.playing => steady <= patience
      BY <2>3 DEF Counts
    <3>4. ~pub'.playing => steady' <= patience1
      <4>1. CASE kind = "mtc"
        <5>1. pub'.playing \/ (pub'.playing = pub.playing /\ faults' = faults + 1)
          BY <1>1, <2>3, <4>1, MtcPass
        <5>2. steady <= Silence + MaxLoop + faults
              => steady' <= Silence + MaxLoop + (faults + 1)
          BY <1>n, <1>p, <3>1, TimecodeNumbers
        <5>3. QED
          BY <2>1, <3>3, <4>1, <5>1, <5>2
      <4>2. CASE kind = "ltc"
        <5>1. pub'.playing = pub.playing /\ waited >= Waited + 1
          BY <1>1, <1>w, <2>3, <4>2, LtcPass
        <5>2. steady <= Waited => steady' <= waited
          BY <1>n, <1>p, <3>1, <5>1
        <5>3. QED
          BY <2>1, <3>3, <4>2, <5>1, <5>2
      <4>3. QED
        BY <1>n, <4>1, <4>2
    <3>5. QED
      BY <1>w, <2>1, <3>2, <3>4 DEF Counts
  <2>4. QED
    BY <2>2, <2>3
<1>2. CASE Play \/ StopSource \/ (\E p \in Starts : Locate(p) \/ SeekCue(p)) \/ StopCue
           \/ StartCue
  <2>1. steady' = 0 /\ loop' = loop /\ kind' = kind
    BY <1>2 DEF Play, StopSource, Locate, SeekCue, StopCue, StartCue, Move
  <2>2. QED
    BY <1>0, <2>1 DEF Counts
<1>3. CASE LoopRefresh
  <2> DEFINE late == kind = "mtc" /\ heard > Timeout
  <2>1. UNCHANGED <<src, pub, steady, kind, faults>> /\ Waited' = Waited
        /\ loop' = [loop EXCEPT !.at = "drive", !.expired = late]
    BY <1>3, WaitedRefresh DEF LoopRefresh, Expired, Drained
  <2>2. late \in BOOLEAN
    OBVIOUS
  <2> HIDE DEF late
  <2>3. loop'.expired = late /\ loop'.dt = loop.dt
    BY <1>n, <2>1, <2>2
  <2>4. src.playing /\ late => steady <= Silence + loop.dt
    <3>1. SUFFICES ASSUME src.playing, heard > Timeout PROVE steady <= Silence + loop.dt
      BY DEF late
    <3>2. steady <= Waited \/ heard <= Waited
      BY <3>1 DEF Recent
    <3>3. QED
      BY <1>n, <3>1, <3>2, TimecodeNumbers
  <2>5. QED
    BY <2>1, <2>3, <2>4 DEF Counts, late
<1>4. CASE LoopDecode
  <2>1. src' = src /\ loop' = loop /\ kind' = kind /\ faults' = faults
    BY <1>4 DEF LoopDecode
  <2>2. CASE ~src.playing
    BY <2>1, <2>2 DEF Counts
  <2>3. CASE src.playing
    <3>1. pub'.playing \/ (pub' = pub /\ waited >= Waited)
      BY <1>4, <1>w, <2>3, WaitedDecode
    <3>2. steady' = 0 \/ steady' = steady
      BY <1>4 DEF LoopDecode
    <3>3. CASE steady' = 0
      BY <1>0, <2>1, <3>3 DEF Counts
    <3>4. CASE steady' = steady
      <4>1. steady <= Waited /\ waited >= Waited => steady <= waited
        BY <1>n
      <4>2. QED
        BY <1>w, <2>1, <3>1, <3>4, <4>1 DEF Counts
    <3>5. QED
      BY <3>2, <3>3, <3>4
  <2>4. QED
    BY <2>2, <2>3
<1>5. CASE LoopDrive
  <2>1. src' = src /\ steady' = steady /\ kind' = kind /\ faults' = faults
        /\ ~loop'.expired /\ waited >= Waited
    BY <1>5, <1>w, WaitedDrive DEF LoopDrive
  <2>2. ~pub'.playing => ~pub.playing \/ loop.expired \/ (kind = "ltc" /\ ~(heard <= Timeout))
    BY <1>5, <1>n DEF LoopDrive
  <2>3. CASE ~src.playing
    BY <2>1, <2>3 DEF Counts
  <2>4. CASE src.playing
    <3>1. CASE ~pub.playing
      <4>1. steady <= patience
        BY <2>4, <3>1 DEF Counts
      <4>2. steady <= Waited => steady <= waited
        BY <1>n, <2>1
      <4>3. steady' <= patience1
        BY <2>1, <4>1, <4>2
      <4>4. QED
        BY <1>w, <2>1, <4>3 DEF Counts
    <3>2. CASE loop.expired
      <4>1. kind = "mtc" /\ steady <= Silence + loop.dt
        BY <2>4, <3>2 DEF Counts
      <4>2. steady <= Silence + MaxLoop + faults
        BY <1>n, <4>1, TimecodeNumbers
      <4>3. QED
        BY <2>1, <4>1, <4>2 DEF Counts
    <3>3. CASE kind = "ltc" /\ ~(heard <= Timeout)
      <4>1. steady <= Waited \/ heard <= Waited
        BY <2>4 DEF Recent
      <4>2. steady <= waited
        BY <1>n, <2>1, <3>3, <4>1, TimecodeNumbers
      <4>3. QED
        BY <1>w, <2>1, <3>3, <4>2 DEF Counts
    <3>4. CASE pub'.playing
      BY <2>1, <3>4 DEF Counts
    <3>5. QED
      BY <2>2, <3>1, <3>2, <3>3, <3>4
  <2>5. QED
    BY <2>3, <2>4
<1>6. CASE UNCHANGED timecodeVars
  BY <1>6 DEF timecodeVars, Counts, Waited, MtcWaited, LtcWaited, Pending, Turns
<1>7. QED
  BY <1>1, <1>2, <1>3, <1>4, <1>5, <1>6 DEF TimecodeNext

\* Once it has played that long it counts as playing.
LEMMA AwakeAfter ==
    ASSUME TimecodeTypes, Counts, src.playing, ~pub.playing
    PROVE  steady <= Awake
<1>1. steady <= (IF kind = "mtc" THEN Silence + MaxLoop + faults ELSE Waited)
  BY DEF Counts
<1>2. faults \in 0 .. MaxFaults /\ Waited \in 0 .. Silence /\ Silence \in Nat
      /\ steady \in 0 .. Settle
  BY WaitedNumbers, WaitedInside, SilenceNumbers, QuietNumbers
<1>3. QED
  BY <1>1, <1>2, TimecodeNumbers DEF Awake

\* What was published is where a source that plays was, not long ago.
LEMMA RecentBound ==
    ASSUME TimecodeTypes, Recent, src.playing
    PROVE  steady <= Silence \/ src.pos - pub.pos \in 0 .. 1 + 2 * MaxLoop + Silence
<1>1. /\ steady \in 0 .. Settle /\ src.pos \in 0 .. MaxPos /\ pub.pos \in 0 .. Top
      /\ Waited \in 0 .. Silence /\ Silence \in Nat
  BY QuietNumbers, WaitedNumbers, WaitedInside, SilenceNumbers DEF Timecodes
<1>2. steady <= Waited \/ src.pos - pub.pos \in 0 .. 1 + 2 * MaxLoop + Waited
  BY DEF Recent
<1>3. QED
  BY <1>1, <1>2, TimecodeNumbers

-----------------------------------------------------------------------------
(* Timecode: what the follow knows of a source that plays *)

\* The types of what the follow computes with.
LEMMA ChaseNumbers ==
    ASSUME TimecodeTypes
    PROVE  /\ steady \in 0 .. Settle /\ src.pos \in 0 .. MaxPos /\ pub.pos \in 0 .. Top
           /\ loop.dt \in 0 .. MaxLoop /\ syncAge \in 0 .. Floor
           /\ follow.secs \in 0 .. Top /\ follow.age \in 0 .. Long
           /\ follow.hold \in -1 .. Top /\ video.clock \in 0 .. Top
           /\ Silence \in Nat /\ Awake \in Nat
           /\ loop \in [at : {"refresh", "drive"}, expired : BOOLEAN, dt : 0 .. MaxLoop]
<1>1. /\ steady \in 0 .. Settle /\ src.pos \in 0 .. MaxPos /\ pub.pos \in 0 .. Top
      /\ syncAge \in 0 .. Floor
      /\ follow.secs \in 0 .. Top /\ follow.age \in 0 .. Long
      /\ follow.hold \in -1 .. Top /\ video.clock \in 0 .. Top
      /\ loop \in [at : {"refresh", "drive"}, expired : BOOLEAN, dt : 0 .. MaxLoop]
  BY DEF TimecodeTypes, TimecodeTypeOK
<1>2. Silence \in Nat /\ Awake \in Nat
  BY SilenceNumbers, TimecodeNumbers DEF Awake
<1>3. QED
  BY <1>1, <1>2

\* A unit of time of a source and a cue that both go on playing.
LEMMA ChasePass ==
    ASSUME TimecodeTypes, TimecodeTypes', Pass, src'.playing, follow'.on
    PROVE  /\ src.playing /\ follow.on
           /\ src'.pos = src.pos + 1 /\ loop.dt < MaxLoop /\ loop'.dt = loop.dt + 1
           /\ steady' \in 0 .. steady + 1
           /\ follow'.hold = follow.hold /\ follow'.secs = follow.secs
           /\ follow'.age = Older(follow.age, Long)
           /\ video'.clock = Older(video.clock, Top)
           /\ syncAge' = Older(syncAge, Floor)
           /\ steady' = 0 \/ Hears \/ Misses(1)
<1>1. TimecodeTypeOK /\ loop.dt < MaxLoop /\ Tick
  BY DEF TimecodeTypes, Pass, Tick
<1>2. src.playing
  BY DEF Pass
<1>3. follow.on
  BY <1>1, TickInside
<1>4. steady' \in 0 .. Settle /\ steady \in 0 .. Settle
  BY DEF TimecodeTypes, TimecodeTypeOK
<1>5. steady' <= steady + 1
  BY <1>2, PassCases
<1>6. steady' \in 0 .. steady + 1
  BY <1>4, <1>5, TimecodeNumbers
<1>7. QED
  BY <1>1, <1>2, <1>3, <1>6, PassCases, TickInside DEF Tick

\* A turn of a cue that follows.
LEMMA ChaseDrive ==
    ASSUME TimecodeTypes, LoopDrive, follow'.on
    PROVE  /\ follow.on /\ Drive(pub') /\ pub' \in Timecodes /\ pub'.pos = pub.pos
           /\ src' = src /\ steady' = steady /\ loop'.dt = 0
           /\ follow'.secs = pub.pos
           /\ follow'.age = (IF pub.pos = follow.secs THEN follow.age ELSE 0)
<1>1. TimecodeTypeOK
  BY DEF TimecodeTypes
<1>2. pub' \in Timecodes /\ pub'.pos = pub.pos
  BY <1>1, ReadInside
<1>3. follow.on
  BY DEF LoopDrive
<1>4. Drive(pub')
  BY <1>3 DEF LoopDrive
<1>5. QED
  BY <1>1, <1>2, <1>3, <1>4, DriveInside DEF LoopDrive

\* The steps that neither pass time, nor turn the follow, nor touch anything.
Unmoved == UNCHANGED <<src, follow, video, syncAge>> /\ loop'.dt = loop.dt

\* A refresh, a decoded frame and a stutter move neither clock nor source.
LEMMA IdleSteps ==
    ASSUME TimecodeTypes
    PROVE  /\ LoopRefresh => Unmoved /\ steady' = steady /\ pub' = pub
           /\ LoopDecode => Unmoved /\ (steady' = 0 \/ steady' = steady)
           /\ UNCHANGED timecodeVars => Unmoved /\ steady' = steady /\ pub' = pub
<1>1. loop \in [at : {"refresh", "drive"}, expired : BOOLEAN, dt : 0 .. MaxLoop]
  BY DEF TimecodeTypes, TimecodeTypeOK
<1>2. LoopRefresh => Unmoved /\ steady' = steady /\ pub' = pub
  BY <1>1 DEF LoopRefresh, Expired, Drained, Unmoved
<1>3. LoopDecode => Unmoved /\ (steady' = 0 \/ steady' = steady)
  BY DEF LoopDecode, Unmoved
<1>4. UNCHANGED timecodeVars => Unmoved /\ steady' = steady /\ pub' = pub
  BY DEF timecodeVars, Unmoved
<1>5. QED
  BY <1>2, <1>3, <1>4

\* Whatever the operator does starts the count.
LEMMA TouchSteps ==
    Play \/ StopSource \/ (\E p \in Starts : Locate(p) \/ SeekCue(p)) \/ StopCue \/ StartCue
    => steady' = 0
BY DEF Play, StopSource, Locate, SeekCue, StopCue, StartCue, Move

\* A picture is not held for long.
HeldBriefly ==
    follow.on /\ src.playing /\ follow.hold # NoHold => steady <= Awake + loop.dt

\* Every step keeps it: a position heard sets `playing`, and the next turn frees the picture.
LEMMA HeldBrieflyStep ==
    ASSUME TimecodeTypes, TimecodeTypes', Counts', HeldBriefly, Waited' \in 0 .. Silence,
           [TimecodeNext]_timecodeVars
    PROVE  HeldBriefly'
<1>1. SUFFICES ASSUME follow'.on, src'.playing, follow'.hold # NoHold
               PROVE  steady' <= Awake + loop'.dt
  BY DEF HeldBriefly
<1>n. /\ steady \in 0 .. Settle /\ loop.dt \in 0 .. MaxLoop /\ Silence \in Nat
      /\ Awake \in Nat
  BY ChaseNumbers
<1>p. steady' \in 0 .. Settle /\ loop'.dt \in 0 .. MaxLoop /\ faults' \in 0 .. MaxFaults
  BY DEF TimecodeTypes, TimecodeTypeOK
<1>0. CASE steady' = 0
  <2>1. \A x \in 0 .. MaxLoop : 0 <= Awake + x
    BY <1>n, TimecodeNumbers
  <2>2. QED
    BY <1>0, <1>p, <2>1
<1>2. CASE Pass
  <2>1. /\ steady <= Awake + loop.dt /\ loop'.dt = loop.dt + 1 /\ steady' \in 0 .. steady + 1
    BY <1>1, <1>2, ChasePass DEF HeldBriefly
  <2>2. QED
    BY <2>1, <1>n
<1>3. CASE Unmoved /\ steady' = steady
  BY <1>1, <1>3 DEF Unmoved, HeldBriefly
<1>4. CASE LoopDrive
  <2>1. /\ follow.on /\ Drive(pub') /\ pub' \in Timecodes
        /\ src' = src /\ steady' = steady /\ loop'.dt = 0
    BY <1>1, <1>4, ChaseDrive
  <2>2. ~pub'.playing
    BY <1>1, <2>1, DriveCases
    DEF TimecodeTypes, Freezes, Jumps, Waits, Catches, Resumes, Drops, Runs, Slews
  <2>3. steady' <= (IF kind' = "mtc" THEN Silence + MaxLoop + faults' ELSE Waited')
    BY <1>1, <2>2 DEF Counts
  <2>4. (\A y \in 0 .. MaxFaults : Silence + MaxLoop + y <= Awake)
        /\ (\A w \in 0 .. Silence : w <= Awake)
    BY <1>n, TimecodeNumbers DEF Awake
  <2>5. (IF kind' = "mtc" THEN Silence + MaxLoop + faults' ELSE Waited') <= Awake
    BY <1>p, <2>4
  <2>6. \A a, b \in Int : a <= b /\ b <= Awake => a <= Awake + 0
    BY <1>n
  <2>7. QED
    <3>1. PICK b \in Int :
            b = (IF kind' = "mtc" THEN Silence + MaxLoop + faults' ELSE Waited')
      <4>1. (\A y \in 0 .. MaxFaults : Silence + MaxLoop + y \in Int)
            /\ (\A w \in 0 .. Silence : w \in Int)
        BY <1>n, TimecodeNumbers
      <4>2. QED
        BY <1>p, <4>1
    <3>2. steady \in Int /\ steady <= b /\ b <= Awake
      BY <1>n, <2>1, <2>3, <2>5, <3>1
    <3>3. QED
      BY <2>1, <2>6, <3>2
<1>5. QED
  BY <1>0, <1>2, <1>3, <1>4, IdleSteps, TouchSteps DEF TimecodeNext

\* A position that is not noted yet was published in this turn.
NotedSoon ==
    follow.on /\ src.playing /\ pub.pos # follow.secs =>
        steady <= loop.dt \/ src.pos - pub.pos \in 0 .. 1 + MaxLoop + loop.dt

\* Every step keeps it: the next turn notes what was published.
LEMMA NotedSoonStep ==
    ASSUME TimecodeTypes, TimecodeTypes', NotedSoon, [TimecodeNext]_timecodeVars
    PROVE  NotedSoon'
<1>1. SUFFICES ASSUME follow'.on, src'.playing, pub'.pos # follow'.secs
               PROVE  \/ steady' <= loop'.dt
                      \/ src'.pos - pub'.pos \in 0 .. 1 + MaxLoop + loop'.dt
  BY DEF NotedSoon
<1>n. /\ steady \in 0 .. Settle /\ loop.dt \in 0 .. MaxLoop
      /\ src.pos \in 0 .. MaxPos /\ pub.pos \in 0 .. Top
  BY ChaseNumbers
<1>p. steady' \in 0 .. Settle /\ loop'.dt \in 0 .. MaxLoop
  BY DEF TimecodeTypes, TimecodeTypeOK
<1>0. CASE steady' = 0
  BY <1>0, <1>p
<1>h. CASE Hears
  BY <1>h DEF Hears, Told
<1>2. CASE Pass /\ Misses(1)
  <2>1. /\ src.playing /\ follow.on /\ follow'.secs = follow.secs
        /\ src'.pos = src.pos + 1 /\ loop'.dt = loop.dt + 1 /\ steady' \in 0 .. steady + 1
    BY <1>1, <1>2, ChasePass
  <2>2. pub'.pos = pub.pos
    BY <1>2 DEF Misses
  <2>3. steady <= loop.dt \/ src.pos - pub.pos \in 0 .. 1 + MaxLoop + loop.dt
    BY <1>1, <2>1, <2>2 DEF NotedSoon
  <2>4. src.pos - pub.pos \in 0 .. 1 + MaxLoop + loop.dt
        => (src.pos + 1) - pub.pos \in 0 .. 1 + MaxLoop + (loop.dt + 1)
    BY <1>n, TimecodeNumbers
  <2>5. steady <= loop.dt => steady' <= loop.dt + 1
    BY <1>n, <2>1
  <2>6. QED
    BY <2>1, <2>2, <2>3, <2>4, <2>5
<1>3. CASE Unmoved /\ steady' = steady /\ pub' = pub
  BY <1>1, <1>3 DEF Unmoved, NotedSoon
<1>4. CASE LoopDrive
  BY <1>1, <1>4, ChaseDrive
<1>5. CASE LoopDecode
  <2>1. src.playing
    BY <1>1, <1>5 DEF LoopDecode
  <2>2. Hears \/ steady' = 0 \/ (pub' = pub /\ steady' = steady)
    BY <1>5, <2>1, WaitedDecode DEF Hears
  <2>3. QED
    BY <1>0, <1>h, <1>3, <1>5, <2>2, IdleSteps
<1>6. QED
  BY <1>0, <1>h, <1>1, <1>2, <1>3, <1>4, <1>5, IdleSteps, TouchSteps, ChasePass DEF TimecodeNext

\* The position noted, carried on by its age, is where the source is, as late as
\* receiver and loop may be.
InPlace ==
    /\ src.pos - (follow.secs + follow.age) \in 0 .. 1 + 2 * MaxLoop
    /\ follow.age <= 1 + 2 * MaxLoop + Silence + loop.dt

\* Units after which it is.
Placed == 2 * Silence + 3 * MaxLoop + 1

\* It is not only as long as the position noted happens to be one published since
\* the source was touched, which it leaves.
PlacedSoon ==
    follow.on /\ src.playing /\ ~InPlace =>
        /\ \/ steady - (src.pos - follow.secs) <= Silence + MaxLoop
           \/ steady <= Silence + loop.dt
        /\ steady <= Placed + loop.dt

\* Time makes a noted position older at the pace of the source.
LEMMA PlacedSoonPass ==
    ASSUME Silence + 3 * MaxLoop <= Timeout + HardSync,
           TimecodeTypes, TimecodeTypes', PlacedSoon, Pass
    PROVE  PlacedSoon'
<1>1. SUFFICES ASSUME follow'.on, src'.playing, ~InPlace'
               PROVE  /\ \/ steady' - (src'.pos - follow'.secs) <= Silence + MaxLoop
                         \/ steady' <= Silence + loop'.dt
                      /\ steady' <= Placed + loop'.dt
  BY DEF PlacedSoon
<1>n. /\ steady \in 0 .. Settle /\ src.pos \in 0 .. MaxPos /\ loop.dt \in 0 .. MaxLoop
      /\ follow.secs \in 0 .. Top /\ follow.age \in 0 .. Long /\ Silence \in Nat
  BY ChaseNumbers
<1>2. /\ src.playing /\ follow.on
      /\ src'.pos = src.pos + 1 /\ loop.dt < MaxLoop /\ loop'.dt = loop.dt + 1
      /\ steady' \in 0 .. steady + 1
      /\ follow'.secs = follow.secs /\ follow'.age = Older(follow.age, Long)
  BY <1>1, ChasePass
<1>3. InPlace => InPlace'
  <2>1. SUFFICES ASSUME InPlace PROVE InPlace'
    OBVIOUS
  <2>2. src.pos - (follow.secs + follow.age) \in 0 .. 1 + 2 * MaxLoop
        /\ follow.age <= 1 + 2 * MaxLoop + Silence + loop.dt
    BY <2>1 DEF InPlace
  <2>3. Older(follow.age, Long) = follow.age + 1
    BY <1>n, <1>2, <2>2, TimecodeNumbers DEF Older, Least, Long
  <2>4. /\ (src.pos + 1) - (follow.secs + (follow.age + 1)) \in 0 .. 1 + 2 * MaxLoop
        /\ follow.age + 1 <= 1 + 2 * MaxLoop + Silence + (loop.dt + 1)
    BY <1>n, <2>2, TimecodeNumbers
  <2>5. QED
    BY <1>2, <2>3, <2>4 DEF InPlace
<1>4. /\ \/ steady - (src.pos - follow.secs) <= Silence + MaxLoop
         \/ steady <= Silence + loop.dt
      /\ steady <= Placed + loop.dt
  BY <1>1, <1>2, <1>3 DEF PlacedSoon
<1>5. Placed \in Nat
  BY <1>n, TimecodeNumbers DEF Placed
<1>6. PICK s \in 0 .. steady + 1 : s = steady'
  BY <1>2
<1>7. /\ \/ s - ((src.pos + 1) - follow.secs) <= Silence + MaxLoop
         \/ s <= Silence + (loop.dt + 1)
      /\ s <= Placed + (loop.dt + 1)
  BY <1>n, <1>4, <1>5, <1>6, TimecodeNumbers
<1>8. QED
  BY <1>2, <1>6, <1>7

\* A turn notes the position published, which is a recent one.
LEMMA PlacedSoonDrive ==
    ASSUME TimecodeTypes, Recent, NotedSoon, PlacedSoon, LoopDrive
    PROVE  PlacedSoon'
<1>1. SUFFICES ASSUME follow'.on, src'.playing, ~InPlace'
               PROVE  /\ \/ steady' - (src'.pos - follow'.secs) <= Silence + MaxLoop
                         \/ steady' <= Silence + loop'.dt
                      /\ steady' <= Placed + loop'.dt
  BY DEF PlacedSoon
<1>n. /\ steady \in 0 .. Settle /\ src.pos \in 0 .. MaxPos /\ loop.dt \in 0 .. MaxLoop
      /\ follow.secs \in 0 .. Top /\ follow.age \in 0 .. Long /\ Silence \in Nat
      /\ pub.pos \in 0 .. Top
  BY ChaseNumbers
<1> DEFINE age == IF pub.pos = follow.secs THEN follow.age ELSE 0
<1>2. /\ follow.on /\ src' = src /\ steady' = steady /\ loop'.dt = 0
      /\ follow'.secs = pub.pos /\ follow'.age = age
  BY <1>1, ChaseDrive
<1>3. ~(/\ src.pos - (pub.pos + age) \in 0 .. 1 + 2 * MaxLoop
        /\ age <= 1 + 2 * MaxLoop + Silence + 0)
  BY <1>1, <1>2 DEF InPlace
<1>4. src.playing
  BY <1>1, <1>2
<1>5. steady <= Silence \/ src.pos - pub.pos \in 0 .. 1 + 2 * MaxLoop + Silence
  BY <1>4, RecentBound
<1>6. SUFFICES /\ \/ steady - (src.pos - pub.pos) <= Silence + MaxLoop
                  \/ steady <= Silence + 0
               /\ steady <= Placed + 0
  BY <1>2
<1>7. CASE steady <= Silence
  BY <1>n, <1>7, TimecodeNumbers DEF Placed
<1>8. CASE src.pos - pub.pos \in 0 .. 1 + 2 * MaxLoop + Silence /\ pub.pos # follow.secs
  <2>1. age = 0
    BY <1>8
  <2>2. steady <= loop.dt \/ src.pos - pub.pos \in 0 .. 1 + MaxLoop + loop.dt
    BY <1>2, <1>4, <1>8 DEF NotedSoon
  <2>3. ~(src.pos - pub.pos \in 0 .. 1 + MaxLoop + loop.dt)
    BY <1>n, <1>3, <2>1, TimecodeNumbers
  <2>4. steady <= loop.dt
    BY <2>2, <2>3
  <2> HIDE DEF age
  <2>5. QED
    BY <1>n, <1>8, <2>4, TimecodeNumbers DEF Placed
<1>9. CASE src.pos - pub.pos \in 0 .. 1 + 2 * MaxLoop + Silence /\ pub.pos = follow.secs
  <2>1. age = follow.age
    BY <1>9
  <2>2. ~InPlace
    <3>1. ASSUME InPlace PROVE FALSE
      <4>1. src.pos - (pub.pos + follow.age) \in 0 .. 1 + 2 * MaxLoop
        BY <1>9, <3>1 DEF InPlace
      <4>2. follow.age <= 1 + 2 * MaxLoop + Silence + 0
        BY <1>n, <1>9, <4>1, TimecodeNumbers
      <4>3. QED
        BY <1>3, <2>1, <4>1, <4>2
    <3>2. QED
      BY <3>1
  <2>3. \/ steady - (src.pos - pub.pos) <= Silence + MaxLoop
        \/ steady <= Silence + loop.dt
    BY <1>2, <1>4, <1>9, <2>2 DEF PlacedSoon
  <2> HIDE DEF age
  <2>4. QED
    BY <1>n, <1>9, <2>3, TimecodeNumbers DEF Placed
<1>10. QED
  BY <1>5, <1>7, <1>8, <1>9

\* Every step keeps it.
LEMMA PlacedSoonStep ==
    ASSUME Silence + 3 * MaxLoop <= Timeout + HardSync,
           TimecodeTypes, TimecodeTypes', Recent, NotedSoon, PlacedSoon,
           [TimecodeNext]_timecodeVars
    PROVE  PlacedSoon'
<1>p. steady' \in 0 .. Settle /\ loop'.dt \in 0 .. MaxLoop
  BY DEF TimecodeTypes, TimecodeTypeOK
<1>0. CASE steady' = 0
  <2>1. \A x \in 0 .. MaxLoop : 0 <= Silence + x /\ 0 <= Placed + x
    BY SilenceNumbers, TimecodeNumbers DEF Placed
  <2>2. 0 <= Silence + loop'.dt /\ 0 <= Placed + loop'.dt
    BY <1>p, <2>1
  <2>3. QED
    BY <1>0, <2>2 DEF PlacedSoon
<1>1. CASE Unmoved /\ steady' = steady
  BY <1>1 DEF Unmoved, PlacedSoon, InPlace
<1>2. QED
  BY <1>0, <1>1, IdleSteps, TouchSteps, PlacedSoonPass, PlacedSoonDrive DEF TimecodeNext

-----------------------------------------------------------------------------
(* Timecode: the picture keeps up *)

\* Units a position is behind the source when it is driven to.
Lag == 1 + 2 * MaxLoop

\* How far the clock is ahead of the source, and behind a target as late as can be.
Ahead == video.clock - Target(src.pos)
Behind == Target(src.pos - Lag) - video.clock

\* A later position has a later target, by as much or, before the cue's start, less.
LEMMA TargetOrder ==
    ASSUME NEW x \in Int, NEW y \in Int, x <= y
    PROVE  Target(x) \in Nat /\ Target(y) \in Nat
           /\ Target(x) <= Target(y) /\ Target(y) <= Target(x) + (y - x)
           /\ (x <= Top => Target(x) <= Top)
BY TimecodeNumbers DEF Target, Most

\* The bounds are numbers.
LEMMA LagNumbers ==
    /\ Lag \in Nat /\ Placed \in Nat /\ Awake \in Nat /\ Silence \in Nat
    /\ Awake + MaxLoop <= Placed
<1>1. Silence \in Nat /\ MaxFaults <= Silence
  BY SilenceNumbers
<1>2. QED
  BY <1>1, TimecodeNumbers DEF Lag, Placed, Awake

\* The types of what is compared.
LEMMA ClockNumbers ==
    ASSUME TimecodeTypes
    PROVE  /\ Target(src.pos) \in 0 .. Top /\ Target(src.pos - Lag) \in 0 .. Top
           /\ Target(src.pos - Lag) <= Target(src.pos)
           /\ Target(src.pos) <= Target(src.pos - Lag) + Lag
           /\ Ahead \in Int /\ Behind \in Int
<1>1. src.pos \in 0 .. MaxPos /\ video.clock \in 0 .. Top
  BY ChaseNumbers
<1> DEFINE p == src.pos
           q == src.pos - Lag
<1>2. p \in Int /\ q \in Int /\ q <= p /\ p <= Top /\ q <= Top /\ p - q = Lag
  BY <1>1, LagNumbers, TimecodeNumbers
<1>a. Ahead = video.clock - Target(p) /\ Behind = Target(q) - video.clock
  BY DEF Ahead, Behind
<1> HIDE DEF p, q
<1>3. /\ Target(q) \in Nat /\ Target(p) \in Nat /\ Target(q) <= Target(p)
      /\ Target(p) <= Target(q) + (p - q) /\ Target(q) <= Top
  BY <1>2, TargetOrder
<1>4. Target(p) <= Top
  BY <1>2, TargetOrder
<1>5. /\ Target(p) \in 0 .. Top /\ Target(q) \in 0 .. Top
      /\ Target(p) <= Target(q) + Lag
  BY <1>2, <1>3, <1>4, TimecodeNumbers
<1>6. Ahead \in Int /\ Behind \in Int
  BY <1>1, <1>5, <1>a, TimecodeNumbers
<1>7. QED
  BY <1>3, <1>5, <1>6 DEF p, q

\* A unit of time moves the clock as far as the source, or less at its bound.
LEMMA ClockPass ==
    ASSUME TimecodeTypes, src'.pos = src.pos + 1, video'.clock = Older(video.clock, Top),
           src'.pos \in 0 .. MaxPos
    PROVE  /\ Ahead' <= Ahead + 1 /\ Ahead' \in Int
           /\ Behind' <= Most(Behind, 0) /\ Behind' \in Int
<1>1. src.pos \in 0 .. MaxPos /\ video.clock \in 0 .. Top /\ src.pos + 1 \in 0 .. MaxPos
  BY ChaseNumbers
<1> DEFINE p == src.pos
           q == src.pos - Lag
           clock == Older(video.clock, Top)
<1>2. p \in Int /\ q \in Int /\ p + 1 \in Int /\ q + 1 \in Int /\ q + 1 <= Top
      /\ p <= p + 1 /\ q <= q + 1 /\ (p + 1) - Lag = q + 1
  BY <1>1, LagNumbers, TimecodeNumbers
<1>3. clock \in 0 .. Top /\ clock <= video.clock + 1
      /\ (clock = video.clock + 1 \/ clock = Top)
  BY <1>1, OlderInside, TimecodeNumbers
<1>4. /\ Ahead = video.clock - Target(p) /\ Ahead' = clock - Target(p + 1)
      /\ Behind = Target(q) - video.clock /\ Behind' = Target(q + 1) - clock
  <2>1. src'.pos - Lag = q + 1
    BY <1>2
  <2>2. QED
    BY <2>1 DEF Ahead, Behind
<1> HIDE DEF p, q, clock
<1>5. Target(p) \in Nat /\ Target(p + 1) \in Nat /\ Target(p) <= Target(p + 1)
  BY <1>2, TargetOrder
<1>6. /\ Target(q) \in Nat /\ Target(q + 1) \in Nat
      /\ Target(q + 1) <= Target(q) + ((q + 1) - q)
  BY <1>2, TargetOrder
<1>7. Target(q + 1) <= Top
  BY <1>2, TargetOrder
<1>8. clock - Target(p + 1) <= (video.clock - Target(p)) + 1 /\ clock - Target(p + 1) \in Int
  BY <1>1, <1>3, <1>5, TimecodeNumbers
<1>9. Target(q + 1) - clock <= Most(Target(q) - video.clock, 0)
      /\ Target(q + 1) - clock \in Int
  BY <1>1, <1>2, <1>3, <1>6, <1>7, TimecodeNumbers DEF Most
<1>10. QED
  BY <1>4, <1>8, <1>9

\* A source that has played for long counts as playing, and the picture is not held.
LEMMA PlayingDrive ==
    ASSUME TimecodeTypes, TimecodeTypes', Waited' \in 0 .. Silence, Counts', HeldBriefly,
           PlacedSoon', LoopDrive, follow'.on, src.playing, steady > Placed
    PROVE  /\ Catches(pub') \/ Runs(pub') \/ Slews(pub')
           /\ Aim(pub') \in 0 .. Top
           /\ Aim(pub') <= Target(src.pos) /\ Target(src.pos - Lag) <= Aim(pub')
           /\ follow.hold = NoHold /\ Shows = video.clock
<1>a. TimecodeTypeOK
  BY DEF TimecodeTypes
<1>n. /\ steady \in 0 .. Settle /\ loop.dt \in 0 .. MaxLoop /\ pub.pos \in 0 .. Top
      /\ src.pos \in 0 .. MaxPos /\ follow.age \in 0 .. Long /\ follow.hold \in -1 .. Top
  BY ChaseNumbers
<1>1. /\ follow.on /\ Drive(pub') /\ pub' \in Timecodes /\ pub'.pos = pub.pos
      /\ src' = src /\ steady' = steady /\ loop'.dt = 0
      /\ follow'.secs = pub.pos
      /\ follow'.age = (IF pub.pos = follow.secs THEN follow.age ELSE 0)
  BY ChaseDrive
<1>2. follow.hold = NoHold
  <2>1. ASSUME follow.hold # NoHold PROVE FALSE
    <3>1. steady <= Awake + loop.dt
      BY <1>1, <2>1 DEF HeldBriefly
    <3>2. QED
      BY <1>n, <3>1, LagNumbers, TimecodeNumbers
  <2>2. QED
    BY <2>1
<1>3. Shows = video.clock
  BY <1>a, <1>2, ShowsInside
<1>4. pub'.playing
  <2>1. ASSUME ~pub'.playing PROVE FALSE
    <3>1. steady <= (IF kind' = "mtc" THEN Silence + MaxLoop + faults' ELSE Waited')
      BY <1>1, <2>1 DEF Counts
    <3>2. faults' \in 0 .. MaxFaults
      BY DEF TimecodeTypes, TimecodeTypeOK
    <3>3. (\A y \in 0 .. MaxFaults : steady <= Silence + MaxLoop + y => FALSE)
          /\ (\A w \in 0 .. Silence : steady <= w => FALSE)
      BY <1>n, LagNumbers, TimecodeNumbers DEF Awake
    <3>4. QED
      BY <3>1, <3>2, <3>3
  <2>2. QED
    BY <2>1
<1>5. Catches(pub') \/ Runs(pub') \/ Slews(pub')
  BY <1>a, <1>1, <1>2, <1>4, DriveCases DEF Freezes, Jumps, Waits, Resumes, Drops
<1>6. InPlace'
  <2>1. ASSUME ~InPlace' PROVE FALSE
    <3>1. steady <= Placed + 0
      BY <1>1, <2>1 DEF PlacedSoon
    <3>2. QED
      BY <1>n, <3>1, LagNumbers
  <2>2. QED
    BY <2>1
<1> DEFINE age == IF pub.pos = follow.secs THEN follow.age ELSE 0
           p == src.pos
           q == src.pos - Lag
           r == pub.pos + age
<1>7. p - r \in 0 .. Lag /\ age \in Nat
  <2>1. src.pos - (pub.pos + age) \in 0 .. 1 + 2 * MaxLoop
    BY <1>1, <1>6 DEF InPlace
  <2>2. age \in Nat
    BY <1>n, TimecodeNumbers
  <2>3. QED
    BY <2>1, <2>2 DEF Lag
<1>8. /\ Aim(pub') \in 0 .. Top /\ Aim(pub') = Target(Least(r, Top))
  BY <1>a, <1>1, <1>4, AimInside, NotedInside
<1>9. r \in Int /\ p \in Int /\ q \in Int /\ q <= r /\ r <= p /\ Least(r, Top) = r
  <2> HIDE DEF age
  <2>1. QED
    BY <1>n, <1>7, LagNumbers, TimecodeNumbers DEF Least
<1>10. Target(r) <= Target(p) /\ Target(q) <= Target(r)
  <2> HIDE DEF p, q, r
  <2>1. QED
    BY <1>9, TargetOrder
<1>11. QED
  BY <1>2, <1>3, <1>5, <1>8, <1>9, <1>10

\* A reopening that is put off was preceded by one to where the source was, or by one
\* as long ago as the position noted is right.
Synced ==
    follow.on /\ src.playing /\ syncAge < Floor =>
        \/ syncAge >= steady - Placed
        \/ Ahead <= syncAge /\ Behind <= 0

\* Time makes the last reopening older.
LEMMA SyncedPass ==
    ASSUME TimecodeTypes, TimecodeTypes', Synced, Pass
    PROVE  Synced'
<1>1. SUFFICES ASSUME follow'.on, src'.playing, syncAge' < Floor
               PROVE  \/ syncAge' >= steady' - Placed
                      \/ Ahead' <= syncAge' /\ Behind' <= 0
  BY DEF Synced
<1>n. /\ steady \in 0 .. Settle /\ syncAge \in 0 .. Floor
  BY ChaseNumbers
<1>2. /\ src.playing /\ follow.on /\ src'.pos = src.pos + 1 /\ steady' \in 0 .. steady + 1
      /\ video'.clock = Older(video.clock, Top) /\ syncAge' = Older(syncAge, Floor)
  BY <1>1, ChasePass
<1>3. syncAge' = syncAge + 1 /\ syncAge < Floor
  BY <1>1, <1>2, <1>n, TimecodeNumbers DEF Older, Least
<1>4. src'.pos \in 0 .. MaxPos
  BY DEF TimecodeTypes, TimecodeTypeOK
<1>5. PICK a \in Int, b \in Int : /\ a = Ahead' /\ b = Behind'
                                  /\ a <= Ahead + 1 /\ b <= Most(Behind, 0)
  BY <1>2, <1>4, ClockPass
<1>6. syncAge >= steady - Placed \/ (Ahead <= syncAge /\ Behind <= 0)
  BY <1>2, <1>3 DEF Synced
<1>7. Ahead \in Int /\ Behind \in Int
  BY ClockNumbers
<1>8. PICK s \in 0 .. steady + 1 : s = steady'
  BY <1>2
<1>9. syncAge + 1 >= s - Placed \/ (a <= syncAge + 1 /\ b <= 0)
  <2>1. syncAge >= steady - Placed => syncAge + 1 >= s - Placed
    <3>1. syncAge \in Int /\ steady \in Int /\ s \in Int /\ s <= steady + 1
      BY <1>n, TimecodeNumbers
    <3>2. \A x \in Int : syncAge >= steady - x => syncAge + 1 >= s - x
      BY <3>1
    <3>3. QED
      BY <3>2, LagNumbers
  <2>2. Ahead <= syncAge => a <= syncAge + 1
    BY <1>n, <1>5, <1>7, TimecodeNumbers
  <2>3. Behind <= 0 => b <= 0
    BY <1>5, <1>7 DEF Most
  <2>4. QED
    BY <1>6, <2>1, <2>2, <2>3
<1>10. QED
  BY <1>3, <1>5, <1>8, <1>9

\* What a turn leaves of the clock: the target, what it was, or in between.
LEMMA ClockDrive ==
    ASSUME TimecodeTypes, TimecodeTypes', src' = src,
           NEW aim \in 0 .. Top, aim <= Target(src.pos), Target(src.pos - Lag) <= aim,
           NEW to \in 0 .. Top, video'.clock = to
    PROVE  /\ Ahead' = to - Target(src.pos) /\ Behind' = Target(src.pos - Lag) - to
           /\ to - Target(src.pos) <= to - aim /\ Target(src.pos - Lag) - to <= aim - to
<1>1. Target(src.pos) \in 0 .. Top /\ Target(src.pos - Lag) \in 0 .. Top
  BY ClockNumbers
<1>2. Ahead' = to - Target(src.pos) /\ Behind' = Target(src.pos - Lag) - to
  BY DEF Ahead, Behind
<1>3. QED
  BY <1>1, <1>2, TimecodeNumbers

\* A turn reopens the picture where the position noted says.
LEMMA SyncedDrive ==
    ASSUME TimecodeTypes, TimecodeTypes', Waited' \in 0 .. Silence, Counts', HeldBriefly,
           PlacedSoon', Synced, LoopDrive
    PROVE  Synced'
<1>1. SUFFICES ASSUME follow'.on, src'.playing, syncAge' < Floor
               PROVE  \/ syncAge' >= steady' - Placed
                      \/ Ahead' <= syncAge' /\ Behind' <= 0
  BY DEF Synced
<1>a. TimecodeTypeOK
  BY DEF TimecodeTypes
<1>n. /\ steady \in 0 .. Settle /\ syncAge \in 0 .. Floor /\ video.clock \in 0 .. Top
      /\ loop.dt \in 0 .. MaxLoop
      /\ Target(src.pos) \in 0 .. Top /\ Target(src.pos - Lag) \in 0 .. Top
  BY ChaseNumbers, ClockNumbers
<1>p. syncAge' \in 0 .. Floor
  BY DEF TimecodeTypes, TimecodeTypeOK
<1>2. follow.on /\ src' = src /\ steady' = steady /\ src.playing
  BY <1>1, ChaseDrive
<1>3. CASE steady <= Placed
  <2>1. \A x \in 0 .. Floor : x >= steady - Placed
    BY <1>n, <1>3, LagNumbers, TimecodeNumbers
  <2>2. QED
    BY <1>2, <1>p, <2>1
<1>4. CASE steady > Placed
  <2> DEFINE aim == Aim(pub')
  <2>1. /\ Catches(pub') \/ Runs(pub') \/ Slews(pub')
        /\ aim \in 0 .. Top
        /\ aim <= Target(src.pos) /\ Target(src.pos - Lag) <= aim
        /\ Shows = video.clock
    BY <1>1, <1>2, <1>4, PlayingDrive
  <2>2. CASE Catches(pub')
    <3>1. video'.clock = aim /\ syncAge' = 0
      BY <2>2 DEF Catches, Reopens, Reopened
    <3> HIDE DEF aim
    <3>2. Ahead' = aim - Target(src.pos) /\ Behind' = Target(src.pos - Lag) - aim
      BY <1>2, <2>1, <3>1, ClockDrive
    <3>3. aim - Target(src.pos) <= 0 /\ Target(src.pos - Lag) - aim <= 0
      BY <1>n, <2>1, TimecodeNumbers
    <3>4. QED
      BY <3>1, <3>2, <3>3
  <2>3. CASE Runs(pub')
    <3>1. video' = video /\ syncAge' = syncAge
      BY <2>3 DEF Runs, Stays
    <3>2. QED
      BY <1>1, <1>2, <3>1 DEF Synced, Ahead, Behind
  <2>4. CASE Slews(pub')
    <3>1. video' \in Nudged(aim - video.clock) /\ syncAge' = syncAge
      BY <2>1, <2>4 DEF Slews
    <3> HIDE DEF aim
    <3>2. PICK to \in 0 .. Top :
             /\ video' = [video EXCEPT !.clock = to]
             /\ aim >= video.clock => to >= video.clock /\ to <= aim
             /\ aim <= video.clock => to <= video.clock /\ to >= aim
      BY <1>a, <2>1, <3>1, NudgedInside
    <3>3. video'.clock = to
      BY <1>a, <3>2 DEF TimecodeTypeOK
    <3>4. Ahead' = to - Target(src.pos) /\ Behind' = Target(src.pos - Lag) - to
      BY <1>2, <2>1, <3>3, ClockDrive
    <3>5. syncAge >= steady - Placed \/ (Ahead <= syncAge /\ Behind <= 0)
      BY <1>1, <1>2, <3>1 DEF Synced
    <3>6. Ahead <= syncAge => to - Target(src.pos) <= syncAge
      BY <1>n, <2>1, <3>2, TimecodeNumbers DEF Ahead
    <3>7. Behind <= 0 => Target(src.pos - Lag) - to <= 0
      BY <1>n, <2>1, <3>2, TimecodeNumbers DEF Behind
    <3>8. QED
      BY <1>2, <3>1, <3>4, <3>5, <3>6, <3>7
  <2>5. QED
    BY <2>1, <2>2, <2>3, <2>4
<1>5. QED
  BY <1>n, <1>3, <1>4, LagNumbers

\* Every step keeps it.
LEMMA SyncedStep ==
    ASSUME TimecodeTypes, TimecodeTypes', Waited' \in 0 .. Silence, Counts', HeldBriefly,
           PlacedSoon', Synced, [TimecodeNext]_timecodeVars
    PROVE  Synced'
<1>p. syncAge' \in 0 .. Floor
  BY DEF TimecodeTypes, TimecodeTypeOK
<1>0. CASE steady' = 0
  <2>1. \A x \in 0 .. Floor : x >= 0 - Placed
    BY LagNumbers, TimecodeNumbers
  <2>2. syncAge' >= 0 - Placed
    BY <1>p, <2>1
  <2>3. QED
    BY <1>0, <2>2 DEF Synced
<1>1. CASE Unmoved /\ steady' = steady
  BY <1>1 DEF Unmoved, Synced, Ahead, Behind
<1>2. QED
  BY <1>0, <1>1, IdleSteps, TouchSteps, SyncedPass, SyncedDrive DEF TimecodeNext

\* The clock is near the source once a reopening could no longer be put off.
Near == Ahead <= Most(HardSync, Floor) + loop.dt /\ Behind <= HardSync
Tracks == follow.on /\ src.playing => steady <= Placed + Floor + loop.dt \/ Near

\* Clock and source go on together.
LEMMA TracksPass ==
    ASSUME TimecodeTypes, TimecodeTypes', Tracks, Pass
    PROVE  Tracks'
<1>1. SUFFICES ASSUME follow'.on, src'.playing
               PROVE  steady' <= Placed + Floor + loop'.dt \/ Near'
  BY DEF Tracks
<1>n. steady \in 0 .. Settle /\ loop.dt \in 0 .. MaxLoop
  BY ChaseNumbers
<1>2. /\ src.playing /\ follow.on /\ src'.pos = src.pos + 1 /\ steady' \in 0 .. steady + 1
      /\ video'.clock = Older(video.clock, Top) /\ loop'.dt = loop.dt + 1
  BY <1>1, ChasePass
<1>4. src'.pos \in 0 .. MaxPos
  BY DEF TimecodeTypes, TimecodeTypeOK
<1>5. PICK a \in Int, b \in Int : /\ a = Ahead' /\ b = Behind'
                                  /\ a <= Ahead + 1 /\ b <= Most(Behind, 0)
  BY <1>2, <1>4, ClockPass
<1>6. steady <= Placed + Floor + loop.dt \/ Near
  BY <1>2 DEF Tracks
<1>7. Ahead \in Int /\ Behind \in Int /\ Most(HardSync, Floor) \in Nat
  BY ClockNumbers, TimecodeNumbers DEF Most
<1>8. PICK s \in 0 .. steady + 1 : s = steady'
  BY <1>2
<1> DEFINE bound == Most(HardSync, Floor)
<1>b. bound \in Nat
  BY <1>7
<1>c. Near => Ahead <= bound + loop.dt /\ Behind <= HardSync
  BY DEF Near
<1> HIDE DEF bound
<1>9. \/ s <= Placed + Floor + (loop.dt + 1)
      \/ a <= bound + (loop.dt + 1) /\ b <= HardSync
  BY <1>n, <1>5, <1>6, <1>7, <1>8, <1>b, <1>c, LagNumbers, TimecodeNumbers DEF Most
<1>10. QED
  BY <1>2, <1>5, <1>8, <1>9 DEF Near, bound

\* A turn brings the clock near the source, or a reopening that did is recent.
LEMMA TracksDrive ==
    ASSUME TimecodeTypes, TimecodeTypes', Waited' \in 0 .. Silence, Counts', HeldBriefly,
           PlacedSoon', Synced, Tracks, LoopDrive
    PROVE  Tracks'
<1> DEFINE bound == Most(HardSync, Floor)
<1>1. SUFFICES ASSUME follow'.on, src'.playing, ~(steady <= Placed + Floor + 0)
               PROVE  Ahead' <= bound + 0 /\ Behind' <= HardSync
  BY ChaseDrive DEF Tracks, Near
<1>a. TimecodeTypeOK
  BY DEF TimecodeTypes
<1>n. /\ steady \in 0 .. Settle /\ syncAge \in 0 .. Floor /\ video.clock \in 0 .. Top
      /\ loop.dt \in 0 .. MaxLoop
      /\ Target(src.pos) \in 0 .. Top /\ Target(src.pos - Lag) \in 0 .. Top
  BY ChaseNumbers, ClockNumbers
<1>b. bound \in Nat /\ HardSync <= bound /\ Floor <= bound
  BY TimecodeNumbers DEF Most
<1> HIDE DEF bound
<1>2. follow.on /\ src' = src /\ steady' = steady /\ src.playing
  BY <1>1, ChaseDrive
<1>3. steady > Placed
  BY <1>n, <1>1, LagNumbers, TimecodeNumbers
<1> DEFINE aim == Aim(pub')
<1>4. /\ Catches(pub') \/ Runs(pub') \/ Slews(pub')
      /\ aim \in 0 .. Top
      /\ aim <= Target(src.pos) /\ Target(src.pos - Lag) <= aim
      /\ Shows = video.clock /\ Off(pub') = Gap(aim, video.clock)
  BY <1>1, <1>2, <1>3, PlayingDrive DEF Off
\* Where the clock is no further from the target than a hard sync.
<1>5. ASSUME NEW to \in 0 .. Top, video'.clock = to, to - aim <= HardSync, aim - to <= HardSync
      PROVE  Ahead' <= bound + 0 /\ Behind' <= HardSync
  <2> HIDE DEF aim
  <2>1. Ahead' = to - Target(src.pos) /\ Behind' = Target(src.pos - Lag) - to
    BY <1>2, <1>4, <1>5, ClockDrive
  <2>2. to - Target(src.pos) <= bound + 0 /\ Target(src.pos - Lag) - to <= HardSync
    BY <1>n, <1>b, <1>4, <1>5, TimecodeNumbers
  <2>3. QED
    BY <2>1, <2>2
<1>6. CASE Catches(pub')
  <2>1. video'.clock = aim
    BY <1>6 DEF Catches, Reopens, Reopened
  <2> HIDE DEF aim
  <2>2. aim - aim <= HardSync
    BY <1>4, TimecodeNumbers
  <2>3. QED
    BY <1>4, <1>5, <2>1, <2>2
<1>7. CASE Runs(pub')
  <2>1. video' = video /\ (loop.dt = 0 \/ Off(pub') <= Deadband \/ (Off(pub') > HardSync /\ ~MayReopen))
    BY <1>7 DEF Runs, Stays
  <2> HIDE DEF aim
  <2>2. Ahead' = Ahead /\ Behind' = Behind
    BY <1>2, <2>1 DEF Ahead, Behind
  <2>3. CASE loop.dt = 0
    <3>1. Near
      BY <1>1, <1>2, <2>3 DEF Tracks
    <3>2. QED
      BY <2>2, <2>3, <3>1 DEF Near, bound
  <2>4. CASE Off(pub') <= Deadband
    <3>1. video.clock - aim <= HardSync /\ aim - video.clock <= HardSync
      BY <1>n, <1>4, <2>4, TimecodeNumbers DEF Gap, Most
    <3>2. QED
      BY <1>5, <1>n, <2>1, <3>1
  <2>5. CASE ~MayReopen
    <3>1. syncAge < Floor
      BY <1>n, <2>5, TimecodeNumbers DEF MayReopen
    <3>2. syncAge >= steady - Placed \/ (Ahead <= syncAge /\ Behind <= 0)
      BY <1>2, <3>1 DEF Synced
    <3>3. ~(syncAge >= steady - Placed)
      BY <1>n, <1>1, <3>1, LagNumbers, TimecodeNumbers
    <3>4. Ahead <= bound + 0 /\ Behind <= HardSync
      BY <1>n, <1>b, <3>2, <3>3, ClockNumbers, TimecodeNumbers
    <3>5. QED
      BY <2>2, <3>4
  <2>6. QED
    BY <2>1, <2>3, <2>4, <2>5
<1>8. CASE Slews(pub')
  <2>1. video' \in Nudged(aim - video.clock) /\ Off(pub') <= HardSync
    BY <1>4, <1>8 DEF Slews
  <2> HIDE DEF aim
  <2>2. PICK to \in 0 .. Top :
           /\ video' = [video EXCEPT !.clock = to]
           /\ aim >= video.clock => to >= video.clock /\ to <= aim
           /\ aim <= video.clock => to <= video.clock /\ to >= aim
    BY <1>a, <1>4, <2>1, NudgedInside
  <2>3. video'.clock = to
    BY <1>a, <2>2 DEF TimecodeTypeOK
  <2>4. to - aim <= HardSync /\ aim - to <= HardSync
    BY <1>n, <1>4, <2>1, <2>2, TimecodeNumbers DEF Gap, Most
  <2>5. QED
    BY <1>5, <2>3, <2>4
<1>9. QED
  BY <1>4, <1>6, <1>7, <1>8

\* Every step keeps it.
LEMMA TracksStep ==
    ASSUME TimecodeTypes, TimecodeTypes', Waited' \in 0 .. Silence, Counts', HeldBriefly,
           PlacedSoon', Synced, Tracks, [TimecodeNext]_timecodeVars
    PROVE  Tracks'
<1>p. loop'.dt \in 0 .. MaxLoop
  BY DEF TimecodeTypes, TimecodeTypeOK
<1>0. CASE steady' = 0
  <2>1. \A x \in 0 .. MaxLoop : 0 <= Placed + Floor + x
    BY LagNumbers, TimecodeNumbers
  <2>2. 0 <= Placed + Floor + loop'.dt
    BY <1>p, <2>1
  <2>3. QED
    BY <1>0, <2>2 DEF Tracks
<1>1. CASE Unmoved /\ steady' = steady
  BY <1>1 DEF Unmoved, Tracks, Near, Ahead, Behind
<1>2. QED
  BY <1>0, <1>1, IdleSteps, TouchSteps, TracksPass, TracksDrive DEF TimecodeNext

\* Then the picture is where the source is.
LEMMA TrackedAfter ==
    ASSUME Settle > Placed + Floor + MaxLoop, TimecodeTypes, HeldBriefly, Tracks
    PROVE  FollowKeepsUp
<1>1. SUFFICES ASSUME follow.on, src.playing, steady >= Settle
               PROVE  Gap(Current(follow, video), Target(src.pos)) <= Tolerance
  BY DEF FollowKeepsUp
<1>n. /\ steady \in 0 .. Settle /\ video.clock \in 0 .. Top /\ loop.dt \in 0 .. MaxLoop
      /\ Target(src.pos) \in 0 .. Top /\ Target(src.pos - Lag) \in 0 .. Top
      /\ Target(src.pos) <= Target(src.pos - Lag) + Lag
  BY ChaseNumbers, ClockNumbers
<1>2. follow.hold = NoHold
  <2>1. ASSUME follow.hold # NoHold PROVE FALSE
    <3>1. steady <= Awake + loop.dt
      BY <1>1, <2>1 DEF HeldBriefly
    <3>2. QED
      BY <1>n, <1>1, <3>1, LagNumbers, TimecodeNumbers
  <2>2. QED
    BY <2>1
<1>3. Near
  <2>1. ~(steady <= Placed + Floor + loop.dt)
    BY <1>n, <1>1, LagNumbers, TimecodeNumbers
  <2>2. QED
    BY <1>1, <2>1 DEF Tracks
<1> DEFINE bound == Most(HardSync, Floor)
           p == Target(src.pos)
           q == Target(src.pos - Lag)
<1>b. bound \in Nat /\ HardSync <= bound
  BY TimecodeNumbers DEF Most
<1>4. video.clock - p <= bound + loop.dt /\ q - video.clock <= HardSync
  BY <1>3 DEF Near, Ahead, Behind
<1>5. Tolerance = Lag + bound /\ Lag = 1 + 2 * MaxLoop
  BY DEF Tolerance, Lag
<1>6. p \in 0 .. Top /\ q \in 0 .. Top /\ p <= q + Lag
  BY <1>n
<1> HIDE DEF bound, p, q
<1>7. video.clock - p <= Lag + bound /\ p - video.clock <= Lag + bound
  BY <1>n, <1>b, <1>4, <1>5, <1>6, LagNumbers, TimecodeNumbers
<1>8. Gap(video.clock, p) <= Lag + bound
  BY <1>n, <1>6, <1>7, TimecodeNumbers DEF Gap, Most
<1>9. QED
  BY <1>2, <1>5, <1>8 DEF Current, p

\* A source that is left alone for long enough is followed, for both receivers and all
\* durations: the picture is where the source is, up to a hard sync and what receiver
\* and loop cost, whatever was touched, lost or misread before, when the timeouts of
\* the receivers outlast what faults may cost and the durations leave room for turns
\* (drive_mtc_follow, accept_frame, feed_quarter_frame).
THEOREM KeepsUpCorrect ==
    ASSUME Silence <= Timeout, Silence + 3 * MaxLoop <= Timeout + HardSync,
           Settle > 2 * Silence + Floor + 4 * MaxLoop + 1
    PROVE  TimecodeSpec => []FollowKeepsUp
<1> DEFINE Types == TimecodeTypes /\ Waited \in 0 .. Silence
           Hearing == Unheard /\ Recent /\ Counts
           Chasing == HeldBriefly /\ NotedSoon /\ PlacedSoon /\ Synced /\ Tracks
<1>1. Settle > Placed + Floor + MaxLoop
  BY LagNumbers, TimecodeNumbers DEF Placed
<1>2. TimecodeTypes => Types
  BY WaitedInside
<1>3. TimecodeInit => Hearing /\ Chasing
  <2> SUFFICES ASSUME TimecodeInit PROVE Hearing /\ Chasing
    OBVIOUS
  <2>1. Unheard
    <3>1. 0 <= 0 + MaxLoop /\ Timeout + 1 >= Least(0 - 2 * MaxLoop, Timeout + 1)
          /\ 0 <= Timeout + 3 * MaxLoop + 0
      BY TimecodeNumbers DEF Least
    <3>2. QED
      BY <3>1 DEF TimecodeInit, Unheard
  <2>2. ~src.playing /\ ~follow.on /\ ~loop.expired
    BY DEF TimecodeInit, NoFollow
  <2>3. QED
    BY <2>1, <2>2 DEF Recent, Counts, HeldBriefly, NotedSoon, PlacedSoon, Synced, Tracks
<1>4. Types /\ Types' /\ Hearing /\ [TimecodeNext]_timecodeVars => Hearing'
  BY QuietStep, RecentStep, CountsStep
<1>5. Types /\ Types' /\ Hearing /\ Hearing' /\ Chasing /\ [TimecodeNext]_timecodeVars
      => Chasing'
  <2> SUFFICES ASSUME Types, Types', Hearing, Hearing', Chasing, [TimecodeNext]_timecodeVars
               PROVE  Chasing'
    OBVIOUS
  <2>1. HeldBriefly' /\ NotedSoon' /\ PlacedSoon'
    BY HeldBrieflyStep, NotedSoonStep, PlacedSoonStep
  <2>2. QED
    BY <2>1, SyncedStep, TracksStep
<1>6. Types /\ Chasing => FollowKeepsUp
  BY <1>1, TrackedAfter
<1>7. TimecodeSpec => []TimecodeTypes
  BY TimecodeTypesInit, TimecodeTypesStep, PTL DEF TimecodeSpec
<1> HIDE DEF Types, Hearing, Chasing
<1>8. QED
  BY <1>2, <1>3, <1>4, <1>5, <1>6, <1>7, PTL DEF TimecodeSpec
=============================================================================
