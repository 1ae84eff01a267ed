----------------------------- MODULE Mixer_proofs -----------------------------
(***************************************************************************)
(* Proofs about Mixer: its invariants hold for every number of inputs,     *)
(* levels, blocks and operations.                                          *)
(***************************************************************************)
EXTENDS Mixer, TLAPS

\* A new mixer has no input and no operation.
LEMMA InitInv == Init => IndInv
<1> SUFFICES ASSUME Init PROVE IndInv
  OBVIOUS
<1> USE MixerAssumption DEF Init, Idle, OpsOfInput
<1>1. TypeInv
  <2>1. input \in [Inputs -> MixerInput]
    BY DEF MixerInput, Endless
  <2>2. main \in MainLocals
    BY DEF MainLocals
  <2>3. cb \in CbLocals
    BY DEF CbLocals
  <2>4. QED
    <3>1. cb.gen <= gen /\ (cb.at \in {"idle", "list", "input"} <=> cb.i = NoInput)
      OBVIOUS
    <3>2. cb.todo \subseteq cb.cache /\ cb.i = NoInput
      OBVIOUS
    <3>3. TypeOK
      BY <2>1, <3>1, <3>2 DEF TypeOK
    <3>4. QED
      BY <2>2, <2>3, <3>3 DEF TypeInv
<1>2. ListInv /\ RaceInv /\ OverInv /\ LevelInv
  BY DEF ListInv, CacheIsCurrent, RaceInv, OverInv, LevelInv
<1>3. QED
  BY <1>1, <1>2 DEF IndInv

\* What the types say, for the steps below.
Facts ==
    /\ input \in [Inputs -> MixerInput] /\ main \in MainLocals /\ cb \in CbLocals
    /\ list \subseteq Inputs /\ snapshot \subseteq Inputs /\ gen \in Nat
    /\ dirty \in BOOLEAN /\ locked \in BOOLEAN
    /\ ops \in Nat /\ wanted \in [Inputs -> Levels] /\ raced \subseteq Inputs
    /\ main.op \in OpsOfInput <=> main.i \in Inputs
    /\ main.i \notin Inputs => main.i = NoInput
    /\ main.op = "none" => main = Idle
    /\ main.level \in Levels /\ main.frames \in Nat /\ main.step \in Nat
    /\ cb.at \notin {"idle", "list", "input"} <=> cb.i \in Inputs
    /\ cb.i \notin Inputs => cb.i = NoInput
    /\ cb.cache \subseteq Inputs /\ cb.todo \subseteq cb.cache /\ cb.gen \in Int
    /\ cb.gen <= gen /\ cb.seen \in Nat /\ cb.target \in Levels /\ cb.remaining \in Nat
    /\ NoInput \notin Inputs

\* Switching an input on or off keeps its type.
LEMMA SwitchedType ==
    ASSUME input \in [Inputs -> MixerInput], NEW i \in Inputs, NEW b \in BOOLEAN
    PROVE  [input EXCEPT ![i].active = b] \in [Inputs -> MixerInput]
BY DEF MixerInput

\* Marking an input as finished or not keeps its type.
LEMMA FinishedType ==
    ASSUME input \in [Inputs -> MixerInput], NEW i \in Inputs, NEW b \in BOOLEAN
    PROVE  [input EXCEPT ![i].finished = b] \in [Inputs -> MixerInput]
BY DEF MixerInput

\* Switching the fade of an input on or off keeps its type.
LEMMA FadingType ==
    ASSUME input \in [Inputs -> MixerInput], NEW i \in Inputs, NEW b \in BOOLEAN
    PROVE  [input EXCEPT ![i].fading = b] \in [Inputs -> MixerInput]
BY DEF MixerInput

\* The types of a state that satisfies the invariant.
LEMMA StateFacts == IndInv => Facts
<1> SUFFICES ASSUME IndInv PROVE Facts
  OBVIOUS
<1>1. main \in MainLocals /\ cb \in CbLocals
  BY DEF IndInv, TypeInv
<1>2. /\ main.i \in Inputs \union {NoInput}
      /\ main.level \in Levels /\ main.frames \in Nat /\ main.step \in Nat
  BY <1>1 DEF MainLocals
<1>3. /\ cb.i \in Inputs \union {NoInput} /\ cb.cache \subseteq Inputs /\ cb.gen \in Int
      /\ cb.seen \in Nat /\ cb.target \in Levels /\ cb.remaining \in Nat
  BY <1>1 DEF CbLocals
<1>4. QED
  BY <1>1, <1>2, <1>3, MixerAssumption DEF Facts, IndInv, TypeInv, TypeOK

\* An input that is added is known to nobody yet.
LEMMA AddInputInv == IndInv /\ AddInput => IndInv'
<1> SUFFICES ASSUME IndInv, AddInput PROVE IndInv'
  OBVIOUS
<1> USE MixerAssumption
<1>0. Facts
  BY StateFacts
<1> USE DEF AddInput, lists, Idle, MainFree, OpsOfInput
<1>1. TypeInv'
  <2>1. input' \in [Inputs -> MixerInput]
    BY <1>0 DEF Facts, MixerInput
  <2>2. main' \in MainLocals
    BY <1>0 DEF Facts, MainLocals
  <2>3. cb' \in CbLocals
    BY <1>0 DEF Facts, CbLocals
  <2>4. QED
    BY <1>0, <2>1, <2>2, <2>3 DEF Facts, TypeInv, TypeOK
<1>2. ListInv'
  BY <1>0 DEF Facts, IndInv, ListInv, CacheIsCurrent
<1>3. RaceInv'
  BY <1>0 DEF Facts, IndInv, RaceInv
<1>4. OverInv'
  BY <1>0 DEF Facts, IndInv, OverInv, RaceInv, MixerInput
<1>5. LevelInv'
  BY <1>0 DEF Facts, IndInv, LevelInv, RaceInv, MixerInput
<1>6. QED
  BY <1>1, <1>2, <1>3, <1>4, <1>5 DEF IndInv

\* stop_all begins with the inputs on the list.
LEMMA StopBeginsInv == IndInv /\ StopBegins => IndInv'
<1> SUFFICES ASSUME IndInv, StopBegins PROVE IndInv'
  OBVIOUS
<1> USE MixerAssumption
<1>0. Facts
  BY StateFacts
<1> USE DEF StopBegins, lists, Idle, MainFree, OpsOfInput
<1>1. TypeInv'
  <2>1. input' \in [Inputs -> MixerInput]
    BY <1>0 DEF Facts, MixerInput
  <2>2. main' \in MainLocals
    BY <1>0 DEF Facts, MainLocals
  <2>3. cb' \in CbLocals
    BY <1>0 DEF Facts, CbLocals
  <2>4. QED
    BY <1>0, <2>1, <2>2, <2>3 DEF Facts, TypeInv, TypeOK
<1>2. ListInv'
  BY <1>0 DEF Facts, IndInv, ListInv, CacheIsCurrent
<1>3. RaceInv'
  BY <1>0 DEF Facts, IndInv, RaceInv
<1>4. OverInv'
  BY <1>0 DEF Facts, IndInv, OverInv, RaceInv, MixerInput
<1>5. LevelInv'
  BY <1>0 DEF Facts, IndInv, LevelInv, RaceInv, MixerInput
<1>6. QED
  BY <1>1, <1>2, <1>3, <1>4, <1>5 DEF IndInv

\* stop_all switches one input off.
LEMMA StopDeactivatesInv == IndInv /\ StopDeactivates => IndInv'
<1> SUFFICES ASSUME IndInv, StopDeactivates PROVE IndInv'
  OBVIOUS
<1> USE MixerAssumption
<1>0. Facts
  BY StateFacts
<1> USE DEF StopDeactivates, lists, Idle, MainFree, OpsOfInput
<1>1. TypeInv'
  <2>1. input' \in [Inputs -> MixerInput]
    <3>1. PICK i \in list : input' = [input EXCEPT ![i].active = FALSE]
      OBVIOUS
    <3>2. i \in Inputs
      BY <1>0 DEF Facts
    <3>3. QED
      BY <1>0, <3>1, <3>2, SwitchedType DEF Facts
  <2>2. main' \in MainLocals
    BY <1>0 DEF Facts, MainLocals
  <2>3. cb' \in CbLocals
    BY <1>0 DEF Facts, CbLocals
  <2>4. QED
    BY <1>0, <2>1, <2>2, <2>3 DEF Facts, TypeInv, TypeOK
<1>2. ListInv'
  BY <1>0 DEF Facts, IndInv, ListInv, CacheIsCurrent
<1>3. RaceInv'
  BY <1>0 DEF Facts, IndInv, RaceInv
<1>4. OverInv'
  <2>1. PICK i \in list : input' = [input EXCEPT ![i].active = FALSE]
    OBVIOUS
  <2>2. i \in held
    BY <1>0, <2>1 DEF Facts, IndInv, OverInv
  <2>3. QED
    BY <1>0, <2>1, <2>2 DEF Facts, IndInv, OverInv, RaceInv, MixerInput
<1>5. LevelInv'
  BY <1>0 DEF Facts, IndInv, LevelInv, RaceInv, MixerInput
<1>6. QED
  BY <1>1, <1>2, <1>3, <1>4, <1>5 DEF IndInv

\* stop_all leaves the list when nothing on it is active.
LEMMA StopClearsInv == IndInv /\ StopClears => IndInv'
<1> SUFFICES ASSUME IndInv, StopClears PROVE IndInv'
  OBVIOUS
<1> USE MixerAssumption
<1>0. Facts
  BY StateFacts
<1> USE DEF StopClears, lists, Idle, MainFree, OpsOfInput
<1>1. TypeInv'
  <2>1. input' \in [Inputs -> MixerInput]
    BY <1>0 DEF Facts, MixerInput
  <2>2. main' \in MainLocals
    BY <1>0 DEF Facts, MainLocals
  <2>3. cb' \in CbLocals
    BY <1>0 DEF Facts, CbLocals
  <2>4. QED
    BY <1>0, <2>1, <2>2, <2>3 DEF Facts, TypeInv, TypeOK
<1>2. ListInv'
  BY <1>0 DEF Facts, IndInv, ListInv, CacheIsCurrent
<1>3. RaceInv'
  BY <1>0 DEF Facts, IndInv, RaceInv
<1>4. OverInv'
  BY <1>0 DEF Facts, IndInv, OverInv, RaceInv, MixerInput
<1>5. LevelInv'
  BY <1>0 DEF Facts, IndInv, LevelInv, RaceInv, MixerInput
<1>6. QED
  BY <1>1, <1>2, <1>3, <1>4, <1>5 DEF IndInv

\* The copy of the list is made under the lock.
LEMMA RefreshBeginsInv == IndInv /\ RefreshBegins => IndInv'
<1> SUFFICES ASSUME IndInv, RefreshBegins PROVE IndInv'
  OBVIOUS
<1> USE MixerAssumption
<1>0. Facts
  BY StateFacts
<1> USE DEF RefreshBegins, lists, Idle, MainFree, OpsOfInput
<1>1. TypeInv'
  <2>1. input' \in [Inputs -> MixerInput]
    BY <1>0 DEF Facts, MixerInput
  <2>2. main' \in MainLocals
    BY <1>0 DEF Facts, MainLocals
  <2>3. cb' \in CbLocals
    BY <1>0 DEF Facts, CbLocals
  <2>4. QED
    BY <1>0, <2>1, <2>2, <2>3 DEF Facts, TypeInv, TypeOK
<1>2. ListInv'
  BY <1>0 DEF Facts, IndInv, ListInv, CacheIsCurrent
<1>3. RaceInv'
  BY <1>0 DEF Facts, IndInv, RaceInv
<1>4. OverInv'
  BY <1>0 DEF Facts, IndInv, OverInv, RaceInv, MixerInput
<1>5. LevelInv'
  BY <1>0 DEF Facts, IndInv, LevelInv, RaceInv, MixerInput
<1>6. QED
  BY <1>1, <1>2, <1>3, <1>4, <1>5 DEF IndInv

\* The generation is new when the lock is released.
LEMMA RefreshEndsInv == IndInv /\ RefreshEnds => IndInv'
<1> SUFFICES ASSUME IndInv, RefreshEnds PROVE IndInv'
  OBVIOUS
<1> USE MixerAssumption
<1>0. Facts
  BY StateFacts
<1> USE DEF RefreshEnds, lists, Idle, MainFree, OpsOfInput
<1>1. TypeInv'
  <2>1. input' \in [Inputs -> MixerInput]
    BY <1>0 DEF Facts, MixerInput
  <2>2. main' \in MainLocals
    BY <1>0 DEF Facts, MainLocals
  <2>3. cb' \in CbLocals
    BY <1>0 DEF Facts, CbLocals
  <2>4. QED
    <3>1. gen' \in Nat /\ cb.gen <= gen'
      BY <1>0 DEF Facts
    <3>2. QED
      BY <1>0, <2>1, <2>2, <2>3, <3>1 DEF Facts, TypeInv, TypeOK
<1>2. ListInv'
  BY <1>0 DEF Facts, IndInv, ListInv, CacheIsCurrent
<1>3. RaceInv'
  BY <1>0 DEF Facts, IndInv, RaceInv
<1>4. OverInv'
  BY <1>0 DEF Facts, IndInv, OverInv, RaceInv, MixerInput
<1>5. LevelInv'
  BY <1>0 DEF Facts, IndInv, LevelInv, RaceInv, MixerInput
<1>6. QED
  BY <1>1, <1>2, <1>3, <1>4, <1>5 DEF IndInv

\* A pause or a resume changes one input.
LEMMA SetActiveInv == IndInv /\ SetActive => IndInv'
<1> SUFFICES ASSUME IndInv, SetActive PROVE IndInv'
  OBVIOUS
<1> USE MixerAssumption
<1>0. Facts
  BY StateFacts
<1> USE DEF SetActive, Rendering, lists, Idle, MainFree, OpsOfInput
<1>1. TypeInv'
  <2>1. input' \in [Inputs -> MixerInput]
    <3>1. PICK i \in list : \/ input' = [input EXCEPT ![i].active = FALSE]
                            \/ input' = [input EXCEPT ![i].active = TRUE]
      OBVIOUS
    <3>2. i \in Inputs /\ input \in [Inputs -> MixerInput]
      BY <1>0 DEF Facts
    <3>3. [input EXCEPT ![i].active = FALSE] \in [Inputs -> MixerInput]
      BY <3>2, SwitchedType
    <3>4. [input EXCEPT ![i].active = TRUE] \in [Inputs -> MixerInput]
      BY <3>2, SwitchedType
    <3>5. QED
      BY <3>1, <3>3, <3>4
  <2>2. main' \in MainLocals
    BY <1>0 DEF Facts, MainLocals
  <2>3. cb' \in CbLocals
    BY <1>0 DEF Facts, CbLocals
  <2>4. QED
    BY <1>0, <2>1, <2>2, <2>3 DEF Facts, TypeInv, TypeOK
<1>2. ListInv'
  BY <1>0 DEF Facts, IndInv, ListInv, CacheIsCurrent
<1>3. RaceInv'
  BY <1>0 DEF Facts, IndInv, RaceInv
<1>4. OverInv'
  BY <1>0 DEF Facts, IndInv, OverInv, RaceInv, MixerInput
<1>5. LevelInv'
  BY <1>0 DEF Facts, IndInv, LevelInv, RaceInv, MixerInput
<1>6. QED
  BY <1>1, <1>2, <1>3, <1>4, <1>5 DEF IndInv

\* A fade is asked for.
LEMMA FadeBeginsInv == IndInv /\ FadeBegins => IndInv'
<1> SUFFICES ASSUME IndInv, FadeBegins PROVE IndInv'
  OBVIOUS
<1> USE MixerAssumption
<1>0. Facts
  BY StateFacts
<1> USE DEF FadeBegins, Begins, NotesRace, Rendering, lists, Idle, MainFree, OpsOfInput
<1>1. TypeInv'
  <2>1. input' \in [Inputs -> MixerInput]
    BY <1>0 DEF Facts, MixerInput
  <2>2. main' \in MainLocals
    BY <1>0 DEF Facts, MainLocals
  <2>3. cb' \in CbLocals
    BY <1>0 DEF Facts, CbLocals
  <2>4. QED
    BY <1>0, <2>1, <2>2, <2>3 DEF Facts, TypeInv, TypeOK
<1>2. ListInv'
  BY <1>0 DEF Facts, IndInv, ListInv, CacheIsCurrent
<1>3. RaceInv'
  BY <1>0 DEF Facts, IndInv, RaceInv
<1>4. OverInv'
  BY <1>0 DEF Facts, IndInv, OverInv, RaceInv, MixerInput
<1>5. LevelInv'
  BY <1>0 DEF Facts, IndInv, LevelInv, RaceInv, MixerInput
<1>6. QED
  BY <1>1, <1>2, <1>3, <1>4, <1>5 DEF IndInv

\* A fade stores the level it starts from.
LEMMA FadeSetsStartInv == IndInv /\ FadeSetsStart => IndInv'
<1> SUFFICES ASSUME IndInv, FadeSetsStart PROVE IndInv'
  OBVIOUS
<1> USE MixerAssumption
<1>0. Facts
  BY StateFacts
<1> USE DEF FadeSetsStart, Stores, Follows, Keeps, lists, Idle, MainFree, OpsOfInput
<1>1. TypeInv'
  <2>1. input' \in [Inputs -> MixerInput]
    BY <1>0 DEF Facts, MixerInput
  <2>2. main' \in MainLocals
    BY <1>0 DEF Facts, MainLocals
  <2>3. cb' \in CbLocals
    BY <1>0 DEF Facts, CbLocals
  <2>4. QED
    BY <1>0, <2>1, <2>2, <2>3 DEF Facts, TypeInv, TypeOK
<1>2. ListInv'
  BY <1>0 DEF Facts, IndInv, ListInv, CacheIsCurrent
<1>3. RaceInv'
  BY <1>0 DEF Facts, IndInv, RaceInv
<1>4. OverInv'
  BY <1>0 DEF Facts, IndInv, OverInv, RaceInv, MixerInput
<1>5. LevelInv'
  BY <1>0 DEF Facts, IndInv, LevelInv, RaceInv, MixerInput
<1>6. QED
  BY <1>1, <1>2, <1>3, <1>4, <1>5 DEF IndInv

\* A fade stores its target before it is switched on.
LEMMA FadeSetsTargetInv == IndInv /\ FadeSetsTarget => IndInv'
<1> SUFFICES ASSUME IndInv, FadeSetsTarget PROVE IndInv'
  OBVIOUS
<1> USE MixerAssumption
<1>0. Facts
  BY StateFacts
<1> USE DEF FadeSetsTarget, Stores, Follows, Keeps, lists, Idle, MainFree, OpsOfInput
<1>1. TypeInv'
  <2>1. input' \in [Inputs -> MixerInput]
    BY <1>0 DEF Facts, MixerInput
  <2>2. main' \in MainLocals
    BY <1>0 DEF Facts, MainLocals
  <2>3. cb' \in CbLocals
    BY <1>0 DEF Facts, CbLocals
  <2>4. QED
    BY <1>0, <2>1, <2>2, <2>3 DEF Facts, TypeInv, TypeOK
<1>2. ListInv'
  BY <1>0 DEF Facts, IndInv, ListInv, CacheIsCurrent
<1>3. RaceInv'
  BY <1>0 DEF Facts, IndInv, RaceInv
<1>4. OverInv'
  BY <1>0 DEF Facts, IndInv, OverInv, RaceInv, MixerInput
<1>5. LevelInv'
  BY <1>0 DEF Facts, IndInv, LevelInv, RaceInv, MixerInput
<1>6. QED
  BY <1>1, <1>2, <1>3, <1>4, <1>5 DEF IndInv

\* A fade stores its length.
LEMMA FadeSetsRemainingInv == IndInv /\ FadeSetsRemaining => IndInv'
<1> SUFFICES ASSUME IndInv, FadeSetsRemaining PROVE IndInv'
  OBVIOUS
<1> USE MixerAssumption
<1>0. Facts
  BY StateFacts
<1> USE DEF FadeSetsRemaining, Stores, Follows, Keeps, lists, Idle, MainFree, OpsOfInput
<1>1. TypeInv'
  <2>1. input' \in [Inputs -> MixerInput]
    BY <1>0 DEF Facts, MixerInput
  <2>2. main' \in MainLocals
    BY <1>0 DEF Facts, MainLocals
  <2>3. cb' \in CbLocals
    BY <1>0 DEF Facts, CbLocals
  <2>4. QED
    BY <1>0, <2>1, <2>2, <2>3 DEF Facts, TypeInv, TypeOK
<1>2. ListInv'
  BY <1>0 DEF Facts, IndInv, ListInv, CacheIsCurrent
<1>3. RaceInv'
  BY <1>0 DEF Facts, IndInv, RaceInv
<1>4. OverInv'
  BY <1>0 DEF Facts, IndInv, OverInv, RaceInv, MixerInput
<1>5. LevelInv'
  BY <1>0 DEF Facts, IndInv, LevelInv, RaceInv, MixerInput
<1>6. QED
  BY <1>1, <1>2, <1>3, <1>4, <1>5 DEF IndInv

\* A fade is switched on with its target set.
LEMMA FadeIsOnInv == IndInv /\ FadeIsOn => IndInv'
<1> SUFFICES ASSUME IndInv, FadeIsOn PROVE IndInv'
  OBVIOUS
<1> USE MixerAssumption
<1>0. Facts
  BY StateFacts
<1> USE DEF FadeIsOn, StoresLast, Follows, Keeps, lists, Idle, MainFree, OpsOfInput
<1>1. TypeInv'
  <2>1. input' \in [Inputs -> MixerInput]
    <3>1. main.i \in Inputs /\ input \in [Inputs -> MixerInput]
      BY <1>0 DEF Facts
    <3>2. [input EXCEPT ![main.i].fading = TRUE] \in [Inputs -> MixerInput]
      BY <3>1, FadingType
    <3>3. input' = [input EXCEPT ![main.i].fading = TRUE]
      OBVIOUS
    <3>4. QED
      BY <3>2, <3>3
  <2>2. main' \in MainLocals
    BY <1>0 DEF Facts, MainLocals
  <2>3. cb' \in CbLocals
    BY <1>0 DEF Facts, CbLocals
  <2>4. QED
    BY <1>0, <2>1, <2>2, <2>3 DEF Facts, TypeInv, TypeOK
<1>2. ListInv'
  BY <1>0 DEF Facts, IndInv, ListInv, CacheIsCurrent
<1>3. RaceInv'
  BY <1>0 DEF Facts, IndInv, RaceInv
<1>4. OverInv'
  BY <1>0 DEF Facts, IndInv, OverInv, RaceInv, MixerInput
<1>5. LevelInv'
  BY <1>0 DEF Facts, IndInv, LevelInv, RaceInv, MixerInput
<1>6. QED
  BY <1>1, <1>2, <1>3, <1>4, <1>5 DEF IndInv

\* A fade is called off between two blocks.
LEMMA CancelBeginsInv == IndInv /\ CancelBegins => IndInv'
<1> SUFFICES ASSUME IndInv, CancelBegins PROVE IndInv'
  OBVIOUS
<1> USE MixerAssumption
<1>0. Facts
  BY StateFacts
<1> USE DEF CancelBegins, Begins, Rendering, lists, Idle, MainFree, OpsOfInput
<1>1. TypeInv'
  <2>1. input' \in [Inputs -> MixerInput]
    BY <1>0 DEF Facts, MixerInput
  <2>2. main' \in MainLocals
    BY <1>0 DEF Facts, MainLocals
  <2>3. cb' \in CbLocals
    BY <1>0 DEF Facts, CbLocals
  <2>4. QED
    <3>1. wanted' \in [Inputs -> Levels]
      BY <1>0 DEF Facts, MixerInput
    <3>2. main'.op = "cancel" /\ main'.i \in Inputs
      BY <1>0 DEF Facts
    <3>3. ops' \in Nat
      BY <1>0 DEF Facts
    <3>4. QED
      BY <1>0, <2>1, <2>2, <2>3, <3>1, <3>2, <3>3 DEF Facts, TypeInv, TypeOK
<1>2. ListInv'
  BY <1>0 DEF Facts, IndInv, ListInv, CacheIsCurrent
<1>3. RaceInv'
  BY <1>0 DEF Facts, IndInv, RaceInv
<1>4. OverInv'
  BY <1>0 DEF Facts, IndInv, OverInv, RaceInv, MixerInput
<1>5. LevelInv'
  BY <1>0 DEF Facts, IndInv, LevelInv, RaceInv, MixerInput
<1>6. QED
  BY <1>1, <1>2, <1>3, <1>4, <1>5 DEF IndInv

\* The level is the one from before the fade.
LEMMA CancelEndsInv == IndInv /\ CancelEnds => IndInv'
<1> SUFFICES ASSUME IndInv, CancelEnds PROVE IndInv'
  OBVIOUS
<1> USE MixerAssumption
<1>0. Facts
  BY StateFacts
<1> USE DEF CancelEnds, Follows, Keeps, lists, Idle, MainFree, OpsOfInput
<1>1. TypeInv'
  <2>1. input' \in [Inputs -> MixerInput]
    <3>1. main.i \in Inputs
      BY <1>0 DEF Facts
    <3>2. input[main.i] \in MixerInput
      BY <1>0, <3>1 DEF Facts
    <3>3. [input[main.i] EXCEPT !.fading = FALSE, !.remaining = 0, !.volume = input[main.i].start]
             \in MixerInput
      BY <3>2 DEF MixerInput
    <3>4. input' = [input EXCEPT ![main.i] =
             [input[main.i] EXCEPT !.fading = FALSE, !.remaining = 0,
                                   !.volume = input[main.i].start]]
      BY <1>0, <3>1 DEF Facts
    <3>5. QED
      BY <1>0, <3>1, <3>3, <3>4 DEF Facts
  <2>2. main' \in MainLocals
    BY <1>0 DEF Facts, MainLocals
  <2>3. cb' \in CbLocals
    BY <1>0 DEF Facts, CbLocals
  <2>4. QED
    BY <1>0, <2>1, <2>2, <2>3 DEF Facts, TypeInv, TypeOK
<1>2. ListInv'
  BY <1>0 DEF Facts, IndInv, ListInv, CacheIsCurrent
<1>3. RaceInv'
  BY <1>0 DEF Facts, IndInv, RaceInv
<1>4. OverInv'
  BY <1>0 DEF Facts, IndInv, OverInv, RaceInv, MixerInput
<1>5. LevelInv'
  BY <1>0 DEF Facts, IndInv, LevelInv, RaceInv, MixerInput
<1>6. QED
  BY <1>1, <1>2, <1>3, <1>4, <1>5 DEF IndInv

\* A level is asked for.
LEMMA VolumeBeginsInv == IndInv /\ VolumeBegins => IndInv'
<1> SUFFICES ASSUME IndInv, VolumeBegins PROVE IndInv'
  OBVIOUS
<1> USE MixerAssumption
<1>0. Facts
  BY StateFacts
<1> USE DEF VolumeBegins, Begins, NotesRace, Rendering, lists, Idle, MainFree, OpsOfInput
<1>1. TypeInv'
  <2>1. input' \in [Inputs -> MixerInput]
    BY <1>0 DEF Facts, MixerInput
  <2>2. main' \in MainLocals
    BY <1>0 DEF Facts, MainLocals
  <2>3. cb' \in CbLocals
    BY <1>0 DEF Facts, CbLocals
  <2>4. QED
    BY <1>0, <2>1, <2>2, <2>3 DEF Facts, TypeInv, TypeOK
<1>2. ListInv'
  BY <1>0 DEF Facts, IndInv, ListInv, CacheIsCurrent
<1>3. RaceInv'
  BY <1>0 DEF Facts, IndInv, RaceInv
<1>4. OverInv'
  BY <1>0 DEF Facts, IndInv, OverInv, RaceInv, MixerInput
<1>5. LevelInv'
  BY <1>0 DEF Facts, IndInv, LevelInv, RaceInv, MixerInput
<1>6. QED
  BY <1>1, <1>2, <1>3, <1>4, <1>5 DEF IndInv

\* A level is set.
LEMMA VolumeIsSetInv == IndInv /\ VolumeIsSet => IndInv'
<1> SUFFICES ASSUME IndInv, VolumeIsSet PROVE IndInv'
  OBVIOUS
<1> USE MixerAssumption
<1>0. Facts
  BY StateFacts
<1> USE DEF VolumeIsSet, StoresLast, Follows, Keeps, lists, Idle, MainFree, OpsOfInput
<1>1. TypeInv'
  <2>1. input' \in [Inputs -> MixerInput]
    BY <1>0 DEF Facts, MixerInput
  <2>2. main' \in MainLocals
    BY <1>0 DEF Facts, MainLocals
  <2>3. cb' \in CbLocals
    BY <1>0 DEF Facts, CbLocals
  <2>4. QED
    BY <1>0, <2>1, <2>2, <2>3 DEF Facts, TypeInv, TypeOK
<1>2. ListInv'
  BY <1>0 DEF Facts, IndInv, ListInv, CacheIsCurrent
<1>3. RaceInv'
  BY <1>0 DEF Facts, IndInv, RaceInv
<1>4. OverInv'
  BY <1>0 DEF Facts, IndInv, OverInv, RaceInv, MixerInput
<1>5. LevelInv'
  BY <1>0 DEF Facts, IndInv, LevelInv, RaceInv, MixerInput
<1>6. QED
  BY <1>1, <1>2, <1>3, <1>4, <1>5 DEF IndInv

\* A live edit begins.
LEMMA LiveBeginsInv == IndInv /\ LiveBegins => IndInv'
<1> SUFFICES ASSUME IndInv, LiveBegins PROVE IndInv'
  OBVIOUS
<1> USE MixerAssumption
<1>0. Facts
  BY StateFacts
<1> USE DEF LiveBegins, Begins, Rendering, lists, Idle, MainFree, OpsOfInput
<1>1. TypeInv'
  <2>1. input' \in [Inputs -> MixerInput]
    BY <1>0 DEF Facts, MixerInput
  <2>2. main' \in MainLocals
    BY <1>0 DEF Facts, MainLocals
  <2>3. cb' \in CbLocals
    BY <1>0 DEF Facts, CbLocals
  <2>4. QED
    BY <1>0, <2>1, <2>2, <2>3 DEF Facts, TypeInv, TypeOK
<1>2. ListInv'
  BY <1>0 DEF Facts, IndInv, ListInv, CacheIsCurrent
<1>3. RaceInv'
  BY <1>0 DEF Facts, IndInv, RaceInv
<1>4. OverInv'
  BY <1>0 DEF Facts, IndInv, OverInv, RaceInv, MixerInput
<1>5. LevelInv'
  BY <1>0 DEF Facts, IndInv, LevelInv, RaceInv, MixerInput
<1>6. QED
  BY <1>1, <1>2, <1>3, <1>4, <1>5 DEF IndInv

\* A live edit sets the level.
LEMMA LiveIsSetInv == IndInv /\ LiveIsSet => IndInv'
<1> SUFFICES ASSUME IndInv, LiveIsSet PROVE IndInv'
  OBVIOUS
<1> USE MixerAssumption
<1>0. Facts
  BY StateFacts
<1> USE DEF LiveIsSet, Stores, Follows, Keeps, lists, Idle, MainFree, OpsOfInput
<1>1. TypeInv'
  <2>1. input' \in [Inputs -> MixerInput]
    BY <1>0 DEF Facts, MixerInput
  <2>2. main' \in MainLocals
    BY <1>0 DEF Facts, MainLocals
  <2>3. cb' \in CbLocals
    BY <1>0 DEF Facts, CbLocals
  <2>4. QED
    BY <1>0, <2>1, <2>2, <2>3 DEF Facts, TypeInv, TypeOK
<1>2. ListInv'
  BY <1>0 DEF Facts, IndInv, ListInv, CacheIsCurrent
<1>3. RaceInv'
  BY <1>0 DEF Facts, IndInv, RaceInv
<1>4. OverInv'
  BY <1>0 DEF Facts, IndInv, OverInv, RaceInv, MixerInput
<1>5. LevelInv'
  BY <1>0 DEF Facts, IndInv, LevelInv, RaceInv, MixerInput
<1>6. QED
  BY <1>1, <1>2, <1>3, <1>4, <1>5 DEF IndInv

\* A live edit looks for a fade.
LEMMA LiveMeetsFadeInv == IndInv /\ LiveMeetsFade => IndInv'
<1> SUFFICES ASSUME IndInv, LiveMeetsFade PROVE IndInv'
  OBVIOUS
<1> USE MixerAssumption
<1>0. Facts
  BY StateFacts
<1> USE DEF LiveMeetsFade, Follows, Keeps, lists, Idle, MainFree, OpsOfInput
<1>1. TypeInv'
  <2>1. input' \in [Inputs -> MixerInput]
    BY <1>0 DEF Facts, MixerInput
  <2>2. main' \in MainLocals
    BY <1>0 DEF Facts, MainLocals
  <2>3. cb' \in CbLocals
    BY <1>0 DEF Facts, CbLocals
  <2>4. QED
    BY <1>0, <2>1, <2>2, <2>3 DEF Facts, TypeInv, TypeOK
<1>2. ListInv'
  BY <1>0 DEF Facts, IndInv, ListInv, CacheIsCurrent
<1>3. RaceInv'
  BY <1>0 DEF Facts, IndInv, RaceInv
<1>4. OverInv'
  BY <1>0 DEF Facts, IndInv, OverInv, RaceInv, MixerInput
<1>5. LevelInv'
  BY <1>0 DEF Facts, IndInv, LevelInv, RaceInv, MixerInput
<1>6. QED
  BY <1>1, <1>2, <1>3, <1>4, <1>5 DEF IndInv

\* A live edit sets the target of a fade.
LEMMA LiveRetargetsInv == IndInv /\ LiveRetargets => IndInv'
<1> SUFFICES ASSUME IndInv, LiveRetargets PROVE IndInv'
  OBVIOUS
<1> USE MixerAssumption
<1>0. Facts
  BY StateFacts
<1> USE DEF LiveRetargets, StoresLast, Follows, Keeps, lists, Idle, MainFree, OpsOfInput
<1>1. TypeInv'
  <2>1. input' \in [Inputs -> MixerInput]
    BY <1>0 DEF Facts, MixerInput
  <2>2. main' \in MainLocals
    BY <1>0 DEF Facts, MainLocals
  <2>3. cb' \in CbLocals
    BY <1>0 DEF Facts, CbLocals
  <2>4. QED
    BY <1>0, <2>1, <2>2, <2>3 DEF Facts, TypeInv, TypeOK
<1>2. ListInv'
  BY <1>0 DEF Facts, IndInv, ListInv, CacheIsCurrent
<1>3. RaceInv'
  BY <1>0 DEF Facts, IndInv, RaceInv
<1>4. OverInv'
  BY <1>0 DEF Facts, IndInv, OverInv, RaceInv, MixerInput
<1>5. LevelInv'
  BY <1>0 DEF Facts, IndInv, LevelInv, RaceInv, MixerInput
<1>6. QED
  BY <1>1, <1>2, <1>3, <1>4, <1>5 DEF IndInv

\* A seek begins.
LEMMA SeekBeginsInv == IndInv /\ SeekBegins => IndInv'
<1> SUFFICES ASSUME IndInv, SeekBegins PROVE IndInv'
  OBVIOUS
<1> USE MixerAssumption
<1>0. Facts
  BY StateFacts
<1> USE DEF SeekBegins, Begins, Rendering, lists, Idle, MainFree, OpsOfInput
<1>1. TypeInv'
  <2>1. input' \in [Inputs -> MixerInput]
    BY <1>0 DEF Facts, MixerInput
  <2>2. main' \in MainLocals
    BY <1>0 DEF Facts, MainLocals
  <2>3. cb' \in CbLocals
    BY <1>0 DEF Facts, CbLocals
  <2>4. QED
    BY <1>0, <2>1, <2>2, <2>3 DEF Facts, TypeInv, TypeOK
<1>2. ListInv'
  BY <1>0 DEF Facts, IndInv, ListInv, CacheIsCurrent
<1>3. RaceInv'
  BY <1>0 DEF Facts, IndInv, RaceInv
<1>4. OverInv'
  BY <1>0 DEF Facts, IndInv, OverInv, RaceInv, MixerInput
<1>5. LevelInv'
  BY <1>0 DEF Facts, IndInv, LevelInv, RaceInv, MixerInput
<1>6. QED
  BY <1>1, <1>2, <1>3, <1>4, <1>5 DEF IndInv

\* A seek moves the source.
LEMMA SeekMovesInv == IndInv /\ SeekMoves => IndInv'
<1> SUFFICES ASSUME IndInv, SeekMoves PROVE IndInv'
  OBVIOUS
<1> USE MixerAssumption
<1>0. Facts
  BY StateFacts
<1> USE DEF SeekMoves, Stores, Follows, Keeps, lists, Idle, MainFree, OpsOfInput
<1>1. TypeInv'
  <2>1. input' \in [Inputs -> MixerInput]
    <3>1. PICK k \in Endless .. Blocks :
             k = IF input[main.i].left = Endless THEN Endless ELSE Blocks
      BY DEF Endless
    <3>2. input' = [input EXCEPT ![main.i].left = k] /\ main.i \in Inputs
      BY <1>0, <3>1 DEF Facts
    <3>3. QED
      BY <1>0, <3>2 DEF Facts, MixerInput
  <2>2. main' \in MainLocals
    BY <1>0 DEF Facts, MainLocals
  <2>3. cb' \in CbLocals
    BY <1>0 DEF Facts, CbLocals
  <2>4. QED
    BY <1>0, <2>1, <2>2, <2>3 DEF Facts, TypeInv, TypeOK
<1>2. ListInv'
  BY <1>0 DEF Facts, IndInv, ListInv, CacheIsCurrent
<1>3. RaceInv'
  BY <1>0 DEF Facts, IndInv, RaceInv
<1>4. OverInv'
  BY <1>0 DEF Facts, IndInv, OverInv, RaceInv, MixerInput
<1>5. LevelInv'
  BY <1>0 DEF Facts, IndInv, LevelInv, RaceInv, MixerInput
<1>6. QED
  BY <1>1, <1>2, <1>3, <1>4, <1>5 DEF IndInv

\* A seek ends with an unfinished input.
LEMMA SeekUnfinishesInv == IndInv /\ SeekUnfinishes => IndInv'
<1> SUFFICES ASSUME IndInv, SeekUnfinishes PROVE IndInv'
  OBVIOUS
<1> USE MixerAssumption
<1>0. Facts
  BY StateFacts
<1> USE DEF SeekUnfinishes, StoresLast, Follows, Keeps, lists, Idle, MainFree, OpsOfInput
<1>1. TypeInv'
  <2>1. input' \in [Inputs -> MixerInput]
    <3>1. main.i \in Inputs /\ input \in [Inputs -> MixerInput]
      BY <1>0 DEF Facts
    <3>2. [input EXCEPT ![main.i].finished = FALSE] \in [Inputs -> MixerInput]
      BY <3>1, FinishedType
    <3>3. input' = [input EXCEPT ![main.i].finished = FALSE]
      OBVIOUS
    <3>4. QED
      BY <3>2, <3>3
  <2>2. main' \in MainLocals
    BY <1>0 DEF Facts, MainLocals
  <2>3. cb' \in CbLocals
    BY <1>0 DEF Facts, CbLocals
  <2>4. QED
    BY <1>0, <2>1, <2>2, <2>3 DEF Facts, TypeInv, TypeOK
<1>2. ListInv'
  BY <1>0 DEF Facts, IndInv, ListInv, CacheIsCurrent
<1>3. RaceInv'
  BY <1>0 DEF Facts, IndInv, RaceInv
<1>4. OverInv'
  BY <1>0 DEF Facts, IndInv, OverInv, RaceInv, MixerInput
<1>5. LevelInv'
  BY <1>0 DEF Facts, IndInv, LevelInv, RaceInv, MixerInput
<1>6. QED
  BY <1>1, <1>2, <1>3, <1>4, <1>5 DEF IndInv

\* The callback reads the generation first.
LEMMA RenderBeginsInv == IndInv /\ RenderBegins => IndInv'
<1> SUFFICES ASSUME IndInv, RenderBegins PROVE IndInv'
  OBVIOUS
<1> USE MixerAssumption
<1>0. Facts
  BY StateFacts
<1> USE DEF RenderBegins, CbKeeps, lists, Idle, MainFree, OpsOfInput
<1>1. TypeInv'
  <2>1. input' \in [Inputs -> MixerInput]
    BY <1>0 DEF Facts, MixerInput
  <2>2. main' \in MainLocals
    BY <1>0 DEF Facts, MainLocals
  <2>3. cb' \in CbLocals
    BY <1>0 DEF Facts, CbLocals
  <2>4. QED
    BY <1>0, <2>1, <2>2, <2>3 DEF Facts, TypeInv, TypeOK
<1>2. ListInv'
  BY <1>0 DEF Facts, IndInv, ListInv, CacheIsCurrent
<1>3. RaceInv'
  BY <1>0 DEF Facts, IndInv, RaceInv
<1>4. OverInv'
  BY <1>0 DEF Facts, IndInv, OverInv, RaceInv, MixerInput
<1>5. LevelInv'
  BY <1>0 DEF Facts, IndInv, LevelInv, RaceInv, MixerInput
<1>6. QED
  BY <1>1, <1>2, <1>3, <1>4, <1>5 DEF IndInv

\* The list is copied when it has changed and the lock is free.
LEMMA TakeListInv == IndInv /\ TakeList => IndInv'
<1> SUFFICES ASSUME IndInv, TakeList PROVE IndInv'
  OBVIOUS
<1> USE MixerAssumption
<1>0. Facts
  BY StateFacts
<1> USE DEF TakeList, CbKeeps, lists, Idle, MainFree, OpsOfInput
<1>1. TypeInv'
  <2>1. input' \in [Inputs -> MixerInput]
    BY <1>0 DEF Facts, MixerInput
  <2>2. main' \in MainLocals
    BY <1>0 DEF Facts, MainLocals
  <2>3. cb' \in CbLocals
    <3>a. cb.seen \in Int /\ snapshot \in SUBSET Inputs
      BY <1>0 DEF Facts
    <3>1. CASE cb' = [cb EXCEPT !.at = "input", !.cache = snapshot, !.todo = snapshot,
                                !.gen = cb.seen]
      BY <1>0, <3>a, <3>1 DEF Facts, CbLocals
    <3>2. CASE cb' = [cb EXCEPT !.at = "input", !.todo = cb.cache]
      BY <1>0, <3>2 DEF Facts, CbLocals
    <3>3. QED
      BY <3>1, <3>2
  <2>4. QED
    <3>1. cb'.todo \subseteq cb'.cache /\ cb'.cache \subseteq Inputs /\ cb'.i = NoInput
      BY <1>0 DEF Facts, CbLocals
    <3>2. cb'.gen <= gen
      BY <1>0 DEF Facts, CbLocals, IndInv, ListInv
    <3>3. cb'.at = "input"
      BY <1>0 DEF Facts, CbLocals
    <3>4. QED
      BY <1>0, <2>1, <2>2, <2>3, <3>1, <3>2, <3>3 DEF Facts, TypeInv, TypeOK
<1>2. ListInv'
  BY <1>0 DEF Facts, IndInv, ListInv, CacheIsCurrent
<1>3. RaceInv'
  BY <1>0 DEF Facts, IndInv, RaceInv
<1>4. OverInv'
  BY <1>0 DEF Facts, IndInv, OverInv, RaceInv, MixerInput
<1>5. LevelInv'
  BY <1>0 DEF Facts, IndInv, LevelInv, RaceInv, MixerInput
<1>6. QED
  BY <1>1, <1>2, <1>3, <1>4, <1>5 DEF IndInv

\* A block ends.
LEMMA RenderEndsInv == IndInv /\ RenderEnds => IndInv'
<1> SUFFICES ASSUME IndInv, RenderEnds PROVE IndInv'
  OBVIOUS
<1> USE MixerAssumption
<1>0. Facts
  BY StateFacts
<1> USE DEF RenderEnds, CbKeeps, lists, Idle, MainFree, OpsOfInput
<1>1. TypeInv'
  <2>1. input' \in [Inputs -> MixerInput]
    BY <1>0 DEF Facts, MixerInput
  <2>2. main' \in MainLocals
    BY <1>0 DEF Facts, MainLocals
  <2>3. cb' \in CbLocals
    BY <1>0 DEF Facts, CbLocals
  <2>4. QED
    BY <1>0, <2>1, <2>2, <2>3 DEF Facts, TypeInv, TypeOK
<1>2. ListInv'
  BY <1>0 DEF Facts, IndInv, ListInv, CacheIsCurrent
<1>3. RaceInv'
  BY <1>0 DEF Facts, IndInv, RaceInv
<1>4. OverInv'
  BY <1>0 DEF Facts, IndInv, OverInv, RaceInv, MixerInput
<1>5. LevelInv'
  BY <1>0 DEF Facts, IndInv, LevelInv, RaceInv, MixerInput
<1>6. QED
  BY <1>1, <1>2, <1>3, <1>4, <1>5 DEF IndInv

\* An input is passed over.
LEMMA SkipInputInv == IndInv /\ SkipInput => IndInv'
<1> SUFFICES ASSUME IndInv, SkipInput PROVE IndInv'
  OBVIOUS
<1> USE MixerAssumption
<1>0. Facts
  BY StateFacts
<1> USE DEF SkipInput, CbKeeps, lists, Idle, MainFree, OpsOfInput
<1>1. TypeInv'
  <2>1. input' \in [Inputs -> MixerInput]
    BY <1>0 DEF Facts, MixerInput
  <2>2. main' \in MainLocals
    BY <1>0 DEF Facts, MainLocals
  <2>3. cb' \in CbLocals
    BY <1>0 DEF Facts, CbLocals
  <2>4. QED
    BY <1>0, <2>1, <2>2, <2>3 DEF Facts, TypeInv, TypeOK
<1>2. ListInv'
  BY <1>0 DEF Facts, IndInv, ListInv, CacheIsCurrent
<1>3. RaceInv'
  BY <1>0 DEF Facts, IndInv, RaceInv
<1>4. OverInv'
  BY <1>0 DEF Facts, IndInv, OverInv, RaceInv, MixerInput
<1>5. LevelInv'
  BY <1>0 DEF Facts, IndInv, LevelInv, RaceInv, MixerInput
<1>6. QED
  BY <1>1, <1>2, <1>3, <1>4, <1>5 DEF IndInv

\* A block of an input begins.
LEMMA ReadInputInv == IndInv /\ ReadInput => IndInv'
<1> SUFFICES ASSUME IndInv, ReadInput PROVE IndInv'
  OBVIOUS
<1> USE MixerAssumption
<1>0. Facts
  BY StateFacts
<1> USE DEF ReadInput, CbKeeps, lists, Idle, MainFree, OpsOfInput
<1>1. TypeInv'
  <2>1. input' \in [Inputs -> MixerInput]
    <3>1. CASE input' = input
      BY <1>0, <3>1 DEF Facts
    <3>2. CASE input' # input
      <4>1. PICK i \in Inputs : input[i].left > 0 /\ input' = [input EXCEPT ![i].left = @ - 1]
        BY <1>0, <3>2 DEF Facts
      <4>2. input[i].left \in Endless .. Blocks
        BY <1>0 DEF Facts, MixerInput
      <4>3. PICK k \in Endless .. Blocks : k = input[i].left - 1
        BY <4>1, <4>2 DEF Endless
      <4>4. input' = [input EXCEPT ![i].left = k]
        BY <4>1, <4>3
      <4>5. QED
        BY <1>0, <4>4 DEF Facts, MixerInput
    <3>3. QED
      BY <3>1, <3>2
  <2>2. main' \in MainLocals
    BY <1>0 DEF Facts, MainLocals
  <2>3. cb' \in CbLocals
    <3>1. PICK i \in cb.todo : cb' = [cb EXCEPT !.todo = @ \ {i}, !.i = i,
                                       !.at = IF input[i].left = 0 THEN "end" ELSE "fading"]
      OBVIOUS
    <3>2. PICK at \in {"end", "fading"} :
             cb' = [cb EXCEPT !.todo = cb.todo \ {i}, !.i = i, !.at = at]
      BY <3>1
    <3>3. QED
      BY <1>0, <3>2 DEF Facts, CbLocals
  <2>4. QED
    BY <1>0, <2>1, <2>2, <2>3 DEF Facts, TypeInv, TypeOK
<1>2. ListInv'
  BY <1>0 DEF Facts, IndInv, ListInv, CacheIsCurrent
<1>3. RaceInv'
  BY <1>0 DEF Facts, IndInv, RaceInv
<1>4. OverInv'
  BY <1>0 DEF Facts, IndInv, OverInv, RaceInv, MixerInput
<1>5. LevelInv'
  BY <1>0 DEF Facts, IndInv, LevelInv, RaceInv, MixerInput
<1>6. QED
  BY <1>1, <1>2, <1>3, <1>4, <1>5 DEF IndInv

\* An input is finished.
LEMMA SourceEndedInv == IndInv /\ SourceEnded => IndInv'
<1> SUFFICES ASSUME IndInv, SourceEnded PROVE IndInv'
  OBVIOUS
<1> USE MixerAssumption
<1>0. Facts
  BY StateFacts
<1> USE DEF SourceEnded, NextInput, CbKeeps, lists, Idle, MainFree, OpsOfInput
<1>1. TypeInv'
  <2>1. input' \in [Inputs -> MixerInput]
    <3>1. cb.i \in Inputs /\ input \in [Inputs -> MixerInput]
      BY <1>0 DEF Facts
    <3>2. [input EXCEPT ![cb.i].finished = TRUE] \in [Inputs -> MixerInput]
      BY <3>1, FinishedType
    <3>3. input' = [input EXCEPT ![cb.i].finished = TRUE]
      OBVIOUS
    <3>4. QED
      BY <3>2, <3>3
  <2>2. main' \in MainLocals
    BY <1>0 DEF Facts, MainLocals
  <2>3. cb' \in CbLocals
    BY <1>0 DEF Facts, CbLocals
  <2>4. QED
    BY <1>0, <2>1, <2>2, <2>3 DEF Facts, TypeInv, TypeOK
<1>2. ListInv'
  BY <1>0 DEF Facts, IndInv, ListInv, CacheIsCurrent
<1>3. RaceInv'
  BY <1>0 DEF Facts, IndInv, RaceInv
<1>4. OverInv'
  BY <1>0 DEF Facts, IndInv, OverInv, RaceInv, MixerInput
<1>5. LevelInv'
  BY <1>0 DEF Facts, IndInv, LevelInv, RaceInv, MixerInput
<1>6. QED
  BY <1>1, <1>2, <1>3, <1>4, <1>5 DEF IndInv

\* The callback looks for a fade.
LEMMA LoadActiveInv == IndInv /\ LoadActive => IndInv'
<1> SUFFICES ASSUME IndInv, LoadActive PROVE IndInv'
  OBVIOUS
<1> USE MixerAssumption
<1>0. Facts
  BY StateFacts
<1> USE DEF LoadActive, NextInput, CbKeeps, lists, Idle, MainFree, OpsOfInput
<1>1. TypeInv'
  <2>1. input' \in [Inputs -> MixerInput]
    BY <1>0 DEF Facts, MixerInput
  <2>2. main' \in MainLocals
    BY <1>0 DEF Facts, MainLocals
  <2>3. cb' \in CbLocals
    BY <1>0 DEF Facts, CbLocals
  <2>4. QED
    BY <1>0, <2>1, <2>2, <2>3 DEF Facts, TypeInv, TypeOK
<1>2. ListInv'
  BY <1>0 DEF Facts, IndInv, ListInv, CacheIsCurrent
<1>3. RaceInv'
  BY <1>0 DEF Facts, IndInv, RaceInv
<1>4. OverInv'
  BY <1>0 DEF Facts, IndInv, OverInv, RaceInv, MixerInput
<1>5. LevelInv'
  BY <1>0 DEF Facts, IndInv, LevelInv, RaceInv, MixerInput
<1>6. QED
  BY <1>1, <1>2, <1>3, <1>4, <1>5 DEF IndInv

\* The callback loads the target.
LEMMA LoadTargetInv == IndInv /\ LoadTarget => IndInv'
<1> SUFFICES ASSUME IndInv, LoadTarget PROVE IndInv'
  OBVIOUS
<1> USE MixerAssumption
<1>0. Facts
  BY StateFacts
<1> USE DEF LoadTarget, CbKeeps, lists, Idle, MainFree, OpsOfInput
<1>1. TypeInv'
  <2>1. input' \in [Inputs -> MixerInput]
    BY <1>0 DEF Facts, MixerInput
  <2>2. main' \in MainLocals
    BY <1>0 DEF Facts, MainLocals
  <2>3. cb' \in CbLocals
    <3>1. cb.i \in Inputs /\ input[cb.i].target \in Levels
      BY <1>0 DEF Facts, MixerInput
    <3>2. QED
      BY <1>0, <3>1 DEF Facts, CbLocals
  <2>4. QED
    BY <1>0, <2>1, <2>2, <2>3 DEF Facts, TypeInv, TypeOK
<1>2. ListInv'
  BY <1>0 DEF Facts, IndInv, ListInv, CacheIsCurrent
<1>3. RaceInv'
  BY <1>0 DEF Facts, IndInv, RaceInv
<1>4. OverInv'
  BY <1>0 DEF Facts, IndInv, OverInv, RaceInv, MixerInput
<1>5. LevelInv'
  BY <1>0 DEF Facts, IndInv, LevelInv, RaceInv, MixerInput
<1>6. QED
  BY <1>1, <1>2, <1>3, <1>4, <1>5 DEF IndInv

\* The callback counts the frames that remain.
LEMMA LoadRemainingInv == IndInv /\ LoadRemaining => IndInv'
<1> SUFFICES ASSUME IndInv, LoadRemaining PROVE IndInv'
  OBVIOUS
<1> USE MixerAssumption
<1>0. Facts
  BY StateFacts
<1> USE DEF LoadRemaining, CbKeeps, lists, Idle, MainFree, OpsOfInput
<1>1. TypeInv'
  <2>1. input' \in [Inputs -> MixerInput]
    BY <1>0 DEF Facts, MixerInput
  <2>2. main' \in MainLocals
    BY <1>0 DEF Facts, MainLocals
  <2>3. cb' \in CbLocals
    <3>1. cb.i \in Inputs /\ input[cb.i].remaining \in Nat
      BY <1>0 DEF Facts, MixerInput
    <3>2. PICK n \in Nat : n = IF input[cb.i].remaining = 0 THEN 0 ELSE input[cb.i].remaining - 1
      BY <3>1
    <3>3. cb' = [cb EXCEPT !.at = "store", !.remaining = n]
      BY <3>2
    <3>4. QED
      BY <1>0, <3>3 DEF Facts, CbLocals
  <2>4. QED
    BY <1>0, <2>1, <2>2, <2>3 DEF Facts, TypeInv, TypeOK
<1>2. ListInv'
  BY <1>0 DEF Facts, IndInv, ListInv, CacheIsCurrent
<1>3. RaceInv'
  BY <1>0 DEF Facts, IndInv, RaceInv
<1>4. OverInv'
  BY <1>0 DEF Facts, IndInv, OverInv, RaceInv, MixerInput
<1>5. LevelInv'
  BY <1>0 DEF Facts, IndInv, LevelInv, RaceInv, MixerInput
<1>6. QED
  BY <1>1, <1>2, <1>3, <1>4, <1>5 DEF IndInv

\* The fade goes on.
LEMMA StoreProgressInv == IndInv /\ StoreProgress => IndInv'
<1> SUFFICES ASSUME IndInv, StoreProgress PROVE IndInv'
  OBVIOUS
<1> USE MixerAssumption
<1>0. Facts
  BY StateFacts
<1> USE DEF StoreProgress, NextInput, CbKeeps, lists, Idle, MainFree, OpsOfInput
<1>1. TypeInv'
  <2>1. input' \in [Inputs -> MixerInput]
    BY <1>0 DEF Facts, MixerInput
  <2>2. main' \in MainLocals
    BY <1>0 DEF Facts, MainLocals
  <2>3. cb' \in CbLocals
    BY <1>0 DEF Facts, CbLocals
  <2>4. QED
    BY <1>0, <2>1, <2>2, <2>3 DEF Facts, TypeInv, TypeOK
<1>2. ListInv'
  BY <1>0 DEF Facts, IndInv, ListInv, CacheIsCurrent
<1>3. RaceInv'
  BY <1>0 DEF Facts, IndInv, RaceInv
<1>4. OverInv'
  BY <1>0 DEF Facts, IndInv, OverInv, RaceInv, MixerInput
<1>5. LevelInv'
  BY <1>0 DEF Facts, IndInv, LevelInv, RaceInv, MixerInput
<1>6. QED
  BY <1>1, <1>2, <1>3, <1>4, <1>5 DEF IndInv

\* The fade is over after its last frame.
LEMMA FadeIsOverInv == IndInv /\ FadeIsOver => IndInv'
<1> SUFFICES ASSUME IndInv, FadeIsOver PROVE IndInv'
  OBVIOUS
<1> USE MixerAssumption
<1>0. Facts
  BY StateFacts
<1> USE DEF FadeIsOver, CbKeeps, lists, Idle, MainFree, OpsOfInput
<1>1. TypeInv'
  <2>1. input' \in [Inputs -> MixerInput]
    <3>1. cb.i \in Inputs /\ input \in [Inputs -> MixerInput]
      BY <1>0 DEF Facts
    <3>2. [input EXCEPT ![cb.i].fading = FALSE] \in [Inputs -> MixerInput]
      BY <3>1, FadingType
    <3>3. input' = [input EXCEPT ![cb.i].fading = FALSE]
      OBVIOUS
    <3>4. QED
      BY <3>2, <3>3
  <2>2. main' \in MainLocals
    BY <1>0 DEF Facts, MainLocals
  <2>3. cb' \in CbLocals
    BY <1>0 DEF Facts, CbLocals
  <2>4. QED
    BY <1>0, <2>1, <2>2, <2>3 DEF Facts, TypeInv, TypeOK
<1>2. ListInv'
  BY <1>0 DEF Facts, IndInv, ListInv, CacheIsCurrent
<1>3. RaceInv'
  BY <1>0 DEF Facts, IndInv, RaceInv
<1>4. OverInv'
  BY <1>0 DEF Facts, IndInv, OverInv, RaceInv, MixerInput
<1>5. LevelInv'
  BY <1>0 DEF Facts, IndInv, LevelInv, RaceInv, MixerInput
<1>6. QED
  BY <1>1, <1>2, <1>3, <1>4, <1>5 DEF IndInv

\* The level is the target of the fade.
LEMMA LevelIsTargetInv == IndInv /\ LevelIsTarget => IndInv'
<1> SUFFICES ASSUME IndInv, LevelIsTarget PROVE IndInv'
  OBVIOUS
<1> USE MixerAssumption
<1>0. Facts
  BY StateFacts
<1> USE DEF LevelIsTarget, NextInput, CbKeeps, lists, Idle, MainFree, OpsOfInput
<1>1. TypeInv'
  <2>1. input' \in [Inputs -> MixerInput]
    BY <1>0 DEF Facts, MixerInput
  <2>2. main' \in MainLocals
    BY <1>0 DEF Facts, MainLocals
  <2>3. cb' \in CbLocals
    BY <1>0 DEF Facts, CbLocals
  <2>4. QED
    BY <1>0, <2>1, <2>2, <2>3 DEF Facts, TypeInv, TypeOK
<1>2. ListInv'
  BY <1>0 DEF Facts, IndInv, ListInv, CacheIsCurrent
<1>3. RaceInv'
  BY <1>0 DEF Facts, IndInv, RaceInv
<1>4. OverInv'
  BY <1>0 DEF Facts, IndInv, OverInv, RaceInv, MixerInput
<1>5. LevelInv'
  BY <1>0 DEF Facts, IndInv, LevelInv, RaceInv, MixerInput
<1>6. QED
  BY <1>1, <1>2, <1>3, <1>4, <1>5 DEF IndInv

\* A silent input is switched off.
LEMMA SwitchOffInv == IndInv /\ SwitchOff => IndInv'
<1> SUFFICES ASSUME IndInv, SwitchOff PROVE IndInv'
  OBVIOUS
<1> USE MixerAssumption
<1>0. Facts
  BY StateFacts
<1> USE DEF SwitchOff, CbKeeps, lists, Idle, MainFree, OpsOfInput
<1>1. TypeInv'
  <2>1. input' \in [Inputs -> MixerInput]
    <3>1. cb.i \in Inputs /\ input \in [Inputs -> MixerInput]
      BY <1>0 DEF Facts
    <3>2. [input EXCEPT ![cb.i].active = FALSE] \in [Inputs -> MixerInput]
      BY <3>1, SwitchedType
    <3>3. input' = [input EXCEPT ![cb.i].active = FALSE]
      OBVIOUS
    <3>4. QED
      BY <3>2, <3>3
  <2>2. main' \in MainLocals
    BY <1>0 DEF Facts, MainLocals
  <2>3. cb' \in CbLocals
    BY <1>0 DEF Facts, CbLocals
  <2>4. QED
    BY <1>0, <2>1, <2>2, <2>3 DEF Facts, TypeInv, TypeOK
<1>2. ListInv'
  BY <1>0 DEF Facts, IndInv, ListInv, CacheIsCurrent
<1>3. RaceInv'
  BY <1>0 DEF Facts, IndInv, RaceInv
<1>4. OverInv'
  BY <1>0 DEF Facts, IndInv, OverInv, RaceInv, MixerInput
<1>5. LevelInv'
  BY <1>0 DEF Facts, IndInv, LevelInv, RaceInv, MixerInput
<1>6. QED
  BY <1>1, <1>2, <1>3, <1>4, <1>5 DEF IndInv

\* A step of another part of the program leaves the mixer alone.
LEMMA StutterInv == IndInv /\ UNCHANGED vars => IndInv'
BY DEF IndInv, TypeInv, TypeOK, ListInv, CacheIsCurrent, RaceInv, OverInv, LevelInv, vars, lists

\* Every reachable state satisfies the inductive invariant.
THEOREM Invariance == Spec => []IndInv
<1>1. IndInv /\ [Next]_vars => IndInv'
  BY StutterInv, AddInputInv, StopBeginsInv, StopDeactivatesInv, StopClearsInv,
     RefreshBeginsInv, RefreshEndsInv, SetActiveInv, FadeBeginsInv,
     FadeSetsStartInv, FadeSetsTargetInv, FadeSetsRemainingInv, FadeIsOnInv,
     CancelBeginsInv, CancelEndsInv, VolumeBeginsInv, VolumeIsSetInv,
     LiveBeginsInv, LiveIsSetInv, LiveMeetsFadeInv, LiveRetargetsInv,
     SeekBeginsInv, SeekMovesInv, SeekUnfinishesInv, RenderBeginsInv,
     TakeListInv, RenderEndsInv, SkipInputInv, ReadInputInv,
     SourceEndedInv, LoadActiveInv, LoadTargetInv, LoadRemainingInv,
     StoreProgressInv, FadeIsOverInv, LevelIsTargetInv, SwitchOffInv
     DEF Next, Operation, Render, StopAll, StartFade, CancelFade, SetVolume, LiveEdit, Seek
<1>2. QED
  BY InitInv, <1>1, PTL DEF Spec

\* The fields of an input, the list and the cache of the callback keep their types,
\* and a fade never counts below zero, for all inputs, levels and lengths.
THEOREM TypeCorrect == Spec => []TypeOK
<1>1. IndInv => TypeOK
  BY DEF IndInv, TypeInv
<1>2. QED
  BY Invariance, <1>1, PTL

\* An input that has left the list is silent, however old the list is that the
\* callback renders.
THEOREM StaleCorrect == Spec => []StaleIsSilent
<1>1. IndInv => StaleIsSilent
  BY DEF IndInv, ListInv, StaleIsSilent
<1>2. QED
  BY Invariance, <1>1, PTL

\* A callback that has taken the newest generation renders the newest list.
THEOREM CacheCorrect == Spec => []CacheIsCurrent
<1>1. IndInv => CacheIsCurrent
  BY DEF IndInv, ListInv
<1>2. QED
  BY Invariance, <1>1, PTL

\* Where no operation races with a block, an input left to itself is at the level
\* that was last asked for.
THEOREM LevelCorrect == Spec => []LevelIsAsAsked
<1>1. IndInv => LevelIsAsAsked
  BY StateFacts DEF IndInv, LevelInv, LevelIsAsAsked, Quiet, Facts
<1>2. QED
  BY Invariance, <1>1, PTL

\* An input that counts as finished has nothing left or faded to silence.
THEOREM OverCorrect == Spec => []FinishedIsOver
<1>1. IndInv => FinishedIsOver
  BY StateFacts DEF IndInv, OverInv, FinishedIsOver, Quiet, Facts
<1>2. QED
  BY Invariance, <1>1, PTL

\* An input that nobody holds plays or is finished, so its cue ends.
THEOREM PlaysCorrect == Spec => []PlaysOrOver
<1>1. IndInv => PlaysOrOver
  BY StateFacts DEF IndInv, OverInv, PlaysOrOver, Quiet, Facts
<1>2. QED
  BY Invariance, <1>1, PTL
=============================================================================
