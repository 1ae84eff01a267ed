------------------------------- MODULE Mixer -------------------------------
(***************************************************************************)
(* The inputs of the summing mixer, between the main thread that adds,     *)
(* fades, seeks and stops them and the audio callback that renders them    *)
(* (crates/cuepool-audio/src/mixer.rs, used by play and refresh of         *)
(* engine.rs and by the show engine).                                      *)
(*                                                                         *)
(* The list of inputs is published as a snapshot with a generation, which  *)
(* the callback copies when it gets the lock.  The fields of an input are  *)
(* atomics that both threads store one by one, and a step here is one load *)
(* or store.  Loads and stores are sequentially consistent; a level is a   *)
(* whole number, 0 is silence, and a block is one frame.                   *)
(***************************************************************************)
EXTENDS Integers

CONSTANTS
    Inputs,   \* inputs that may be added, each once
    Levels,   \* gains, 0 among them
    Frames,   \* durations of fades
    Blocks,   \* blocks a source has from where a seek puts it
    MaxOps    \* bound: operations of the main thread on inputs

NoInput == "none"

ASSUME MixerAssumption ==
    /\ NoInput \notin Inputs
    /\ 0 \in Levels /\ 1 \in Levels /\ Levels \subseteq Nat
    /\ Frames \subseteq Nat \ {0} /\ Blocks \in Nat \ {0} /\ MaxOps \in Nat

Endless == -1 \* the blocks of a source that loops for ever

VARIABLES
    input,     \* the atomics of each MixerInput, and the blocks its source has left
    list,      \* Mixer::inputs
    dirty,     \* Mixer::dirty
    snapshot,  \* Mixer::snapshot
    locked,    \* the main thread holds the lock of the snapshot
    gen,       \* snapshot_generation
    main,      \* the operation the main thread is in, and how far
    cb,        \* the callback: where it is, RenderCache and its locals
    ops,       \* bound, counts the operations
    wanted,    \* history: the level last asked for
    held,      \* history: inputs the main thread deactivated
    raced      \* history: inputs with an operation and a block, or two
               \* operations, at the same time

vars == <<input, list, dirty, snapshot, locked, gen, main, cb, ops, wanted, held, raced>>
lists == <<list, dirty, snapshot, locked, gen>>

Idle == [op |-> "none", i |-> NoInput, step |-> 0, level |-> 0, frames |-> 0]

Init ==
    /\ \E left \in [Inputs -> {Blocks, Endless}] :
          input = [i \in Inputs |-> [active |-> TRUE, finished |-> FALSE, volume |-> 1, start |-> 1,
                                     target |-> 1, remaining |-> 0, fading |-> FALSE,
                                     left |-> left[i]]]
    /\ list = {} /\ dirty = FALSE /\ snapshot = {} /\ locked = FALSE /\ gen = 0
    /\ main = Idle
    /\ cb = [at |-> "idle", gen |-> -1, seen |-> 0, cache |-> {}, todo |-> {}, i |-> NoInput,
             target |-> 0, remaining |-> 0]
    /\ ops = 0
    /\ wanted = [i \in Inputs |-> 1] /\ held = {} /\ raced = {}

-----------------------------------------------------------------------------
(* The list and its snapshot, main thread *)

MainFree == main = Idle

AddInput ==
    /\ MainFree
    /\ \E i \in Inputs \ (list \union held) : list' = list \union {i}
    /\ dirty' = TRUE
    /\ UNCHANGED <<input, snapshot, locked, gen, main, cb, ops, wanted, held, raced>>

\* stop_all deactivates the inputs one by one, then clears the list.
StopBegins ==
    /\ MainFree /\ list # {}
    /\ main' = [Idle EXCEPT !.op = "stop"]
    /\ held' = held \union list
    /\ UNCHANGED <<input, lists, cb, ops, wanted, raced>>

StopDeactivates ==
    /\ main.op = "stop"
    /\ \E i \in list : input[i].active /\ input' = [input EXCEPT ![i].active = FALSE]
    /\ UNCHANGED <<lists, main, cb, ops, wanted, held, raced>>

StopClears ==
    /\ main.op = "stop" /\ \A i \in list : ~input[i].active
    /\ list' = {} /\ dirty' = TRUE /\ main' = Idle
    /\ UNCHANGED <<input, snapshot, locked, gen, cb, ops, wanted, held, raced>>

StopAll == StopBegins \/ StopDeactivates \/ StopClears

\* refresh_snapshot: the copy and the new generation are under the lock.
RefreshBegins ==
    /\ MainFree /\ dirty
    /\ dirty' = FALSE /\ locked' = TRUE /\ snapshot' = list
    /\ main' = [Idle EXCEPT !.op = "refresh"]
    /\ UNCHANGED <<input, list, gen, cb, ops, wanted, held, raced>>

RefreshEnds ==
    /\ main.op = "refresh"
    /\ gen' = gen + 1 /\ locked' = FALSE /\ main' = Idle
    /\ UNCHANGED <<input, list, dirty, snapshot, cb, ops, wanted, held, raced>>

-----------------------------------------------------------------------------
(* Operations on an input, main thread *)

Rendering(i) == cb.i = i

Begins(op, i, level, frames) ==
    /\ MainFree /\ ops < MaxOps /\ i \in list
    /\ ops' = ops + 1
    /\ main' = [op |-> op, i |-> i, step |-> 1, level |-> level, frames |-> frames]
    /\ UNCHANGED <<input, lists, cb, held>>

Follows(op, step) == main.op = op /\ main.step = step
Keeps == UNCHANGED <<lists, cb, ops, wanted, held, raced>>

\* One store of an operation, with more to come or as its last.
Stores(op, step, field, value) ==
    /\ Follows(op, step)
    /\ input' = [input EXCEPT ![main.i][field] = value]
    /\ main' = [main EXCEPT !.step = step + 1]
    /\ Keeps

StoresLast(op, step, field, value) ==
    /\ Follows(op, step)
    /\ input' = [input EXCEPT ![main.i][field] = value]
    /\ main' = Idle
    /\ Keeps

\* A level asked for during a fade or a block of its input is a race, which
\* either thread may win.
NotesRace(i) ==
    raced' = IF Rendering(i) \/ input[i].fading THEN raced \union {i} ELSE raced

\* start_fade stores five fields; the level it starts from is the one before
\* a fade in flight.
FadeBegins ==
    \E i \in list, level \in Levels, n \in Frames :
        /\ Begins("fade", i, level, n)
        /\ wanted' = [wanted EXCEPT ![i] = level]
        /\ NotesRace(i)

FadeSetsStart == Stores("fade", 1, "start", input[main.i].volume)
FadeSetsTarget == Stores("fade", 2, "target", main.level)
FadeSetsRemaining == Stores("fade", 3, "remaining", main.frames)
FadeIsOn == StoresLast("fade", 4, "fading", TRUE)

StartFade == FadeBegins \/ FadeSetsStart \/ FadeSetsTarget \/ FadeSetsRemaining \/ FadeIsOn

\* cancel_fade waits for the block in progress, and holds the next one off.
CancelBegins ==
    \E i \in list :
        /\ ~Rendering(i)
        /\ Begins("cancel", i, 0, 0)
        /\ wanted' = [wanted EXCEPT ![i] = input[i].start]
        /\ UNCHANGED raced

CancelEnds ==
    /\ Follows("cancel", 1)
    /\ input' = [input EXCEPT ![main.i].fading = FALSE, ![main.i].remaining = 0,
                              ![main.i].volume = input[main.i].start]
    /\ main' = Idle
    /\ Keeps

CancelFade == CancelBegins \/ CancelEnds

\* set_volume, as a Volume cue without a fade calls it.
VolumeBegins ==
    \E i \in list, level \in Levels :
        /\ Begins("volume", i, level, 0)
        /\ wanted' = [wanted EXCEPT ![i] = level]
        /\ NotesRace(i)

VolumeIsSet == StoresLast("volume", 1, "volume", main.level)

SetVolume == VolumeBegins \/ VolumeIsSet

\* set_volume_live retargets a fade in flight, unless it fades to silence.
LiveBegins ==
    \E i \in list, level \in Levels :
        /\ Begins("live", i, level, 0)
        /\ wanted' = [wanted EXCEPT ![i] = IF input[i].fading /\ input[i].target = 0 THEN 0
                                           ELSE level]
        /\ raced' = IF Rendering(i) THEN raced \union {i} ELSE raced

LiveSetsVolume == \* mutant: a fade in flight is not retargeted
    StoresLast("live", 1, "volume", main.level)

LiveIsSet == Stores("live", 1, "volume", main.level)

LiveMeetsFade ==
    /\ Follows("live", 2)
    /\ main' = IF input[main.i].fading /\ input[main.i].target > 0
               THEN [main EXCEPT !.step = 3] ELSE Idle
    /\ UNCHANGED input /\ Keeps

LiveRetargets == StoresLast("live", 3, "target", main.level)

LiveEdit == LiveBegins \/ LiveIsSet \/ LiveMeetsFade \/ LiveRetargets

\* seek moves the source, then the input counts as unfinished.
SeekBegins ==
    \E i \in list :
        /\ Begins("seek", i, 0, 0)
        /\ raced' = IF Rendering(i) \/ (~input[i].active /\ i \notin held)
                    THEN raced \union {i} ELSE raced
        /\ UNCHANGED wanted

SeekMoves == Stores("seek", 1, "left", IF input[main.i].left = Endless THEN Endless ELSE Blocks)

SeekStaysFinished == \* mutant: the input still counts as finished
    /\ Follows("seek", 2)
    /\ main' = Idle
    /\ UNCHANGED input /\ Keeps

SeekUnfinishes == StoresLast("seek", 2, "finished", FALSE)

Seek == SeekBegins \/ SeekMoves \/ SeekUnfinishes

\* set_active, as Pause and Resume call it for the cues that play.
SetActive ==
    /\ MainFree
    /\ \E i \in list :
          /\ \/ /\ input[i].active
                /\ held' = held \union {i} /\ input' = [input EXCEPT ![i].active = FALSE]
             \/ /\ i \in held
                /\ held' = held \ {i} /\ input' = [input EXCEPT ![i].active = TRUE]
          /\ raced' = IF Rendering(i) \/ input[i].finished THEN raced \union {i} ELSE raced
    /\ UNCHANGED <<lists, main, cb, ops, wanted>>

-----------------------------------------------------------------------------
(* render, audio callback *)

CbKeeps == UNCHANGED <<lists, main, ops, wanted, held>>

RenderBegins ==
    /\ cb.at = "idle"
    /\ cb' = [cb EXCEPT !.at = "list", !.seen = gen]
    /\ UNCHANGED <<input, raced>> /\ CbKeeps

\* The list is copied only if it changed and the lock is free.
TakeList ==
    /\ cb.at = "list"
    /\ cb' = IF cb.seen # cb.gen /\ ~locked
             THEN [cb EXCEPT !.at = "input", !.cache = snapshot, !.todo = snapshot, !.gen = cb.seen]
             ELSE [cb EXCEPT !.at = "input", !.todo = cb.cache]
    /\ UNCHANGED <<input, raced>> /\ CbKeeps

RenderEnds ==
    /\ cb.at = "input" /\ cb.todo = {}
    /\ cb' = [cb EXCEPT !.at = "idle"]
    /\ UNCHANGED <<input, raced>> /\ CbKeeps

\* An inactive input is passed over, and one whose buffer cancel_fade holds.
SkipInput ==
    /\ cb.at = "input"
    /\ \E i \in cb.todo :
          /\ ~input[i].active \/ (main.op = "cancel" /\ main.i = i)
          /\ cb' = [cb EXCEPT !.todo = @ \ {i}]
    /\ UNCHANGED <<input, raced>> /\ CbKeeps

ReadInput ==
    /\ cb.at = "input"
    /\ \E i \in cb.todo :
          /\ input[i].active /\ ~(main.op = "cancel" /\ main.i = i)
          /\ cb' = [cb EXCEPT !.todo = @ \ {i}, !.i = i,
                              !.at = IF input[i].left = 0 THEN "end" ELSE "fading"]
          /\ input' = IF input[i].left > 0 THEN [input EXCEPT ![i].left = @ - 1] ELSE input
          /\ raced' = IF main.i = i THEN raced \union {i} ELSE raced
    /\ CbKeeps

NextInput(state) == [state EXCEPT !.at = "input", !.i = NoInput]

\* The source has no samples left.
SourceEnded ==
    /\ cb.at = "end"
    /\ input' = [input EXCEPT ![cb.i].finished = TRUE]
    /\ cb' = NextInput(cb)
    /\ UNCHANGED raced /\ CbKeeps

\* The fade's fields are loaded one by one.
LoadActive ==
    /\ cb.at = "fading"
    /\ cb' = IF input[cb.i].fading THEN [cb EXCEPT !.at = "target"] ELSE NextInput(cb)
    /\ UNCHANGED <<input, raced>> /\ CbKeeps

LoadTarget ==
    /\ cb.at = "target"
    /\ cb' = [cb EXCEPT !.at = "remaining", !.target = input[cb.i].target]
    /\ UNCHANGED <<input, raced>> /\ CbKeeps

LoadRemaining ==
    /\ cb.at = "remaining"
    /\ cb' = [cb EXCEPT !.at = "store", !.remaining = IF input[cb.i].remaining = 0 THEN 0
                                                      ELSE input[cb.i].remaining - 1]
    /\ UNCHANGED <<input, raced>> /\ CbKeeps

NoProgress == \* mutant: the frames that remain are not stored
    /\ cb.at = "store"
    /\ cb' = IF cb.remaining = 0 THEN [cb EXCEPT !.at = "done"] ELSE NextInput(cb)
    /\ UNCHANGED <<input, raced>> /\ CbKeeps

StoreProgress ==
    /\ cb.at = "store"
    /\ input' = [input EXCEPT ![cb.i].remaining = cb.remaining]
    /\ cb' = IF cb.remaining = 0 THEN [cb EXCEPT !.at = "done"] ELSE NextInput(cb)
    /\ UNCHANGED raced /\ CbKeeps

\* The last frame: the fade is over, the level is its target, and at silence
\* the input is switched off and counts as finished.
FadeIsOver ==
    /\ cb.at = "done"
    /\ input' = [input EXCEPT ![cb.i].fading = FALSE]
    /\ cb' = [cb EXCEPT !.at = "volume"]
    /\ UNCHANGED raced /\ CbKeeps

LevelIsTarget ==
    /\ cb.at = "volume"
    /\ input' = [input EXCEPT ![cb.i].volume = cb.target]
    /\ cb' = IF cb.target = 0 THEN [cb EXCEPT !.at = "off"] ELSE NextInput(cb)
    /\ UNCHANGED raced /\ CbKeeps

SwitchOffQuietly == \* mutant: a fade to silence does not finish the input
    /\ cb.at = "off"
    /\ input' = [input EXCEPT ![cb.i].active = FALSE]
    /\ cb' = NextInput(cb)
    /\ UNCHANGED raced /\ CbKeeps

SwitchOff ==
    /\ cb.at = "off"
    /\ input' = [input EXCEPT ![cb.i].active = FALSE]
    /\ cb' = [cb EXCEPT !.at = "end"]
    /\ UNCHANGED raced /\ CbKeeps

Operation == StartFade \/ CancelFade \/ SetVolume \/ LiveEdit \/ Seek
Render ==
    \/ RenderBegins \/ TakeList \/ RenderEnds \/ SkipInput \/ ReadInput \/ SourceEnded
    \/ LoadActive \/ LoadTarget \/ LoadRemaining \/ StoreProgress
    \/ FadeIsOver \/ LevelIsTarget \/ SwitchOff

Next ==
    \/ AddInput \/ StopAll \/ RefreshBegins \/ RefreshEnds \/ SetActive \/ Operation \/ Render

\* An operation of the main thread goes on to its end.
Proceeds == main # Idle /\ (StopAll \/ RefreshEnds \/ Operation)

\* The device asks for block after block, and the main thread refreshes the
\* snapshot in every tick.
Fairness == WF_vars(Render) /\ WF_vars(Proceeds) /\ SF_vars(RefreshBegins)

Spec == Init /\ [][Next]_vars /\ Fairness

-----------------------------------------------------------------------------
(* Properties *)

MixerInput == [active : BOOLEAN, finished : BOOLEAN, volume : Levels, start : Levels,
               target : Levels, remaining : Nat, fading : BOOLEAN, left : Endless..Blocks]

TypeOK ==
    /\ input \in [Inputs -> MixerInput]
    /\ list \subseteq Inputs /\ snapshot \subseteq Inputs
    /\ dirty \in BOOLEAN /\ locked \in BOOLEAN /\ gen \in Nat
    /\ cb.cache \subseteq Inputs /\ cb.todo \subseteq cb.cache
    /\ cb.i \in Inputs \union {NoInput} /\ cb.gen <= gen
    /\ (cb.at \in {"idle", "list", "input"}) <=> (cb.i = NoInput)

\* An input the callback still knows after it left the list is silent
\* ("Deactivate before clearing", stop_all).
StaleIsSilent == \A i \in cb.cache \ list : ~input[i].active

\* A callback that has seen the newest generation has the newest list: no
\* cue is left out or rendered on after its removal (render).
CacheIsCurrent == (cb.gen = gen /\ ~locked) => cb.cache = snapshot

Quiet(i) == main.i # i /\ cb.i # i

\* Left to itself, an input comes to the level that was last asked for, by a
\* fade, a live edit during one, or the end of a fade that was called off.
LevelIsAsAsked ==
    \A i \in list \ raced : (Quiet(i) /\ ~input[i].fading) => input[i].volume = wanted[i]

\* An input that counts as finished has no samples left or faded to silence,
\* so no cue that was sought back is taken for over.
FinishedIsOver ==
    \A i \in list \ raced : (Quiet(i) /\ input[i].finished) =>
        (input[i].left = 0 \/ ~input[i].active)

\* An input that nobody holds is rendered or finished; otherwise its cue
\* would neither be heard nor end.
PlaysOrOver ==
    \A i \in list \ (raced \union held) : Quiet(i) => (input[i].active \/ input[i].finished)

\* The same, also when a seek meets the end of a fade or of the source:
\* "Seek ... and make the input playable after EOF".
SeekMakesPlayable ==
    \A i \in list \ held : Quiet(i) => (input[i].active \/ input[i].finished)

\* What is added is rendered, unless it is stopped or finished first.
AddedIsRendered ==
    \A i \in Inputs : i \in list ~> (i \in cb.cache \/ i \notin list)

\* Every fade comes to its end while its input is rendered.
FadesEnd ==
    \A i \in Inputs : input[i].fading ~>
        (~input[i].fading \/ ~input[i].active \/ input[i].left = 0 \/ i \notin list)

\* The callback comes to whatever the main thread asks of it: it renders the
\* inputs that are added and ends the fades.
CallbackServes == AddedIsRendered /\ FadesEnd

-----------------------------------------------------------------------------
(* The inductive invariant behind the invariants *)

OpsOfInput == {"fade", "cancel", "volume", "live", "seek"}

MainLocals == [op : OpsOfInput \union {"none", "stop", "refresh"}, i : Inputs \union {NoInput},
               step : Nat, level : Levels, frames : Nat]
CbLocals == [at : {"idle", "list", "input", "fading", "target", "remaining", "store", "done",
                   "volume", "off", "end"},
             gen : Int, seen : Nat, cache : SUBSET Inputs, todo : SUBSET Inputs,
             i : Inputs \union {NoInput}, target : Levels, remaining : Nat]

TypeInv ==
    /\ TypeOK
    /\ main \in MainLocals /\ cb \in CbLocals
    /\ ops \in Nat /\ wanted \in [Inputs -> Levels] /\ raced \subseteq Inputs
    /\ main.op \in OpsOfInput <=> main.i # NoInput
    /\ main.op = "none" => main = Idle

\* The snapshot is as old as the callback's copy of it, or newer.
ListInv ==
    /\ \A i \in (cb.cache \union snapshot) \ list : ~input[i].active
    /\ locked <=> main.op = "refresh"
    /\ cb.seen <= gen
    /\ CacheIsCurrent

\* An operation meets a block of its input only where that is noted.
RaceInv ==
    /\ main.op \in OpsOfInput /\ cb.i = main.i => main.i \in raced
    /\ main.op = "cancel" => cb.i # main.i

OverInv ==
    /\ main.op = "stop" => list \subseteq held
    /\ \A i \in Inputs \ raced :
          /\ ~(main.op = "seek" /\ main.step = 2 /\ main.i = i) /\ input[i].finished =>
                 (input[i].left = 0 \/ ~input[i].active)
          /\ cb.i = i /\ cb.at = "end" => (input[i].left = 0 \/ ~input[i].active)
          /\ i \notin held =>
                 (input[i].active \/ input[i].finished \/ (cb.i = i /\ cb.at = "end"))
          /\ i \notin held /\ main.op = "seek" /\ main.i = i => input[i].active

\* Where the level goes: while no operation is on the input, and while one is.
LevelInv ==
    \A i \in Inputs \ raced :
        /\ main.i # i \/ main.op = "seek" =>
               IF input[i].fading THEN input[i].target = wanted[i]
               ELSE (cb.i = i /\ cb.at = "volume") \/ input[i].volume = wanted[i]
        /\ cb.i = i /\ cb.at \in {"target", "remaining", "store", "done"} => input[i].fading
        /\ cb.i = i /\ cb.at \in {"remaining", "store", "done", "volume"} => cb.target = wanted[i]
        /\ main.op = "fade" /\ main.i = i =>
               /\ wanted[i] = main.level /\ ~input[i].fading
               /\ main.step >= 3 => input[i].target = main.level
        /\ main.op = "cancel" /\ main.i = i => wanted[i] = input[i].start
        /\ main.op = "volume" /\ main.i = i => wanted[i] = main.level /\ ~input[i].fading
        /\ main.op = "live" /\ main.i = i =>
               /\ wanted[i] = IF input[i].fading /\ input[i].target = 0 THEN 0 ELSE main.level
               /\ main.step # 1 => input[i].volume = main.level
               /\ main.step = 3 => input[i].fading /\ input[i].target # 0

IndInv == TypeInv /\ ListInv /\ RaceInv /\ OverInv /\ LevelInv
=============================================================================
