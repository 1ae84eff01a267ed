------------------------------ MODULE Lighting ------------------------------
(***************************************************************************)
(* Lighting output: crossfades of fixtures, recorded DMX shows, sampled    *)
(* pixels and the recorder's overlay, merged into the frame that is sent   *)
(* (crates/cuepool/src/lighting_engine.rs, recorder.rs, their callers in   *)
(* main.rs and crates/cuepool-video/src/pixel_sampler.rs).                 *)
(*                                                                         *)
(* The event loop goes round: commands, the ends of shows, samples, the    *)
(* tick.  Time passes in units of the output's interval (1/60 s), between  *)
(* any two steps; what has a duration counts the units since its start, up *)
(* to the last one that matters.  A look is one level, fades are linear,   *)
(* and the weight of a show is kept as the counts it is computed from.     *)
(* There is one destination; merging by priority is in an external crate,  *)
(* and a frame here is the layers it is given.  Shows are kept by cue, of  *)
(* which one plays at most once: the order in which they were started      *)
(* breaks the ties of the merge and is left out with it.                   *)
(***************************************************************************)
EXTENDS Recorder, FiniteSets

CONSTANTS
    Rigs,        \* what is patched, recorded, mapped and in use
    Full,        \* the highest level of a look
    FadeTimes    \* of crossfades and of stops, in units of time

Modes == {"OneShot", "HoldLast", "Looped", "LoopedInfinite"}
NoShow == 0
Levels == 0..Full
ShowNumbers == UNION {DOMAIN r.shows : r \in Rigs}
SegmentNumbers == UNION {r.canvas \union r.pixelmap : r \in Rigs}
Take ==
    [len : Nat, mode : Modes, count : Nat, fadeIn : Nat, fadeOut : Nat, next : Nat]

\* next: the show cue that follows one AfterLast.
Rig(r) ==
    /\ DOMAIN r = {"fixtures", "shows", "canvas", "pixelmap", "recorder"}
    /\ IsFiniteSet(r.fixtures) /\ r.shows \in Seq(Take)
    /\ \A q \in DOMAIN r.shows : r.shows[q].next \in 0..Len(r.shows)
    /\ IsFiniteSet(r.canvas \union r.pixelmap) /\ r.canvas \intersect r.pixelmap = {}
    /\ r.recorder \in BOOLEAN

ASSUME LightingAssumption ==
    /\ \A r \in Rigs : Rig(r)
    /\ Full \in Nat /\ FadeTimes \subseteq Nat /\ 0 \in FadeTimes

VARIABLES
    rig,      \* the show file's patch
    phase,    \* what the event loop has come to: commands, output, tick
    enabled,  \* cfg.enabled
    lit,      \* segments that are enabled
    applied,  \* what the sender was built from
    wire,     \* the frame the sender repeats, NoSender without one
    live, fades, shows, pixels, overlay, dirty, \* LightingEngine; shows by cue
    due, sampleDue, \* the interval since the last tick, and sample, has passed
    finished, \* finished_shows
    source,   \* the PixelMap cue that runs, 0 for none
    texture,  \* the cue whose picture the PixelMap texture shows, Blank, NoTexture
    flight,   \* per segment the cue whose picture is being read back
    ends      \* history: ends reported of a show since it was last started

looks == <<live, fades>>
sampler == <<source, texture, flight, sampleDue>>
vars == <<recorder, rig, phase, enabled, lit, applied, wire, live, fades, shows,
          pixels, overlay, dirty, due, sampleDue, finished, source, texture,
          flight, ends>>

Fixtures == rig.fixtures
Segments == rig.canvas \union rig.pixelmap
Qids == DOMAIN rig.shows
NoSender == [sender |-> "none"]
NoFade == [age |-> 0, dur |-> 0, from |-> 0, to |-> 0]
NoStop == [age |-> 0, dur |-> -1]
NoShows == << >>
NoPixels == -1
NoTexture == -1
Blank == 0
Blanked == IF texture = NoTexture THEN NoTexture ELSE Blank \* stop_pixmap
Canvas == 0 \* the picture of a canvas segment
Running == 1..2 \* PixelMap cues, told apart from the one before

Init ==
    /\ RecorderInit
    /\ rig \in Rigs
    /\ phase = "commands" /\ enabled \in BOOLEAN /\ lit = Segments
    /\ applied = FALSE /\ wire = NoSender
    /\ live = [f \in Fixtures |-> 0] /\ fades = [f \in Fixtures |-> NoFade]
    /\ shows = NoShows /\ finished = {}
    /\ pixels = [s \in Segments |-> NoPixels] /\ overlay = NoOverlay
    /\ dirty = FALSE /\ due = TRUE /\ sampleDue = TRUE
    /\ source = 0 /\ texture = NoTexture /\ flight = [s \in Segments |-> NoPixels]
    /\ ends = [q \in Qids |-> -1]

-----------------------------------------------------------------------------
(* Looks *)

Fading(f) == fades[f] # NoFade

\* evaluate, for one fixture.
Look(f) ==
    LET fade == fades[f] IN
    IF ~Fading(f) THEN live[f]
    ELSE fade.from + ((fade.to - fade.from) * fade.age) \div fade.dur

Completed(f) == fades[f].age >= fades[f].dur
Evaluated == [f \in Fixtures |-> Look(f)]

\* go_at with a fade: from the look of this moment, not from the last one sent.
FadeFromSent(to, dur) == \* mutant: from the look of the last tick
    [f \in Fixtures |-> IF f \in DOMAIN to
        THEN [age |-> 0, dur |-> dur, from |-> live[f], to |-> to[f]]
        ELSE IF Completed(f) THEN NoFade ELSE fades[f]]

FadeTo(to, dur) ==
    [f \in Fixtures |-> IF f \in DOMAIN to
        THEN [age |-> 0, dur |-> dur, from |-> Look(f), to |-> to[f]]
        ELSE IF Completed(f) THEN NoFade ELSE fades[f]]

-----------------------------------------------------------------------------
(* Recorded shows *)

TakeOf(q) == rig.shows[q]
Playing(q) == q \in DOMAIN shows
Max2(a, b) == IF a < b THEN b ELSE a
Min2(a, b) == IF a < b THEN a ELSE b

\* The age at which a finite show ends; one that does not is counted until its
\* fade-in is over and its end is announced.
End(take) ==
    CASE take.mode = "OneShot" -> take.len
      [] take.mode = "Looped" -> take.len * Max2(take.count, 1)
      [] take.mode = "HoldLast" -> Max2(take.len, take.fadeIn)
      [] take.mode = "LoopedInfinite" -> take.fadeIn + take.len

Finite(take) == take.mode \in {"OneShot", "Looped"}

Later(q) ==
    LET take == TakeOf(q) IN
    [shows[q] EXCEPT
        !.age = IF @ + 1 < End(take) THEN @ + 1
                ELSE IF take.mode = "LoopedInfinite" THEN End(take) - take.len
                ELSE End(take),
        !.stop.age = Min2(@ + 1, Max2(shows[q].stop.dur, 0))]

\* eval: the show is over, or a held one has come to its last frame.
Released(q) ==
    \/ TakeOf(q).len = 0
    \/ Finite(TakeOf(q)) /\ shows[q].age >= End(TakeOf(q))
    \/ shows[q].stop # NoStop /\ shows[q].stop.age >= shows[q].stop.dur

ReportsAlways(q) == \* mutant: a held show is reported again when it stops
    \/ Released(q)
    \/ /\ ~shows[q].reported /\ TakeOf(q).mode = "HoldLast"
       /\ shows[q].age >= TakeOf(q).len

Reports(q) ==
    /\ ~shows[q].reported
    /\ \/ Released(q)
       \/ TakeOf(q).mode = "HoldLast" /\ shows[q].age >= TakeOf(q).len

Position(q) ==
    IF TakeOf(q).mode \in {"OneShot", "HoldLast"} THEN Min2(shows[q].age, TakeOf(q).len)
    ELSE shows[q].age % TakeOf(q).len

\* The merge layer: frame and weight, as the counts the weight is made of.
Layer(q) ==
    LET take == TakeOf(q)
        age  == shows[q].age
    IN  [at |-> Position(q), in |-> Min2(age, take.fadeIn),
         tail |-> IF Finite(take) THEN Max2(age - Max2(End(take) - take.fadeOut, 0), 0) ELSE 0,
         stop |-> shows[q].stop]

\* go_show: a show that plays is taken off and starts again.
Started(Q) ==
    [q \in DOMAIN shows \union Q |->
        IF q \in Q THEN [age |-> 0, stop |-> NoStop, reported |-> FALSE] ELSE shows[q]]

-----------------------------------------------------------------------------
(* Commands: engine actions and those of the panels *)

Idle == UNCHANGED <<recorder, rig, phase, enabled, lit, applied, wire, due>>
Engine == UNCHANGED <<looks, shows, pixels, overlay, finished, ends, dirty>>

\* set_overlay is called in every round, and a change of what it was or is.
IsDirty == dirty \/ overlay # NoOverlay \/ Overlay # NoOverlay

\* Cue::Lighting and the inspector's live edits (go).
Go ==
    /\ phase = "commands"
    /\ \E dur \in FadeTimes \ {0}, S \in SUBSET Fixtures \ {{}} :
        \E to \in [S -> {0, Full}] : fades' = FadeTo(to, dur)
    /\ live' = Evaluated /\ dirty' = TRUE
    /\ Idle /\ UNCHANGED <<sampler, shows, pixels, overlay, finished, ends>>

Snap ==
    /\ phase = "commands"
    /\ \E S \in SUBSET Fixtures \ {{}} : \E to \in [S -> {0, Full}] :
        /\ live' = [f \in Fixtures |-> IF f \in S THEN to[f] ELSE Look(f)]
        /\ fades' = [f \in Fixtures |->
                        IF f \in S \/ Completed(f) THEN NoFade ELSE fades[f]]
    /\ dirty' = TRUE
    /\ Idle /\ UNCHANGED <<sampler, shows, pixels, overlay, finished, ends>>

GoShow ==
    /\ phase = "commands"
    /\ \E q \in Qids : shows' = Started({q}) /\ ends' = [ends EXCEPT ![q] = 0]
    /\ dirty' = TRUE
    /\ Idle /\ UNCHANGED <<sampler, looks, pixels, overlay, finished>>

\* stop_show: a fade that has begun is not begun again, a cut overrides it.
StopAnew(show, dur) == [show EXCEPT !.stop = [age |-> 0, dur |-> dur]] \* mutant

Stopping(show, dur) ==
    IF dur > 0 /\ show.stop # NoStop THEN show
    ELSE [show EXCEPT !.stop = [age |-> 0, dur |-> dur]]

StopShow ==
    /\ phase = "commands"
    /\ \E q \in DOMAIN shows, dur \in FadeTimes :
        shows' = [shows EXCEPT ![q] = Stopping(shows[q], dur)]
    /\ dirty' = TRUE
    /\ Idle /\ UNCHANGED <<sampler, looks, pixels, overlay, finished, ends>>

Forgotten == [q \in Qids |-> IF Playing(q) THEN -1 ELSE ends[q]]

\* stop_external_outputs: looks are held, shows dropped, the PixelMap ended.
StopAll ==
    /\ phase = "commands"
    /\ live' = Evaluated /\ fades' = [f \in Fixtures |-> NoFade]
    /\ shows' = NoShows /\ ends' = Forgotten
    /\ dirty' = (dirty \/ shows # NoShows \/ \E f \in Fixtures : Fading(f))
    /\ source' = 0 /\ texture' = Blanked
    /\ Idle /\ UNCHANGED <<pixels, overlay, finished, flight, sampleDue>>

\* reset_for_project_change (the new project has the same patch).
ProjectChange ==
    /\ phase = "commands"
    /\ wire' = NoSender /\ applied' = FALSE
    /\ live' = [f \in Fixtures |-> 0] /\ fades' = [f \in Fixtures |-> NoFade]
    /\ shows' = NoShows /\ finished' = {} /\ ends' = [q \in Qids |-> -1]
    /\ overlay' = NoOverlay /\ pixels' = [s \in Segments |-> NoPixels]
    /\ dirty' = FALSE
    /\ source' = 0 /\ texture' = NoTexture /\ flight' = [s \in Segments |-> NoPixels]
    /\ UNCHANGED <<recorder, rig, phase, enabled, lit, due, sampleDue>>

\* The lighting panel.
ToggleOutput ==
    /\ phase = "commands" /\ enabled' = ~enabled
    /\ UNCHANGED <<recorder, rig, phase, lit, applied, wire, due>>
    /\ UNCHANGED sampler /\ Engine

ToggleSegment ==
    /\ phase = "commands"
    /\ \E s \in Segments : lit' = (lit \ {s}) \union ({s} \ lit)
    /\ UNCHANGED <<recorder, rig, phase, enabled, applied, wire, due>>
    /\ UNCHANGED sampler /\ Engine

\* play_pixmap, stop_pixmap and upload_pixmap_frames: frames of the stream,
\* and its end, which leaves the last one in the texture.
PlayPixmap ==
    /\ phase = "commands" /\ rig.pixelmap # {}
    /\ source' \in Running \ {source, texture}
    /\ Idle /\ Engine /\ UNCHANGED <<texture, flight, sampleDue>>

StopPixmap ==
    /\ phase = "commands" /\ source # 0
    /\ source' = 0 /\ texture' = Blanked
    /\ Idle /\ Engine /\ UNCHANGED <<flight, sampleDue>>

UploadPixmap ==
    /\ phase = "commands" /\ source # 0
    /\ \/ texture' = source /\ source' \in {source, 0}
       \/ texture' = texture /\ source' = 0
    /\ Idle /\ Engine /\ UNCHANGED <<flight, sampleDue>>

Recording ==
    /\ phase = "commands" /\ rig.recorder
    /\ RecorderOperation
    /\ UNCHANGED <<rig, phase, enabled, lit, applied, wire, due>>
    /\ UNCHANGED sampler /\ Engine

Restart ==
    /\ rig.recorder /\ Crash
    /\ phase' = "commands" /\ applied' = FALSE /\ wire' = NoSender
    /\ live' = [f \in Fixtures |-> 0] /\ fades' = [f \in Fixtures |-> NoFade]
    /\ shows' = NoShows /\ finished' = {} /\ ends' = [q \in Qids |-> -1]
    /\ overlay' = NoOverlay /\ pixels' = [s \in Segments |-> NoPixels]
    /\ dirty' = FALSE /\ due' = TRUE /\ sampleDue' = TRUE
    /\ source' = 0 /\ texture' = NoTexture /\ flight' = [s \in Segments |-> NoPixels]
    /\ UNCHANGED <<rig, enabled, lit>>

Command ==
    \/ Go \/ Snap \/ GoShow \/ StopShow \/ StopAll \/ ProjectChange
    \/ ToggleOutput \/ ToggleSegment \/ PlayPixmap \/ StopPixmap \/ UploadPixmap
    \/ Recording \/ Restart

\* take_finished_shows: the cue behind each is started (finish_external).
TakeFinished ==
    LET follows == {TakeOf(q).next : q \in finished} \ {NoShow}
    IN
    /\ phase = "commands" /\ phase' = "output"
    /\ shows' = Started(follows)
    /\ ends' = [q \in Qids |-> IF q \in follows THEN 0 ELSE ends[q]]
    /\ finished' = {} /\ dirty' = (dirty \/ follows # {})
    /\ UNCHANGED <<recorder, rig, enabled, lit, applied, wire, due>>
    /\ UNCHANGED <<sampler, looks, pixels, overlay>>

-----------------------------------------------------------------------------
(* The output *)

\* The segments whose source has a picture.
Batch == {s \in lit : s \in rig.canvas \/ (source # 0 /\ texture # NoTexture)}
Picture(s) == IF s \in rig.canvas THEN Canvas ELSE texture

\* The readbacks that have arrived (collect) feed the engine, the segments
\* without a source are released, and those not in flight are sampled.
Sampled(ready) ==
    [s \in Segments |-> CASE s \in ready -> flight[s]
                          [] s \notin ready /\ s \in lit \ Batch -> NoPixels
                          [] OTHER -> pixels[s]]

Sample ==
    /\ phase = "output" /\ enabled /\ sampleDue
    /\ \E ready \in SUBSET {s \in Segments : flight[s] # NoPixels} :
        /\ Batch = {} => ready = {}
        /\ pixels' = Sampled(ready)
        /\ flight' = [s \in Segments |->
               IF s \in Batch /\ (s \in ready \/ flight[s] = NoPixels) THEN Picture(s)
               ELSE IF s \in ready THEN NoPixels ELSE flight[s]]
        /\ dirty' = (dirty \/ ready # {} \/ pixels' # pixels)
    /\ sampleDue' = (Batch = {})
    /\ phase' = "tick"
    /\ UNCHANGED <<recorder, rig, enabled, lit, applied, wire, due>>
    /\ UNCHANGED <<looks, shows, overlay, finished, source, texture, ends>>

NoSample ==
    /\ phase = "output" /\ ~(enabled /\ sampleDue) /\ phase' = "tick"
    /\ UNCHANGED <<recorder, rig, enabled, lit, applied, wire, due>>
    /\ UNCHANGED sampler /\ Engine

\* The layers of the frame: looks, segments' pixels, shows, overlay.
Frame(now, dots, over, Q) ==
    [looks |-> now, dots |-> dots, over |-> over, layers |-> [q \in Q |-> Layer(q)]]

Kept == {q \in DOMAIN shows : ~Released(q)}
LitPixels == [s \in Segments |-> IF s \in lit THEN pixels[s] ELSE NoPixels]
Animating == shows # NoShows \/ \E f \in Fixtures : Fading(f)

\* recorder.tick comes in every round, tick does its work once in an interval.
Throttled ==
    /\ phase = "tick" /\ ~due /\ phase' = "commands"
    /\ overlay' = Overlay /\ dirty' = IsDirty
    /\ UNCHANGED <<recorder, rig, enabled, lit, applied, wire, due>>
    /\ UNCHANGED <<sampler, looks, shows, pixels, finished, ends>>

\* reconcile_sender; a transport that does not open is not tried again.
Opens == enabled /\ ~applied
Closes == ~enabled /\ applied

Ticks ==
    /\ phase = "tick" /\ due /\ phase' = "commands"
    /\ due' = FALSE /\ applied' = enabled /\ overlay' = Overlay
    /\ UNCHANGED <<recorder, rig, enabled, lit, sampler>>

\* Without a sender shows and fades do not advance; with nothing new the sender
\* repeats the frame it has.
Quiet ==
    /\ Ticks /\ dirty' = IsDirty
    /\ \/ (Opens \/ Closes) /\ wire' = NoSender
       \/ ~Opens /\ ~Closes /\ wire' = wire /\ (wire = NoSender \/ ~(Animating \/ IsDirty))
    /\ UNCHANGED <<looks, shows, pixels, finished, ends>>

Advances ==
    LET reports == {q \in DOMAIN shows : Reports(q)} IN
    /\ live' = Evaluated
    /\ fades' = [f \in Fixtures |-> IF Completed(f) THEN NoFade ELSE fades[f]]
    /\ pixels' = LitPixels
    /\ finished' = finished \union reports
    /\ ends' = [q \in Qids |-> IF q \in reports THEN ends[q] + 1 ELSE ends[q]]
    /\ shows' = [q \in Kept |-> [shows[q] EXCEPT !.reported = @ \/ q \in reports]]
    /\ dirty' = FALSE

Sends == Opens \/ (~Closes /\ wire # NoSender /\ (Animating \/ IsDirty))

SubmitAll == \* mutant: a show that ends stays in its last frame
    /\ Ticks /\ Sends /\ Advances
    /\ wire' = Frame(Evaluated, LitPixels, Overlay, DOMAIN shows)

Submit ==
    /\ Ticks /\ Sends /\ Advances
    /\ wire' = Frame(Evaluated, LitPixels, Overlay, Kept)

Elapse ==
    /\ due' = TRUE /\ sampleDue' = TRUE
    /\ fades' = [f \in Fixtures |-> [fades[f] EXCEPT !.age = Min2(@ + 1, fades[f].dur)]]
    /\ shows' = [q \in DOMAIN shows |-> Later(q)]
    /\ UNCHANGED <<recorder, rig, phase, enabled, lit, applied, wire, live, pixels,
                   overlay, dirty, finished, source, texture, flight, ends>>

Output == Sample \/ NoSample \/ Throttled \/ Quiet \/ Submit
Next == Command \/ TakeFinished \/ Output \/ Elapse

LightingSpec == Init /\ [][Next]_vars

\* The event loop goes round and time passes.
FairSpec ==
    LightingSpec /\ WF_vars(TakeFinished \/ Output) /\ WF_vars(Elapse)

-----------------------------------------------------------------------------

TypeOK ==
    /\ phase \in {"commands", "output", "tick"}
    /\ \A f \in Fixtures : live[f] \in Levels /\ Look(f) \in Levels
    /\ DOMAIN shows \subseteq Qids
    /\ \A q \in DOMAIN shows : shows[q].age \in 0 .. End(TakeOf(q))
    /\ lit \subseteq Segments /\ overlay[1] \in {"none", "live", "scrub", "monitor"}
    /\ wire = NoSender \/ DOMAIN wire = {"looks", "dots", "over", "layers"}

\* The end of a show is reported exactly once for each time it is started: when
\* it has run out or was stopped, and for a held one when its last frame is
\* reached, but not again when it is stopped (finished_reported in eval).  What
\* follows it is started as often.
EndsOnce ==
    \A q \in Qids : ends[q] # -1 =>
        /\ ends[q] <= 1
        /\ ~Playing(q) => ends[q] = 1
        /\ Playing(q) /\ ends[q] = 1 => TakeOf(q).mode = "HoldLast"

\* While nothing moves and nothing is to be sent, the frame that the sender
\* repeats is the merge of what the engine holds: no layer that has ended, been
\* released or replaced stays on the wire (dirty in tick).  Only the segments
\* that are switched off are not looked at.
WireIsCurrent ==
    wire # NoSender /\ ~dirty /\ ~Animating =>
        /\ wire.looks = Evaluated /\ wire.layers = NoShows /\ wire.over = overlay
        /\ \A s \in lit : wire.dots[s] = pixels[s]

\* No light jumps: only time and a change without a fade move a look, a fade
\* starts where the look is, mid-fade included, and a look no cue addresses
\* goes on as it was (go_at, evaluate and stop_fade_at).
NoLightJumps ==
    [][ \/ Elapse \/ ProjectChange \/ Restart
        \/ \A f \in Fixtures : Look(f)' = Look(f) \/ (Snap /\ ~Fading(f)' /\ live'[f] \in {0, Full})
      ]_vars

\* A show that runs out, and every show that is stopped, is released, however
\* often it is stopped again, as long as there is an output.
ShowsEnd ==
    \A q \in ShowNumbers :
        []<>(\/ wire = NoSender
             \/ ~(/\ Playing(q) /\ shows[q].age > 0
                  /\ Finite(TakeOf(q)) \/ shows[q].stop # NoStop))

\* The segments of a PixelMap cue that has ended leave the output, although a
\* sample of it may still be read back.
GoneSourceReleases ==
    \A s \in SegmentNumbers :
        []<>(\/ source # 0 \/ ~enabled \/ wire = NoSender
             \/ s \notin rig.pixelmap \/ s \notin lit
             \/ wire.dots[s] = NoPixels)

\* Whatever is over leaves the output: shows that run out or are stopped, and
\* the pixels of a cue that has ended.
OutputsLetGo == ShowsEnd /\ GoneSourceReleases

\* A segment that is switched off leaves the output.
DisabledReleases ==
    \A s \in SegmentNumbers :
        []<>(\/ s \in lit \/ s \notin Segments \/ wire = NoSender
             \/ wire.dots[s] = NoPixels)
=============================================================================
