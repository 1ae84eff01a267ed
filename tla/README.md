# A formal model of CuePool

CuePool plays theatre shows: a list of cues (sounds, videos, images, lighting
shows, stops, fades, groups ...) that an operator starts with GO.  This
directory holds TLA+ models of its core, the TLC configurations that check them
on small instances and TLAPS proofs of what matters most.

1. [The system](#1-the-system)
2. [The modules and the code](#2-the-modules-and-the-code)
3. [What each run checks](#3-what-each-run-checks)
4. [Bounds](#4-bounds)
5. [Fairness](#5-fairness)
6. [Proofs](#6-proofs)
7. [Where code and documentation disagree](#7-where-code-and-documentation-disagree)
8. [Only model-checked, not modelled](#8-only-model-checked-not-modelled)
9. [Plan](#9-plan)

Paths below are relative to `src/crates/`.

## 1. The system

Three kinds of threads matter.  The **event loop** (winit, `cuepool/src/main.rs`)
owns the show engine, the picture's clock, the lighting engine and the project;
what the operator, a control surface or a client asks for is carried out there,
one command after another.  The **audio callback** (cpal) renders the mixer,
concurrently with everything.  **Background threads** decode: one for each audio
source, one for the current video; another one presents the video's frames; the
HTTP server runs on threads of its own, MIDI timecode comes on the driver's, and
a termination signal saves the show on yet another one.

| component | state | operations | talks to | what is hard | what makes it correct | module |
|---|---|---|---|---|---|---|
| Show engine `cuepool/src/engine.rs` | active, delayed and timecode cues; current video and picture; show clock; pause | GO, fire, select, preload, stop, pause, seek, adjust; tick; ends of videos and shows | mixer inputs (shared atomics), `EngineAction`s to the event loop | cascades inside one call; lists taken before they are worked off; video and audio halves; pauses in any state | follows start once and only when nothing was stopped; the clock is a stopwatch; what is shown as playing plays | `CueList`, `ShowEngine` |
| Mixer `cuepool-audio/src/mixer.rs` | inputs with active, finished, volume, fade fields; a snapshot for the callback | add, fade, seek, activate; render | engine, callback | five separate stores for one fade; finish flags against seeks; a stale snapshot | a level is the one asked for; what is finished is over; what can play is rendered | `Mixer` |
| Buffered source `cuepool-audio/src/buffered_source.rs` | ring, generations, target, base, eof, reset lock | seek, position, read, background loop, drop | engine, callback, decoder | lock-free seek between three threads | nothing stale is heard, the position is a place that was heard, the end is reported at the end, every seek is obeyed | `SeekableSource`, `BufferedSource` |
| Loop processor `loop_processor.rs` | pass counter, trims, position | read, seek, position | mixer, buffered source | loop points | the stated number of passes | in `ShowEngine` |
| Picture: event loop `main.rs`, `video_pipeline.rs`, `video_timing.rs` | epoch, clock, peek, pending decode, retries, fade | play, seek, step, pause, stop, fade; decode, present, end, fail | engine, GPU | late results of superseded streams, one decoder at a time, clocks that are frozen | the picture is the one of the cue's time; ends after the last frame; the newest request is served | `VideoStream` |
| Lighting `lighting_engine.rs`, `recorder.rs`, pixel sampler | crossfades, active shows, `finished_shows`, pixels, overlay, the last frame sent | go, stop, tick, take finished; record, keep, revert, scrub | event loop, Art-Net/sACN output | an end reported between two commands; a frame that is repeated; files that are renamed one by one | a follow starts once; the wire shows what is on; no take is lost | `Recorder`, `Lighting` |
| Timecode `ltc_source.rs`, `mtc_follow.rs`, cuepool-protocols | pieces received, published position, follow state | receive, time out; hold, nudge, reopen | event loop, picture's clock | lost pieces, jumps, a callback that races a timeout | a picture keeps up with a source that plays and lands where it stops | `Timecode` |
| HTTP API `api.rs`, `remote_commands.rs` | idempotency records, command queue, quit flag | request, reply, cancel, shut down | event loop | repeated, late and abandoned requests; shutdown | a key acts at most once; every request is answered; the program ends | `CommandApi` |
| Project and its commands `cuepool-gui/src/app/mod.rs`, `persist.rs`, `atomic_write.rs` | show, path, dirty flag, undo stacks, command queue, generation | edit, undo, new, open, save, pack, quit; drains | engine, file system | two drains of one queue; questions answered later; a crash in a save | no edit is thrown away unasked; what plays belongs to the open show; a file is whole | `ShowDocument` |
| Cue order `cue_order.rs` and its callers | the list, numbers, groups, selection, playhead | add, move, nudge, drop, group, copy, renumber, delete | engine | block moves with groups | groups stay together, references stay valid | `CueOrder` |
| Audio engine, devices and codecs of cuepool-audio | devices, streams | open, play, feed | driver | driver I/O | | none |
| Signal chain `eq_`, `fade_`, `limiter_`, `pan_processor.rs` ... | filters | read | mixer | floating point | | none |
| Output windows, GPU renderers, calibration | windows, textures | draw, sample | GPU | image arithmetic | | none |
| OSC and MSC | none between messages | parse, route | network | | | none |
| Panels of the interface, platform glue, harness, MCP client | | | | | | none |

The hazards that follow from this, each with its source line, are in
`PROJECT.json` under `hazards`, with the properties that watch over them.

## 2. The modules and the code

| module | models |
|---|---|
| `SeekableSource` | what `SampleProvider` promises, whoever keeps it |
| `BufferedSource` | `buffered_source.rs`: three threads, one action per access to a shared location |
| `BufferedSource_proofs` | its inductive invariant; that it implements `SeekableSource` |
| `CueList` | the cue list and the pure functions of `engine.rs` that walk it |
| `ShowEngine` | `ShowEngine` of `engine.rs` with its mixer inputs and the callback; EXTENDS `CueList` |
| `ShowEngine_proofs` | every safety property of the engine |
| `Mixer`, `Mixer_proofs` | inputs between main thread and callback, one action per load or store |
| `VideoStream`, `VideoStream_proofs` | a picture between event loop, decode thread and consume thread |
| `CommandApi`, `CommandApi_proofs` | requests, records, the command queue and the shutdown |
| `ShowDocument`, `ShowDocument_proofs` | the open show, its commands, undo and files |
| `CueOrder`, `CueOrder_proofs` | the edits of the list |
| `Recorder`, `Lighting` | the recorder; the lighting engine around it (EXTENDS `Recorder`) |
| `Timecode` | timecode receivers and the picture that follows |
| `EventLoop_proofs` | the safety properties of `Lighting` and of `Timecode` |
| `MC...` | the instances of the runs |

**BufferedSource.**  A sample is its position, so "what is heard" is a sequence
of positions.  `seek` and `position` run in the controlling thread, `bg_loop` in
the background thread and `read` in the callback; `bg`, `cb` and `ctl` hold their
program counters and locals.  The orderings used in the code (Acquire/Release on
the generations, a mutex around reset and read) make the interleaving of single
accesses the right granularity; the one relaxed flag, `eof`, is written by the
background thread only.  `try_lock` of the callback never waits: while the lock
is held it plays silence.  A reset that already holds generation *A* may obey the
target of a later seek *B*, whose own reset repeats the work; so
`HeardFromTarget` speaks of the last completed seek.

**SeekableSource** is the specification of the provider: samples follow each
other from the last target on, and `position()` answers with a place between what
was heard when it was called and what has been heard when it returns.
`BufferedSource` maps to it by its target, the samples heard since, and the call
of `position` under way (`ImplementsProvider`).

**CueList, ShowEngine.**  A cue's Q# is its place in the list; a duration in
blocks stands for file, trims and sample rate.  The event loop calls the engine
one call at a time, but one call is a cascade (a GO plays a group, a member stops
another cue, its follow plays ...) during which the callback goes on.  So a call
is a stack of tasks, `agenda`: a command pushes tasks, each action executes the
topmost one and pushes the calls it makes, in the order of the code.  An action
exists for each way through `play_cue`, for each phase of `tick` and for each
command and event.  Where the code takes a list and then works it off (finished
cues with their follow flags, due timecodes, delayed cues) the list is on the
agenda, frozen as in the code.

| variable | code |
|---|---|
| `active` | `active_cues` by instance id, which is also their order: ids are given out in ascending order and pushed; `act`, `fin`, `fade`, `pos`, `passes` are the mixer input's `active`, `finished`, fade, position and loop counter |
| `delayed`, `timecodes` | `delayed_cues`, `active_timecodes` |
| `clock` | `show_start`, `show_pause_started`, `show_paused_offset`, `show_adjustment_secs`, `triggered_timecodes` |
| `video`, `half`, `picture` | `current_video`, `pending_video_half`, `current_picture_qid` |
| `streams` | decoders that have not reported their end yet, under their epoch; reports may come arbitrarily late |
| `shows`, `doneShows` | the lighting engine's running shows and its `finished_shows` |
| `ran`, `fired`, `shown`, `log` | history, read by properties only |

**Mixer.**  The fields of an input are atomics: `start_fade`, `set_volume_live`,
`seek`, `activate` and the stops of the engine store them one by one, and a block
of the callback loads and stores them one by one.  The list of inputs is published
as a snapshot with a generation; the callback copies it when it gets the lock and
otherwise goes on with its copy.  Where an operation and a block overlap the
outcome is a mixture of both (`raced`), which the level and finish promises
except; what they say holds again with the next operation.  Loads and stores are
sequentially consistent.

**VideoStream.**  Every stream has an epoch.  The event loop's handlers take the
lock of `VideoControl` several times, the consume thread tests the epoch, lets
the lock go, uploads and writes back: each of these is an action.  The channel,
the pending decode that waits for the decoder before, the retries with their
position, the deltas of frame steps folded back an iteration later, and the fades
are all there; codecs and GPU are not.  `ctl` is what the lock guards, `app` the
fields of the event loop, `win` the handler it is in, `dec`, `con` and `chan` the
two threads and the channels between them; the receiver of a channel is in the
hands of one thread, and a channel without one is gone (`KeepHeld`).

**CommandApi.**  A handler of `POST /v1/commands` runs to its next `await`, where
its client may leave; preparations go on in blocking threads.  Records of the
history and the queue have their capacities, and the event loop executes a batch
command by command.  An accepted shutdown leads through the recorded result, the
server's end and the event loop's exit.

**ShowDocument.**  A show is a number; each edit makes a new one.  The queue is
drained by the interface and by the event loop in turn, each of which puts back
what it does not own.  `write_atomically` is done step by step by the main thread
and by the handler of a termination signal, with failing writes and renames.

**CueOrder.**  All edits of order, membership and numbers on whole lists; which
decimal `choose_qid` forms is a choice among free numbers.

**Recorder, Lighting.**  A take is a number; keeping one and reverting to one are
several file operations, of which any may fail and after any of which the process
may end; it may also end during a pass (`Crash`, in `Restart`), which touches no take
and is not counted among the failures.  The lighting engine is a loop of commands,
`take_finished_shows`, samples and tick; `wire` is the frame last sent, which the sender repeats when a
tick makes none.  Fades and shows count units of the output's interval; the shows
that play are held by cue, as a cue has at most one (`go_show` replaces it).

**Timecode.**  A unit of time is half a message.  A MIDI message is two pieces, a
low and a high digit, and `Assemble` puts together what the decoder holds, so a
lost piece does what it does in the code; an LTC frame comes whole, waits for
`refresh` to drain it (`Drained`) and is then decoded, one frame after the
other (`LoopDecode`).  The loop reads the age of the last piece (`Expired`, both in
`LoopRefresh`) and clears `playing` later (`LoopDrive`): the callback may run in
between.  `Drive` is `drive_mtc_follow` with `locate_action` and `drift_action`.  A nudge slews the clock
by at most 5 % of a turn, a fraction of a unit; in the model it moves the clock by
some or none of the turn's units, so that nothing rests on how fast it is.  The
media offset of a sought cue is 0.  The source, external, plays, stops and is moved.

Two variables are history.  `steady` counts the units since source or cue were
touched, and starts again when a position is published that the source was not at
(`Told`): a misread piece or frame is a fault the follow cannot know of before the
next position corrects it.  `back` is how far the position was set back without
reopening the picture, which is decoded forwards only.

## 3. What each run checks

| run | question | result |
|---|---|---|
| `buffered_source` | Is anything of before a seek heard after it (`HeardFromTarget`), the end reported early (`EndedAtSourceEnd`), a seek, the end or the drop ignored (`ThreadServes`), the promise of a provider broken (`ImplementsProvider`)? | no |
| `engine_control` | Sounds, pictures, groups, follows, delays, timecodes and pauses under GO, Stop, Seek, Preload and faults: one live instance of a cue, nothing chains off what was stopped, what is shown as playing is rendered, each end and timecode fires once, position and clock are true, a pause is whole, Stop is final? | yes |
| `engine_live` | Does every call return, every sound end, every video cue finish when both its halves have (`EverythingEnds`, `BothHalvesFinish`)? | yes |
| `mixer` | Is a level the one asked for, a finished input over, an input that is not over played, an added one rendered and a fade ended (`CallbackServes`)? | yes |
| `video_stream` | Is the picture on the cue's time, its frames in order and its end behind them? | yes |
| `video_live` | Does a video play out, is the newest request served, do the outputs go dark? | yes |
| `command_api` | Does a key act once and answer the same (`KeyContract`), is nothing accepted lost (`NothingLost`), do commands and shutdown come to an end (`Settles`)? | yes |
| `document` | Does a clean show equal its file, is one show played, are commands neither lost nor confirmed for another, are files whole? | yes |
| `cue_order` | Do groups stay together, references valid and blocks whole? | yes |
| `lighting` | Does a show end once (`EndsOnce`), the wire show what is on, the last take survive, no light jump, and what is over leave the output (`OutputsLetGo`)? | yes |
| `timecode` | Is a source followed wherever it was before (`FollowKeepsUp`), and does the picture land where it stops (`FollowLands`)? | yes |
| `timecode_resume` | Does a picture go on near its source when that starts again (`FreedNearSource`)? | **no** |

Some properties are conjunctions of named parts, each with its own comment in its
module (`FiresOnce` of `FinishesOnce` and `TimeCodesFireOnce`, `ThreadServes` of
`SeekIsHeard`, `PlaysToEnd` and `DropEndsThread`, and so on).  Every property of a
passing run has a mutant in `PROJECT.json`: a plausible bug (marked `mutant:` or
`Fault:` in the modules) under which TLC finds it violated.

Configurations to run by hand, each of which shows one of the disagreements of
section 7 or the edge of a model: `BufferedSourceTail.cfg` (`EndedMeansDrained`),
`ShowEngineBatch.cfg`, `ShowEngineFailed.cfg` (both with `MCShowEngine`),
`MixerSeek.cfg` (`SeekMakesPlayable`), `VideoStreamRestart.cfg`
(`PictureIsCurrent`) and `VideoStreamGhost.cfg` (`DarkAfterStop`, both with
`MCVideoStream`), `ShowDocumentUndo.cfg` (`CleanMeansSaved`, `MCShowDocument`),
`CueOrderNested.cfg` and `CueOrderTrigger.cfg` (`MCCueOrder`),
`LightingDisabled.cfg` (`DisabledReleases`, `MCLighting`), `TimecodeTorn.cfg`
(`PositionIsOneMessage`) and `TimecodeScrub.cfg` (`HeldPictureMatches`).

## 4. Bounds

* `BufferedSource`: a source of three samples, chunks and callbacks of two, a
  ring of two, two seeks.  Full and empty ring, short read, underflow, end of
  source, a seek that overtakes another at every step of its reset all occur.
  The proofs remove these bounds.
* `ShowEngine`: two to four operator commands, up to two or three ticks of the
  clock (with any number of ticks in between), cue lists of three to seven cues
  in which several are active, cascade and end in any order.  Two blocks are
  enough for a cue to be before, in and after its tail fade, two passes for a
  loop.  Left out of a run, and why: seeks of a silent video further than the
  clock is old (`PositionIsTimeShown` breaks, hazard at `engine.rs:1245`);
  failing decoders in the live run (`ShowEngineFailed.cfg`); a stopped list with
  a follow behind a recorded show (section 7); groups that contain each other,
  which the repository's tests call malformed.
* `Mixer`: one input (inputs share nothing but the list), three levels, fades of
  two frames, sources of two blocks, three operations: a fade, another one and an
  edit or seek may overlap blocks at every store.  The proofs remove these bounds.
* `VideoStream`: two frames, a channel of one, one retry, scripts of up to four
  commands of the operator (`MCVideoStream`), failures of opening and reading and
  the one-second timeout of a paused seek.  The live run has no such timeout.
* `CommandApi`: six requests, two keys, a queue and a history of two, two
  preparations: both overflow, a key is repeated before, during and after its
  record's life and reused for another command.
* `ShowDocument`: three commands, two waiting at once, two interchangeable files,
  one undo step: evicting a step happens with the second edit.
* `CueOrder`: six cues, three groups, twelve numbers; the runs take lists up to
  renaming of numbers (`VIEW Shape`).  A group is not added while a group or a
  member is selected and has no WithLast trigger: see section 7.
* `Lighting`: levels 0..2, fades of two units, eight rigs (`MCLighting`), each with
  the parts that interact: two fixtures; two shows that follow each other in each
  mode; a canvas segment or a pixel-mapped one; the recorder with two takes and one
  keep or revert that fails; a fixture beside a show.
* `Timecode`: sixteen positions, three things done to source or cue, one lost or
  misread piece; the code's 40 ms, 250 ms, 250 ms and 500 ms are 1, 3, 2 and 4
  units, in the same order; `Settle` is twelve.
  Positions have a low digit of four values, so that a piece taken from the wrong
  message is off by more than a hard sync.  The picture may be off by `Tolerance`, a
  hard sync or a floor and what receiver and loop cost; clocks stop counting at `Top`,
  beyond every position.  `TimecodeResume.cfg` has a MIDI source that
  only plays and stops and loses nothing.
* `CHECK_DEADLOCK FALSE`: a bounded behaviour stops when all commands are used,
  as the program does when nobody presses a key, or when the process has ended.

## 5. Fairness

* `BufferedSource`: the background thread loops for ever and the driver calls the
  callback; the controlling thread finishes a call it has begun.
* `ShowEngine`: a call of the engine is straight-line code and returns; the event
  loop ticks, and, the device playing, its clock advances; the callback renders
  the first `MaxVoices` inputs; while the show is not paused the current video's
  decoder eventually reports its end.  Commands and failures are not fair.
* `Mixer`: the callback runs, the main thread finishes what it began, and the
  event loop refreshes the mixer again and again (strongly, as it competes with
  operations).
* `VideoStream`: event loop, decode and consume threads are scheduled, files are
  read, time passes.  Nothing is assumed of the operator's script.
* `CommandApi`: tasks, blocking threads and the event loop run.  Clients may
  never send, leave at any time and time-outs may come or not.
* `Lighting`: the loop goes round and time passes; commands need not end.
* `ShowDocument`, `CueOrder` and `Timecode` have safety properties only.  Those of
  `Timecode` are bounded-time promises: `Pass` cannot run ahead of the event loop
  by more than `MaxLoop`, and `Settle` units later the picture must be there.

## 6. Proofs

All statements hold for every value of the constants, under the assumptions named
in the modules (`SizesAssumption`, `ShowsAssumption`, `BoundsAssumption`,
`MixerAssumption`, `DocumentAssumption`, `StreamAssumption`, `ApiAssumption`,
`RecorderAssumption`, `LightingAssumption`, `OrderAssumption`, `TimecodeAssumption`), which are types, signs
and sizes of constants; a theorem that needs more carries it as a hypothesis.

`BufferedSource_proofs`: `IndInv` is inductive (`Invariance`).  Its parts say who
holds the reset lock (`LockInv`); that a callback past its second check has the
applied generation and no reset can run (`GenInv`); that the ring, with the samples
in transit, is an interval of the source that begins at base + read count
(`RingInv`); what a reset has established at each of its steps (`ResetInv`); what
was heard since the last seek (`HeardInv`); that eof is set only at the end
(`EofInv`).  `HeardFromTarget` alone is not inductive: it says nothing of the
samples still in the ring.  `SeekCorrect` and `EndCorrect` follow.

In the same module: types (`TypeCorrect`); what a call of `position` has
loaded at each step lies between what was heard when it began and what has been
heard since (`PositionCorrect`, inductive together with `IndInv`); so every step of
`BufferedSource` is a step of `SeekableSource` or leaves it alone (`Refinement`,
which states `ImplementsProvider`).

`ShowEngine_proofs` proves every invariant of the runs `engine_control` and
`engine_live`, for any cue lists, cascades of any length and any number of
commands.  `ClockInv` = `ClockPart` (paused exactly when the clock has a pause mark;
*until = start + offset + time run* for a started clock) and `VideoPart` (a picture
is frozen exactly when paused) gives `PauseCorrect` and `ClockCorrect`; the latter
is not inductive alone, as it does not say that a pause mark never lies in the
future.  `TypeInv` adds the types of the lists and of each kind of task on the agenda
(a task names a cue of the open list and an id that was given out); `TypeCorrect`
follows, and all the rest builds on it.

* `OneLiveCorrect`: every step is one of three: some instances end and the others go
  on (`Dwindles`), one starts (`Begins`), or a preloaded one comes to life
  (`Revives`), the last two only for a cue that is not active or may retrigger.
* `FiresOnceCorrect`: `ShapeInv` says what can be on the agenda together (each
  finished instance once, the timecode phase last, during a GO only its own tasks);
  `CodesInv` relates the run's fired cues to `triggered_timecodes` and to the tasks
  that are still to trigger; `FinishInv` and `BothInv` say that an instance which
  sounds, is listed, is a half that waits or has the picture that ends it has not
  finished yet.
* `HalvesCorrect`: where the one half has ended the other one knows (`HalvesInv`).
* `PositionCorrect`: *origin + time shown = now* while the picture runs, the mark
  is the time shown while it is frozen, and that time is not beyond the engine's
  clock (`PositionInv`).
* `StopCorrect`: after a Stop nothing is left on the lists, and nothing on the agenda
  that starts anything (`StillInv`).
* `RenderedCorrect` (`RenderedInv`) and `ChainsCorrect` (`ChainInv`: what was stopped
  has lost its follow, among what plays and among what is listed to finish; what has
  chained plays no longer).

Five of these are false of the code as they stand.  Each theorem then carries the one
condition that is missing, as a property of the behaviour's steps, so that it says
where exactly the weak spot is and that there is no other one:

| theorem | holds in every behaviour in which | what happens otherwise |
|---|---|---|
| `HalvesCorrect` | no picture fails after its audio has ended (`FailsLate`) | the cue never finishes, `ShowEngineFailed.cfg`, `engine.rs:1554` |
| `PositionCorrect` | no seek goes beyond the age of the engine's clock (`SeeksWithinClock`) | the subtractions at 1245 and 1190 saturate |
| `StopCorrect` | no recorded show that ended before a Stop reports its end after it and has a follow (`NoLateFollow`) | its follow plays after the Stop, section 7 |
| `RenderedCorrect` | no seek reaches an input that has faded out and is not yet taken (`SeeksFadedOut`) | it is neither rendered nor finished for ever, section 7 |
| `ChainsCorrect` | no Stop All plays among the ends of one tick (`StopsAmongEnds`) | a follow chains off what was stopped, `ShowEngineBatch.cfg` |

`VideoStream_proofs` proves both invariants of the run `video_stream`, for any
canvases, cues, queue capacity, retries and bounds.  `TypeCorrect` includes that a
channel has a receiver, which one thread holds (`Held`).  `PictureCorrect`: to
`PictureOnCueTime` belongs that while the engine plays a video its picture has a
clock, nothing fades and no image is shown, and that a decoder is asked for, and works
for the current stream, only while there is such a clock (`Shown`): a decoder that
learns the length late moves that clock.  `FramesCorrect` follows a stream from the
decoder through the channel to the screen: `Before` is what the consume thread took
last, the channel holds the frames that come next, in order, and the marker of the end
behind the last one (`QueueInOrder`, `EndInOrder`); the receiver of the current stream
is offered or taken over (`OneStream`); `Turn` says what the thread holds at each of
its steps.  A handler that replaces a stream sets its clock and epoch before it retires
the old receiver, which the thread may take over in between (section 7); so these three
are stated outside of that window, and `Opened`, `Reported`, `Turn` and `PeekIsNext`
always.

`CommandApi_proofs` proves both invariants of the run `command_api`, for any
requests, keys and capacities.  `TalkInv`: what a handler knows of its command, and
that ids are given out in order.  `NamesInv`: ids and keys stand for one command, and
a key is known by the record of its command or among the retired ones.  `WayInv`: a
command without a result is once in queue, batch and results together; this counts
places in three sequences, and each step moves one of them (`Hits` and its lemmas).
`EndInv`: what an accepted shutdown has changed at each of its stages.
`KeysCorrect` and `NothingIsLost` follow.

`EventLoop_proofs` proves every safety property of the runs `lighting` and
`timecode`.  First `Lighting`, for any patch,
levels, shows and takes.  `LookInv`: a fade has not outlived its duration, so that a
linear fade stays between its ends; `NoJumps` (an action property) follows.
`EndsInv`: a show that plays has reported its end exactly if it is marked so, and only
a held one goes on after it; `EndsCorrect`.  `WireInv`: the frame last sent holds what
the engine has unless `dirty` is set; `WireCorrect`.  `TakesInv`: as long as no
keep or revert failed the take in use is the take on disk, after one that did it is in
one of the three files, however often the process ended during a pass; `TakesCorrect`.

`Timecode`, for any positions and durations and any number of moves and faults.
`FollowLands` and `FollowKeepsUp` promise something after a time, and are far from
inductive: they say nothing of the turns in between.  What is inductive says how long
each stage may take at most, as a bound on `steady`.

* `LandsCorrect`, when `Settle` is more than the timeout, the floor and five turns:
  a source that stands still is known to after the timeout (`Unheard`: what was
  captured is decoded in the next turn, and nothing is heard after it); then the
  picture has landed, or the last reopening is recent and gets older with each unit,
  until the floor lets the next one through (`Landing`).  The picture decoded is never
  ahead of the place shown by more than `back` and one nudge (`Overshoot`).
* `KeepsUpCorrect`: `Silence` is the longest time a source may play between two
  positions published, `MaxFaults` lost or misread ones included; `Waited` counts it
  down in each state, by pieces seen, frames queued and mismatches (`Recent`).  A
  silence is no timeout, so the source counts as playing (`Counts`) and a hold ends
  (`HeldBriefly`).  What was published is noted by the next turn (`NotedSoon`), so
  that the position noted and its age are right after two silences and three turns
  (`PlacedSoon`; before, the age may be that of a position the source left).  A
  reopening is put off only if the last one is recent, and was to the right place if
  it came after that (`Synced`); so after a floor more the clock is near the source
  and stays there (`Tracks`).

The hypotheses of `KeepsUpCorrect` are that a silence is no timeout, that the age of
a position is not cut off before a turn could see it, and that `Settle` leaves two
silences, a floor and four turns.  With the code's 500 ms a timeout is twelve units of
MIDI timecode at 25 frames (40 ms) and twenty-five of LTC (20 ms).  A turn is at
most one; so they hold with five lost pieces of MIDI timecode and with four lost or
misread frames of LTC.  The run has smaller numbers.  They meet the hypothesis of
`LandsCorrect`; for `KeepsUpCorrect` they are smaller than it asks (a timeout of four, a
`Settle` of twelve), so that the run shows the promise also where a frame of LTC that is
lost does time out, on that one instance.

`Mixer_proofs`: `IndInv` of types (`TypeInv`), list, snapshot, generation and cache
(`ListInv`), which inputs a block and an operation touch together (`RaceInv`), what
finished and inactive mean at each of their stores (`OverInv`) and where a level is
headed (`LevelInv`).  From it: `LevelCorrect`, `OverCorrect`, `PlaysCorrect` for the
run's invariants, `StaleCorrect` (a stale copy plays nothing after Stop All),
`CacheCorrect` (a current generation is a current list), `TypeCorrect`.

`ShowDocument_proofs` proves every invariant of the run `document`, for any files,
commands and bounds, in three inductive invariants.  `FlowInv`: each command is in
exactly one of queue, batch and rest or done, and what waits for an answer asks to
discard, so that a confirmation queues such a command with it; `CommandsCorrect`.
`PlayInv`: what plays is of the project the event loop last saw; `PlayCorrect`.
`DocumentInv`, which needs the type of the commands from `FlowInv`: types of the show,
of its snapshots and of the files; what a save of the main thread has established at
each of its steps while the signal handler rests (`WriteInv`); that a show which counts
as saved is in its file except between the rename and the end of a save, and during a
pack (`SavedInv`); and that once Save & Quit has saved, either something plays, and
then no other show was opened, or nothing does, and then nobody is asked again
(`QuitInv`: the API may still open another show in between, which is why the plain
statement is not inductive).  `SavedCorrect` and `FilesCorrect` follow.

`CueOrder_proofs` proves the three invariants of the run `cue_order`, for lists of any
length and any sequence of edits.  `GroupsContiguous` is not inductive: it does not
say that a group is at top level, nor that no two rows have the same number.
`Orderly` says what is, row by row: the first row is at top level, and each of the
others is at top level, a sibling of the row before it, or the first member of the
group before it; groups are at top level and numbers are different.  An edit then has
to be looked at where it puts rows side by side that were not, its seams.  Every move
of a block is one exchange of two adjacent pieces (`MovedUp`, `MovedDown`) and has
three (`SwappedOrderly`); `RemovedOrderly` and `InsertedOrderly` have one and two.
Numbers for copies are drawn by rank among those that are free (`FreeNumbers`).
`IndInv` is `Orderly` with the bound and the selection; from it follow `TypeCorrect`,
`GroupsCorrect`, `ReferencesCorrect` and `BlocksCorrect`.  The last one shows that a
nudge exchanges two blocks of the same level (`NudgeIsSwap`), which are neighbours
again afterwards (`StillNeighbours`), so that the opposite nudge exchanges them back.

Three hypotheses say where these hold.  `OpenedInOrder`: the file that was opened is
orderly, as one saved after such edits is; loading does not repair one that is not.
`MayNest = FALSE`: no group is added while a group or a member is selected, which
nests (`CueOrderNested.cfg`).  `GroupTriggers = {"Go"}`, for `ReferencesCorrect` only:
no group starts with the cue before it, or the playhead may stop inside a group
(`CueOrderTrigger.cfg`).

## 7. Where code and documentation disagree

`timecode_resume` is in `PROJECT.json` with the lines it contradicts: **a source
that starts, or starts again, reopens the picture ahead of it by the whole time it
stood still.**  The first quarter frame sets `playing`; the position is still the
old one, and its age counts from when it last changed, which is before the stop.
The reopening that puts it right waits for the floor of 250 ms.

The rest, by component; a configuration of section 3 shows those marked (cfg).

*Buffered source.*  The last chunk can be lost: `read` loads the ring length, then
`eof`; a chunk pushed and `eof` stored in between are reported as the end (cfg).

*Show engine.*  A Stop All does not stop a follow of the same tick:
`check_finished_cues` captures the follow flags first (cfg, `engine.rs:1383`, test
at 141).  LoopEnd cuts at once from the second pass on (1363).  Pause and resume
start a preloaded cue.  A picture that fails after its audio ended leaves the cue
unfinished (cfg, 1554).  A seek of a silent video beyond the age of the engine is
held at a shorter position (1245).  The follow of a recorded show that ended just
before Stop still starts: `finished_shows` is taken after it (`main.rs:3881`,
`lighting_engine.rs:253`).  A seek of a sound that has faded out, before the next tick
takes it, clears its end: it stays on the list as playing and is never rendered again.
A stop with a fade of a preloaded input never ends.

*Mixer.*  A fade that ends between the stores of `start_fade` can swallow a stop's
fade; a second fade jumps back to the level from before the first; a live edit that
meets the end of a fade is thrown away, against the doc of `set_volume_live`; a
seek that races the end stays finished; a seek of an input that has just faded out
leaves it inactive and unfinished (cfg, `mixer.rs:179`); a seek cancels a Stop
cue's fade.

*Video.*  A cue that starts between the epoch test and the upload finds its canvas
painted by the old one (cfg, `video_pipeline.rs:78`).  After a fade out has
ended, a text may light the last picture of what faded (cfg, against
`main.rs:2478`, "the next published frame goes black").  A burst of requests drops
a forced resize; a Resize may wipe a frame.  A step back starts from a stale
position.  A video started or looped while paused drifts.  An image during a stop's
fade is darkened.  `video_open_retries` is never reset by a success, against its
comment (`main.rs:613`); a retry leaves out the media offset.  A paused seek whose
frame takes more than a second is not shown.  `play_video` and
`seek_video_cue` set the new clock under one lock, `play_video` with a new epoch, and
`spawn_video_decode` retires the old receiver under the next one: a consume thread that
comes in between may take over an old receiver that was still on offer as the new
stream's, until it lets go of it at its next turn.  `apply_engine_actions` stops at its
first error, and a decode thread that cannot be spawned leaves its cue playing.

*Project.*  Undo and Redo restore the dirty flag with the show, so that after edit,
save and undo the changed show counts as saved (cfg, `app/mod.rs:134` against
`main.rs:5162`).  The temporary file's name is shared with the signal handler, whose
save during a save can leave a half-written file, against `atomic_write.rs:3`; a
failing write leaves the temporary file behind, against line 15.  Undo across New or
Open restores the old project without a new generation.  Of [Go, Open] in one queue
the Go runs after the Open, on the new show.  A failed Pack changes the show and not
its dirty flag.

*Cue order.*  A group added while a group or a member is selected nests and splits a
block (cfg, against `cue_order.rs:7`).  A group with a WithLast trigger can leave the
playhead inside a group (cfg).

*Lighting.*  Switching the only segment off, deleting or moving a fixture and
changing a priority do not make a new frame while nothing moves, and the old one is
repeated (cfg, against `lighting_engine.rs:361`).  A refire between a show's end and
`take_finished_shows` starts its follow now and again later; Stop All keeps
`finished_shows`.  Shows neither advance nor end without a sender.  A readback in
flight is shown when its cue or segment starts again, however old.  A second keep
that fails can lose the last good take, the `.pass` of a failed keep or of a process
that ended is cut by the next pass, and a process that ends between two renames leaves a `.swap` file.

*Timecode.*  A receiver that joins in mid-sequence, or loses one quarter frame, puts
positions together from two messages from then on (cfg, against `mtc.rs:4`); full
frames do not realign it.  `tick` may clear `playing` just set by a quarter frame,
which the next one repairs.  During a pause of the show the follow reopens every
250 ms.  A locate within the deadband, and a start within 250 ms, set the position
back without reopening the picture; such steps add up, and the picture held may be
any distance ahead of the place held (cfg, `mtc_follow.rs:54`, `main.rs:2663`,
against `timecode-follow.md:26`, "snaps the video to the matching frame").

*Control surfaces* (no module).  Two OSC GOs to cues in one drain select twice before
either runs; OSC Pause while paused resumes; commands queued in the interface before
an API GO run after it; the wall-clock trigger is missed if the loop stalls for more
than a second and not cleared when the project changes.

## 8. Only model-checked, not modelled

Every safety property that a passing run checks is proved, under the hypotheses that
section 6 names where there are any.  Liveness under fairness is out of the prover's
reach and is model-checked only: `ThreadServes`, `EverythingEnds`, `CallbackServes`,
`PlaysOut`, `RequestsServed`, `GoesDark`, `Settles` and `OutputsLetGo`.  That every call of the engine returns
is liveness, and that what is proved holds of the engine *and* the mixer's five stores
together is not stated: `ShowEngine` has an input of its own, with one step where
`Mixer` has several.

Not modelled inside a modelled component: the engine's `set_level` and `snapshot`;
crosspoints and gains of the mixer and the leak of its list (`remove_input` has no
caller); frame leases and the submit queue; the API's read-only routes and event
stream; the show-mode lock of edits; settings and the crash-recovery file, which are
saved like a show; more than one lighting destination and merging, which an external
crate does; ports that come and go, frame rates and LTC's signal decoding.

Not modelled at all: device and codec I/O, floating-point signal processing, GPU,
window and image code, drawing, parsing of single OSC and MSC messages, data types
without state, platform glue, the test harness and the MCP client.

## 9. Plan

1. *Composition*: the abstract mixer input of `ShowEngine` as a specification that
   `Mixer` implements, with `raced` inputs excepted.
2. *Loop processor* over `SeekableSource`: partial reads at loop points, trims.
3. *Frame pool, leases and submit queue* of cuepool-video: conservation of frames.
4. *Control surfaces*: triggers, OSC and API commands in one iteration of the loop,
   composed with `ShowDocument`'s queue; the wall clock and project changes.
