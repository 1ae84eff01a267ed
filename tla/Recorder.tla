------------------------------ MODULE Recorder ------------------------------
(***************************************************************************)
(* The recorder of DMX takes (crates/cuepool/src/recorder.rs): a pass over *)
(* the wire's input, the live bridge and the scrub frame that its tick     *)
(* puts on the output, and the files of the take.                          *)
(*                                                                         *)
(* A take is a number, a file holds one, none, or Broken: what was written *)
(* of it before a write failed.  Keeping a pass and reverting one are      *)
(* several operations on files; each may fail, and the process may end     *)
(* after each, so an action picks how far it comes.  The receiver and the  *)
(* punch-in arithmetic are in an external crate and left out.              *)
(***************************************************************************)
EXTENDS Integers, Sequences

CONSTANTS
    MaxTakes,   \* bound: passes that are recorded
    MaxFailures \* bound: keeps and reverts that fail or that the process ends in

ASSUME RecorderAssumption == MaxTakes \in Nat /\ MaxFailures \in Nat

NoTake == 0
Broken == MaxTakes + 1
Contents == NoTake..Broken
Bridge == 0..1 \* what OSC and MIDI hold on the output; 0: nothing

VARIABLES
    recording, \* pass.is_some()
    monitor,   \* the pass is to be heard on the output
    bridge,    \* live
    scrub,     \* scrub.is_some()
    disk,      \* the take, its .prev, its .dmxrec.swap and its .pass
    takes,     \* number of the newest pass
    kept,      \* history: the take in use, as last kept or reverted to
    failures   \* keeps and reverts that did not come through

recorder == <<recording, monitor, bridge, scrub, disk, takes, kept, failures>>

NoFiles == [file |-> NoTake, prev |-> NoTake, swap |-> NoTake, pass |-> NoTake]

RecorderInit ==
    /\ recording = FALSE /\ monitor = TRUE /\ bridge = 0 /\ scrub = FALSE
    /\ disk = NoFiles /\ takes = 0 /\ kept = NoTake /\ failures = 0

-----------------------------------------------------------------------------
(* Files *)

\* rename(from, to), when there is a file to rename.
Rename(files, from, to) ==
    IF files[from] = NoTake THEN files
    ELSE [files EXCEPT ![to] = files[from], ![from] = NoTake]

\* stop_keep: the take so far becomes .prev, the new one is created, written,
\* and its pass removed.
KeepInPlaceSteps == \* mutant: the new take is written over the old one
    LET created == [disk EXCEPT !.file = Broken]
        written == [created EXCEPT !.file = disk.pass]
    IN  << disk, created, written, [written EXCEPT !.pass = NoTake] >>

KeepSteps ==
    LET rotated == Rename(disk, "file", "prev")
        created == [rotated EXCEPT !.file = Broken]
        written == [created EXCEPT !.file = disk.pass]
    IN  << disk, rotated, created, written, [written EXCEPT !.pass = NoTake] >>

\* revert: the take and its .prev change places by way of .swap.
RevertSteps ==
    LET aside == Rename(disk, "file", "swap")
        back == Rename(aside, "prev", "file")
    IN  << disk, aside, back, Rename(back, "swap", "prev") >>

\* The operation comes through, or stops after one of its steps.
ComesTo(steps, i) ==
    /\ disk' = steps[i]
    /\ \/ i = Len(steps) /\ UNCHANGED failures
       \/ i < Len(steps) /\ failures < MaxFailures /\ failures' = failures + 1

-----------------------------------------------------------------------------
(* Operations of the panel, of OSC and of MIDI *)

\* start: a missing take is an empty base; a broken one may be readable.
StartPass ==
    /\ ~recording /\ takes < MaxTakes
    /\ recording' = TRUE /\ takes' = takes + 1
    /\ disk' = [disk EXCEPT !.pass = takes']
    /\ UNCHANGED <<monitor, bridge, scrub, kept, failures>>

StopKeep ==
    /\ recording /\ recording' = FALSE
    /\ \E i \in DOMAIN KeepSteps :
        /\ ComesTo(KeepSteps, i)
        /\ kept' = IF disk'.file = disk.pass THEN disk.pass ELSE kept
    /\ UNCHANGED <<monitor, bridge, scrub, takes>>

Discard ==
    /\ recording /\ recording' = FALSE
    /\ disk' = [disk EXCEPT !.pass = NoTake]
    /\ UNCHANGED <<monitor, bridge, scrub, takes, kept, failures>>

Revert ==
    /\ ~recording /\ disk.prev # NoTake
    /\ \E i \in DOMAIN RevertSteps :
        /\ ComesTo(RevertSteps, i)
        /\ kept' = IF i = Len(RevertSteps) THEN disk'.file ELSE kept
    /\ UNCHANGED <<recording, monitor, bridge, scrub, takes>>

\* The process ends during a pass and is started again (Recorder::new): the
\* files are as the pass found them, with the .pass it was writing.
Crash ==
    /\ recording /\ recording' = FALSE
    /\ monitor' = TRUE /\ bridge' = 0 /\ scrub' = FALSE
    /\ UNCHANGED <<disk, takes, kept, failures>>

\* The monitor switch, a channel from OSC or MIDI, and the editor's scrub.
SetMonitor ==
    /\ monitor' = ~monitor
    /\ UNCHANGED <<recording, bridge, scrub, disk, takes, kept, failures>>

LiveInput ==
    /\ \E value \in Bridge : bridge' = value \* 0: clear_live
    /\ UNCHANGED <<recording, monitor, scrub, disk, takes, kept, failures>>

SetScrub ==
    /\ scrub' = ~scrub
    /\ UNCHANGED <<recording, monitor, bridge, disk, takes, kept, failures>>

RecorderOperation ==
    StartPass \/ StopKeep \/ Discard \/ Revert \/ SetMonitor \/ LiveInput \/ SetScrub

-----------------------------------------------------------------------------
(* tick: what the recorder holds on the output *)

NoOverlay == <<"none", 0>>

Overlay ==
    CASE recording -> IF monitor THEN <<"monitor", bridge>> ELSE NoOverlay
      [] ~recording /\ scrub -> <<"scrub", 0>>
      [] ~recording /\ ~scrub /\ bridge # 0 -> <<"live", bridge>>
      [] OTHER -> NoOverlay

-----------------------------------------------------------------------------

\* The take in use, the last that was kept or reverted to, is never lost by the
\* next keep or revert, however often the process ends during a pass and at
\* whichever step one keep or revert fails or is cut short: it is the take, the
\* one to revert to, or the one that a broken revert left aside (stop_keep and
\* revert).
LastTakeKept ==
    kept # NoTake /\ failures <= 1 =>
        kept \in {disk.file, disk.prev, disk.swap}
=============================================================================
