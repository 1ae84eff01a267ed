---------------------------- MODULE ShowDocument ----------------------------
(***************************************************************************)
(* The open show file, its queue of commands and the ways it is saved,     *)
(* replaced and left (crates/cuepool-gui/src/app/mod.rs, the event loop of *)
(* crates/cuepool/src/main.rs, persist.rs and atomic_write.rs).            *)
(*                                                                         *)
(* The commands an operator gives wait in one queue that two drains take   *)
(* over in turn: the interface, which owns what edits and saves the show,  *)
(* and the event loop, which owns what plays it.  Each puts back what it   *)
(* does not own.  Both run on the main thread; a signal handler saves the  *)
(* show from a thread of its own while they do.                            *)
(*                                                                         *)
(* A show is known by a number: 0 is the blank show, and each edit makes a *)
(* new one.                                                                *)
(***************************************************************************)
EXTENDS Integers, Sequences

CONSTANTS
    Paths,       \* files of shows
    NoPath,      \* the path of a show that was never saved
    UndoDepth,   \* UndoRedo::max_depth
    Commands,    \* bound: what the operator may ask for
    MaxCommands, \* bound: how often
    MaxQueue     \* bound: commands that wait at once

ASSUME DocumentAssumption ==
    /\ NoPath \notin Paths /\ UndoDepth \in Nat \ {0}
    /\ MaxCommands \in Nat /\ MaxQueue \in Nat \ {0}
    /\ Commands \subseteq {"Edit", "Type", "New", "Open", "Save", "SaveAs", "Pack", "Undo", "Redo",
                           "Go", "Stop"}

Partial == -1  \* a file that is being written
Absent  == -2  \* a file that does not exist

VARIABLES
    doc,     \* SharedState: show, path, dirty
    undo,    \* UndoRedo::undo_stack, snapshots with their merge key
    redo,    \* UndoRedo::redo_stack
    gen,     \* project_generation
    seen,    \* App::last_project_generation
    playing, \* the generation whose cues play, -1 for none
    queue,   \* command_queue
    turn,    \* the drain that runs: "none", "interface" or "loop"
    batch,   \* the commands it took
    left,    \* those it puts back
    parked,  \* pending_discard_confirm
    sure,    \* discard_confirmed
    asking,  \* pending_close_confirm
    quit,    \* how the operator chose to quit, what was saved then, and at which command
    exit,    \* how the process ended, "no" while it runs
    disk,    \* the show in each file
    temp,    \* the show in the temporary file next to it
    writer,  \* write_atomically, by the main thread and by the signal handler
    given,   \* bound, and count of the commands given
    done,    \* history: commands that were carried out or turned down
    fresh,   \* history: the last show an edit made
    astray   \* history: an undo, a redo or a failed pack changed the show

vars == <<doc, undo, redo, gen, seen, playing, queue, turn, batch, left, parked, sure, asking, quit,
          exit, disk, temp, writer, given, done, fresh, astray>>

desk  == <<undo, redo, gen, seen, playing>>         \* not touched by a save
flow  == <<queue, turn, batch, left, parked, sure, asking, quit, given, done>>
files == <<disk, temp, writer>>

Threads == {"main", "signal"}
Idle == [step |-> "idle", path |-> NoPath, show |-> 0, inode |-> "none", why |-> "save"]
Command == [op : Commands, path : Paths \union {NoPath}]
Snapshot == [show |-> doc.show, path |-> doc.path, dirty |-> doc.dirty, key |-> "none"]
Running == exit = "no"

\* No drain runs and no save is under way on the main thread.
MainFree == Running /\ turn = "none" /\ writer["main"].step = "idle"

Init ==
    /\ doc = [show |-> 0, path |-> NoPath, dirty |-> FALSE]
    /\ undo = <<>> /\ redo = <<>>
    /\ gen = 0 /\ seen = 0 /\ playing = -1
    /\ queue = <<>> /\ turn = "none" /\ batch = <<>> /\ left = <<>>
    /\ parked = <<>> /\ sure = FALSE /\ asking = FALSE /\ exit = "no"
    /\ quit = [how |-> "no", path |-> NoPath, show |-> 0, at |-> 0]
    /\ disk = [p \in Paths |-> Absent]
    /\ temp = [p \in Paths |-> Absent]
    /\ writer = [t \in Threads |-> Idle]
    /\ given = 0 /\ done = 0 /\ fresh = 0 /\ astray = FALSE

-----------------------------------------------------------------------------
(* Undo and redo *)

\* UndoRedo::push: the first snapshot of a run of edits with one key is kept.
Merges(key) == key # "none" /\ undo # <<>> /\ undo[Len(undo)].key = key

PushOver(stack, snapshot) ==
    LET longer == Append(stack, snapshot)
    IN  IF Len(longer) > UndoDepth THEN Tail(longer) ELSE longer

PushUndo(key) ==
    /\ redo' = <<>>
    /\ undo' = IF Merges(key) THEN undo ELSE PushOver(undo, [Snapshot EXCEPT !.key = key])

Restore(snapshot) ==
    doc' = [show |-> snapshot.show, path |-> snapshot.path, dirty |-> snapshot.dirty]

\* An edit, and a step of a run of edits that undo as one.
EditShow(key) ==
    /\ PushUndo(key)
    /\ fresh' = fresh + 1
    /\ doc' = [doc EXCEPT !.show = fresh + 1, !.dirty = TRUE]
    /\ UNCHANGED <<gen, seen, playing, astray>>

\* Undo and Redo put the snapshot's dirty flag back with it.
UndoEdit ==
    /\ IF undo = <<>>
       THEN UNCHANGED <<doc, undo, redo, astray>>
       ELSE /\ Restore(undo[Len(undo)])
            /\ undo' = SubSeq(undo, 1, Len(undo) - 1)
            /\ redo' = Append(redo, Snapshot)
            /\ astray' = TRUE
    /\ UNCHANGED <<gen, seen, playing, fresh>>

RedoEdit ==
    /\ IF redo = <<>>
       THEN UNCHANGED <<doc, undo, redo, astray>>
       ELSE /\ Restore(redo[Len(redo)])
            /\ redo' = SubSeq(redo, 1, Len(redo) - 1)
            /\ undo' = Append(undo, Snapshot)
            /\ astray' = TRUE
    /\ UNCHANGED <<gen, seen, playing, fresh>>

-----------------------------------------------------------------------------
(* Files: write_atomically, one step of the file system at a time *)

Other(t) == CHOOSE u \in Threads : u # t

Begin(t, path, show, why) ==
    /\ writer' = [writer EXCEPT ![t] = [step |-> "create", path |-> path, show |-> show,
                                        inode |-> "none", why |-> why]]
    /\ UNCHANGED <<disk, temp>>

CreateInPlace(t) == \* mutant: the target itself is truncated
    /\ Running /\ writer[t].step = "create"
    /\ temp' = [temp EXCEPT ![writer[t].path] = Partial]
    /\ disk' = [disk EXCEPT ![writer[t].path] = Partial]
    /\ writer' = [writer EXCEPT ![t].step = "fill", ![t].inode = "temp"]
    /\ UNCHANGED <<doc, desk, flow, exit, fresh, astray>>

\* fs::write creates or truncates the temporary file, then fills it.  Both
\* threads give it the same name.
CreateTemp(t) ==
    /\ Running /\ writer[t].step = "create"
    /\ temp' = [temp EXCEPT ![writer[t].path] = Partial]
    /\ writer' = [writer EXCEPT ![t].step = "fill", ![t].inode = "temp"]
    /\ UNCHANGED <<doc, desk, flow, exit, disk, fresh, astray>>

\* What the open file holds once s is written over what the other thread
\* wrote there: the longer of two shows keeps its tail.
Mixed(old, s) == IF old \in {Partial, s} THEN {s} ELSE {s, Partial}

\* The other thread may have renamed the open file meanwhile.
FillTemp(t) ==
    /\ Running /\ writer[t].step = "fill"
    /\ LET w == writer[t]
       IN  \/ /\ w.inode = "temp"
              /\ \E s \in Mixed(temp[w.path], w.show) : temp' = [temp EXCEPT ![w.path] = s]
              /\ UNCHANGED disk
           \/ /\ w.inode = "file"
              /\ \E s \in Mixed(disk[w.path], w.show) : disk' = [disk EXCEPT ![w.path] = s]
              /\ UNCHANGED temp
           \/ w.inode = "lost" /\ UNCHANGED <<disk, temp>>
    /\ writer' = [writer EXCEPT ![t].step = "rename"]
    /\ UNCHANGED <<doc, desk, flow, exit, fresh, astray>>

\* fs::write fails: what it wrote stays in the temporary file.
FillFails(t) ==
    /\ Running /\ writer[t].step = "fill"
    /\ writer' = [writer EXCEPT ![t].step = "failed"]
    /\ UNCHANGED <<doc, desk, flow, exit, disk, temp, fresh, astray>>

\* Where the file the other thread has open is once t renamed or removed it.
Displaced(t, to) ==
    LET u == writer[Other(t)]
    IN  IF u.path # writer[t].path THEN u.inode
        ELSE CASE u.inode = "temp" -> to
               [] u.inode = "file" -> IF to = "file" THEN "lost" ELSE "file"
               [] OTHER -> u.inode

RenameTemp(t) ==
    LET p == writer[t].path
    IN  /\ Running /\ writer[t].step = "rename" /\ temp[p] # Absent
        /\ disk' = [disk EXCEPT ![p] = temp[p]]
        /\ temp' = [temp EXCEPT ![p] = Absent]
        /\ writer' = [writer EXCEPT ![t].step = "saved", ![Other(t)].inode = Displaced(t, "file")]
        /\ UNCHANGED <<doc, desk, flow, exit, fresh, astray>>

\* The rename fails, as it must when the other thread took the file away;
\* the temporary file is removed.
RenameFails(t) ==
    /\ Running /\ writer[t].step = "rename"
    /\ temp' = [temp EXCEPT ![writer[t].path] = Absent]
    /\ writer' = [writer EXCEPT ![t].step = "failed", ![Other(t)].inode = Displaced(t, "lost")]
    /\ UNCHANGED <<doc, desk, flow, exit, disk, fresh, astray>>

SaveReturnsClean == \* mutant: the show counts as saved although the save failed
    LET w == writer["main"]
    IN  /\ Running /\ w.step \in {"saved", "failed"}
        /\ doc' = [doc EXCEPT !.path = w.path, !.dirty = FALSE] /\ UNCHANGED astray
        /\ IF w.step = "saved" /\ w.why = "quit"
           THEN quit' = [how |-> "saved", path |-> w.path, show |-> w.show, at |-> done]
                /\ asking' = FALSE
           ELSE UNCHANGED <<quit, asking>>
        /\ writer' = [writer EXCEPT !["main"] = Idle]
        /\ UNCHANGED <<desk, queue, turn, batch, left, parked, sure, exit, given, done, disk, temp,
                       fresh>>

\* The end of save_to_path, of pack_project, and of save_and_quit, which
\* quits only if the save landed.
SaveReturns ==
    LET w == writer["main"]
    IN  /\ Running /\ w.step \in {"saved", "failed"}
        /\ IF w.step = "saved"
           THEN doc' = [doc EXCEPT !.path = w.path, !.dirty = FALSE] /\ UNCHANGED astray
           ELSE astray' = (astray \/ w.why = "pack") /\ UNCHANGED doc
        /\ IF w.step = "saved" /\ w.why = "quit"
           THEN quit' = [how |-> "saved", path |-> w.path, show |-> w.show, at |-> done]
                /\ asking' = FALSE
           ELSE UNCHANGED <<quit, asking>>
        /\ writer' = [writer EXCEPT !["main"] = Idle]
        /\ UNCHANGED <<desk, queue, turn, batch, left, parked, sure, exit, given, done, disk, temp,
                       fresh>>

\* The handler of a termination signal: emergency_save overwrites the
\* project, if it has a file, and the process exits.  It takes the show under
\* the lock that pack_project holds while it writes.
Signal ==
    /\ Running /\ writer["signal"].step = "idle"
    /\ ~(writer["main"].step # "idle" /\ writer["main"].why = "pack")
    /\ IF doc.path = NoPath
       THEN exit' = "signal" /\ UNCHANGED files
       ELSE Begin("signal", doc.path, doc.show, "signal") /\ UNCHANGED exit
    /\ UNCHANGED <<doc, desk, flow, fresh, astray>>

SignalReturns ==
    /\ Running /\ writer["signal"].step \in {"saved", "failed"}
    /\ exit' = "signal"
    /\ UNCHANGED <<doc, desk, flow, files, fresh, astray>>

-----------------------------------------------------------------------------
(* The queue and its two drains *)

\* A menu, a key, a control surface or the command line asks for something.
Give ==
    /\ MainFree /\ given < MaxCommands /\ Len(queue) < MaxQueue
    /\ \E c \in Command :
          /\ (c.path \in Paths) <=> (c.op \in {"Open", "SaveAs", "Pack"})
          /\ queue' = Append(queue, c)
    /\ given' = given + 1
    /\ UNCHANGED <<doc, desk, turn, batch, left, parked, sure, asking, quit, done, exit, files,
                   fresh, astray>>

\* CuePool::process_commands, at the end of a frame of the control window.
InterfaceFrame ==
    /\ MainFree /\ queue # <<>>
    /\ turn' = "interface" /\ batch' = queue /\ queue' = <<>> /\ left' = <<>>
    /\ UNCHANGED <<doc, desk, parked, sure, asking, quit, given, done, exit, files, fresh, astray>>

\* about_to_wait: a confirmed quit, then the reset of what plays if the
\* project is another one, then App::process_commands.
Quits ==
    /\ MainFree /\ quit.how # "no"
    /\ exit' = quit.how
    /\ UNCHANGED <<doc, desk, flow, files, fresh, astray>>

LoopNotesProject == \* mutant: what plays is not reset
    /\ MainFree /\ quit.how = "no" /\ (queue # <<>> \/ gen # seen)
    /\ seen' = gen
    /\ turn' = "loop" /\ batch' = queue /\ queue' = <<>> /\ left' = <<>>
    /\ UNCHANGED <<doc, undo, redo, gen, playing, parked, sure, asking, quit, given, done, exit,
                   files, fresh, astray>>

LoopIteration ==
    /\ MainFree /\ quit.how = "no" /\ (queue # <<>> \/ gen # seen)
    /\ seen' = gen
    /\ playing' = IF gen # seen THEN -1 ELSE playing
    /\ turn' = "loop" /\ batch' = queue /\ queue' = <<>> /\ left' = <<>>
    /\ UNCHANGED <<doc, undo, redo, gen, parked, sure, asking, quit, given, done, exit, files,
                   fresh, astray>>

InterfaceOwns == Commands \ {"Go", "Stop"}
LoopOwns == Commands \intersect {"Go", "Stop"}

Draining(drain) == Running /\ turn = drain /\ batch # <<>> /\ writer["main"].step = "idle"
Draws(drain, op) == Draining(drain) /\ batch[1].op = op
Drawn ==
    /\ batch' = Tail(batch) /\ done' = done + 1
    /\ UNCHANGED <<queue, turn, left, asking, quit, given, exit>>

\* A command the drain does not own is put back at the end.
PutBack ==
    /\ \/ Draining("interface") /\ batch[1].op \notin InterfaceOwns
       \/ Draining("loop") /\ batch[1].op \notin LoopOwns
    /\ left' = Append(left, batch[1])
    /\ batch' = Tail(batch)
    /\ UNCHANGED <<doc, desk, queue, turn, parked, sure, asking, quit, given, done, exit, files,
                   fresh, astray>>

DrainForgets == \* mutant: what the event loop does not own is gone
    /\ Running /\ turn # "none" /\ batch = <<>> /\ writer["main"].step = "idle"
    /\ queue' = IF turn = "loop" THEN queue ELSE queue \o left
    /\ left' = <<>> /\ turn' = "none"
    /\ UNCHANGED <<doc, desk, batch, parked, sure, asking, quit, given, done, exit, files, fresh,
                   astray>>

DrainEnds ==
    /\ Running /\ turn # "none" /\ batch = <<>> /\ writer["main"].step = "idle"
    /\ queue' = queue \o left
    /\ left' = <<>> /\ turn' = "none"
    /\ UNCHANGED <<doc, desk, batch, parked, sure, asking, quit, given, done, exit, files, fresh,
                   astray>>

-----------------------------------------------------------------------------
(* What the interface's drain does *)

Edits ==
    /\ \/ Draws("interface", "Edit") /\ EditShow("none")
       \/ Draws("interface", "Type") /\ EditShow("run")
       \/ Draws("interface", "Undo") /\ UndoEdit
       \/ Draws("interface", "Redo") /\ RedoEdit
    /\ Drawn
    /\ UNCHANGED <<parked, sure, files>>

\* confirm_discard: a confirmation is used up, or there is nothing to lose.
MayDiscard == sure \/ (~doc.dirty /\ playing = -1)

Park ==
    /\ parked' = <<batch[1]>>
    /\ UNCHANGED <<doc, desk, sure>>

Replace(show, path) ==
    /\ PushUndo("none")
    /\ doc' = [show |-> show, path |-> path, dirty |-> FALSE]
    /\ gen' = gen + 1
    /\ UNCHANGED <<seen, playing>>

NewProject ==
    /\ Draws("interface", "New")
    /\ IF MayDiscard
       THEN Replace(0, NoPath) /\ sure' = FALSE /\ UNCHANGED parked
       ELSE Park
    /\ Drawn
    /\ UNCHANGED <<files, fresh, astray>>

\* open_project_path: a file that is missing or not whole is not opened.
Opens(p) ==
    IF disk[p] \in {Absent, Partial} THEN UNCHANGED <<doc, desk>> ELSE Replace(disk[p], p)

OpenProject ==
    /\ Draws("interface", "Open")
    /\ IF MayDiscard
       THEN Opens(batch[1].path) /\ sure' = FALSE /\ UNCHANGED parked
       ELSE Park
    /\ Drawn
    /\ UNCHANGED <<files, fresh, astray>>

\* SaveProject asks for a path when there is none, and that may be cancelled.
SaveProject ==
    /\ \/ /\ Draws("interface", "Save")
          /\ \/ doc.path # NoPath /\ Begin("main", doc.path, doc.show, "save")
             \/ doc.path = NoPath /\ \E p \in Paths : Begin("main", p, doc.show, "save")
             \/ doc.path = NoPath /\ UNCHANGED files
       \/ /\ Draws("interface", "SaveAs")
          /\ Begin("main", batch[1].path, doc.show, "save")
    /\ Drawn
    /\ UNCHANGED <<doc, desk, parked, sure, fresh, astray>>

\* pack_project rewrites the media paths in the cues, then saves the show;
\* there is no snapshot to undo it by.
PackProject ==
    /\ Draws("interface", "Pack")
    /\ LET packed == IF doc.show = 0 THEN 0 ELSE fresh + 1
       IN  /\ doc' = [doc EXCEPT !.show = packed]
           /\ fresh' = IF doc.show = 0 THEN fresh ELSE packed
           /\ Begin("main", batch[1].path, packed, "pack")
    /\ Drawn
    /\ UNCHANGED <<desk, parked, sure, astray>>

-----------------------------------------------------------------------------
(* What the event loop's drain does, and the modal questions *)

\* A cue of the open show starts, if it has one; or everything stops.
Play ==
    /\ \/ Draws("loop", "Go") /\ playing' = IF doc.show = 0 THEN playing ELSE gen
       \/ Draws("loop", "Stop") /\ playing' = -1
    /\ Drawn
    /\ UNCHANGED <<doc, undo, redo, gen, seen, parked, sure, files, fresh, astray>>

\* The API opens a project only when nothing plays and nothing is unsaved,
\* and resets at once.
ApiOpen ==
    /\ MainFree /\ playing = -1 /\ ~doc.dirty /\ gen < MaxCommands
    /\ \E p \in Paths :
          /\ disk[p] \notin {Absent, Partial}
          /\ Restore([show |-> disk[p], path |-> p, dirty |-> FALSE])
    /\ PushUndo("none")
    /\ gen' = gen + 1 /\ seen' = gen + 1
    /\ UNCHANGED <<playing, flow, exit, files, fresh, astray>>

\* Discard & Continue queues the parked command again; Cancel drops it.
AnswerDiscard ==
    /\ MainFree /\ parked # <<>>
    /\ parked' = <<>>
    /\ \/ /\ sure' = TRUE
          /\ queue' = queue \o parked
          /\ given' = given + 1
       \/ UNCHANGED <<sure, queue, given>>
    /\ UNCHANGED <<doc, desk, turn, batch, left, asking, quit, done, exit, files, fresh, astray>>

\* The close button: quit_needs_confirm.
CloseRequested ==
    /\ MainFree /\ ~asking
    /\ IF doc.dirty \/ playing # -1
       THEN asking' = TRUE /\ UNCHANGED exit
       ELSE exit' = "closed" /\ UNCHANGED asking
    /\ UNCHANGED <<doc, desk, queue, turn, batch, left, parked, sure, quit, given, done, files,
                   fresh, astray>>

\* Save & Quit names an untitled show itself; Discard & Quit; Cancel.
AnswerQuit ==
    /\ MainFree /\ asking
    /\ \/ /\ \E p \in Paths : doc.path \in {p, NoPath} /\ Begin("main", p, doc.show, "quit")
          /\ UNCHANGED <<asking, quit>>
       \/ /\ asking' = FALSE
          /\ quit' = [quit EXCEPT !.how = "discarded"]
          /\ UNCHANGED files
       \/ asking' = FALSE /\ UNCHANGED <<quit, files>>
    /\ UNCHANGED <<doc, desk, queue, turn, batch, left, parked, sure, given, done, exit, fresh,
                   astray>>

\* The process ended.
Gone == ~Running /\ UNCHANGED vars

Saving(t) == CreateTemp(t) \/ FillTemp(t) \/ FillFails(t) \/ RenameTemp(t) \/ RenameFails(t)

DrainStep ==
    \/ PutBack \/ DrainEnds \/ Edits \/ NewProject \/ OpenProject \/ SaveProject \/ PackProject
    \/ Play

Next ==
    \/ Give \/ InterfaceFrame \/ Quits \/ LoopIteration \/ DrainStep
    \/ ApiOpen \/ AnswerDiscard \/ CloseRequested \/ AnswerQuit
    \/ \E t \in Threads : Saving(t)
    \/ SaveReturns \/ Signal \/ SignalReturns \/ Gone

Spec == Init /\ [][Next]_vars

-----------------------------------------------------------------------------
(* Properties *)

Shows == 0..MaxCommands
Snapshots == [show : Shows, path : Paths \union {NoPath}, dirty : BOOLEAN, key : {"none", "run"}]

\* The undo stack keeps its depth except for what redo puts back on it.
TypeOK ==
    /\ doc \in [show : Shows, path : Paths \union {NoPath}, dirty : BOOLEAN]
    /\ undo \in Seq(Snapshots) /\ redo \in Seq(Snapshots)
    /\ Len(undo) <= UndoDepth /\ Len(undo) + Len(redo) <= UndoDepth
    /\ seen \in 0..gen /\ playing \in -1..gen
    /\ turn \in {"none", "interface", "loop"}
    /\ queue \in Seq(Command) /\ batch \in Seq(Command) /\ left \in Seq(Command)
    /\ parked \in Seq(Command) /\ Len(parked) <= 1
    /\ sure \in BOOLEAN /\ asking \in BOOLEAN
    /\ quit \in [how : {"no", "saved", "discarded"}, path : Paths \union {NoPath}, show : Shows,
                at : 0..2 * MaxCommands]
    /\ exit \in {"no", "saved", "discarded", "closed", "signal"}
    /\ disk \in [Paths -> Shows \union {Partial, Absent}]
    /\ temp \in [Paths -> Shows \union {Partial, Absent}]
    /\ \A t \in Threads : writer[t].step \in {"idle", "create", "fill", "rename", "saved", "failed"}

\* A show that counts as saved is the one in its file, and an untitled show
\* that counts as saved is blank (quit_needs_confirm, confirm_discard and the
\* API all ask the dirty flag).  Undo and a failed pack are the exceptions.
CleanIsSaved ==
    (~astray /\ ~doc.dirty /\ \A t \in Threads : writer[t].step = "idle") =>
        doc.show = IF doc.path = NoPath THEN 0 ELSE disk[doc.path]

\* The same without exceptions.
CleanMeansSaved ==
    (~doc.dirty /\ \A t \in Threads : writer[t].step = "idle") =>
        doc.show = IF doc.path = NoPath THEN 0 ELSE disk[doc.path]

\* While the event loop carries commands out, what plays belongs to the
\* project that is open (project_generation and reset_for_project_change).
OneShowPlays == turn = "loop" => playing \in {-1, gen}

\* No command is lost between the drains: each one given was carried out or
\* waits in the queue or in a drain's hands (drain_app_commands, issue #138).
NothingDropped == given = done + Len(queue) + Len(batch) + Len(left)

\* A confirmation to discard waits for the command it was given for, and so
\* cannot let a later New or Open throw work away unasked.
SureIsForParked ==
    sure => \E s \in {queue, batch, left} : \E i \in 1..Len(s) : s[i].op \in {"New", "Open"}

\* Unless the signal handler saves at the same time, a project file is never
\* seen half written, at any step of a save (write_atomically).
FilesAreWhole ==
    writer["signal"].step = "idle" => \A p \in Paths : disk[p] # Partial

\* Save & Quit leaves only when the show it saved is in its file, unless a
\* command of the same frame came between.
QuitKeepsWork ==
    (exit = "saved" /\ done = quit.at /\ writer["signal"].step = "idle") =>
        disk[quit.path] = quit.show

\* Files are whole when read, and hold what was to be kept when it was to be.
FilesAreGood == FilesAreWhole /\ QuitKeepsWork

\* Each command is carried out once, and a confirmation is for one command.
CommandsAreWhole == NothingDropped /\ SureIsForParked
=============================================================================
