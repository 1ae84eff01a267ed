-------------------------- MODULE ShowDocument_proofs --------------------------
(***************************************************************************)
(* Proofs about ShowDocument, for every number of commands, files, waiting *)
(* commands and undo steps: no command is lost and a confirmation is for   *)
(* the command it was given for; what plays belongs to the open show; a    *)
(* file is whole, and a show that counts as saved is the one in its file.  *)
(***************************************************************************)
EXTENDS ShowDocument, SequenceTheorems, TLAPS

-----------------------------------------------------------------------------
(* The commands in the queue and in the drains' hands.                     *)

Order == {c \in Command : (c.path \in Paths) <=> (c.op \in {"Open", "SaveAs", "Pack"})}
Discards(c) == c.op \in {"New", "Open"}
Holds(s) == \E i \in 1..Len(s) : Discards(s[i])

\* Every command is somewhere; a command that waits for an answer is one that
\* asks to discard, and so is one that waits for the confirmation given.
FlowInv ==
    /\ queue \in Seq(Order) /\ batch \in Seq(Order) /\ left \in Seq(Order)
    /\ parked \in Seq(Order) /\ Len(parked) <= 1
    /\ given \in Nat /\ done \in Nat
    /\ turn = "none" => batch = <<>> /\ left = <<>>
    /\ \A i \in 1..Len(parked) : Discards(parked[i])
    /\ NothingDropped
    /\ sure => Holds(queue) \/ Holds(batch) \/ Holds(left)

flowVars == <<queue, turn, batch, left, parked, sure, given, done>>

LEMMA FlowSuffices == FlowInv => CommandsAreWhole
<1> SUFFICES ASSUME FlowInv PROVE CommandsAreWhole
  OBVIOUS
<1>1. NothingDropped
  BY DEF FlowInv
<1>2. SureIsForParked
  BY DEF FlowInv, SureIsForParked, Holds, Discards
<1>3. QED
  BY <1>1, <1>2 DEF CommandsAreWhole

\* Concatenation, appending and taking the first keep what a sequence holds.
LEMMA HoldsConcat ==
    ASSUME NEW s \in Seq(Order), NEW t \in Seq(Order), Holds(s) \/ Holds(t)
    PROVE  Holds(s \o t)
<1>1. CASE Holds(s)
  <2>1. PICK i \in 1..Len(s) : Discards(s[i])
    BY <1>1 DEF Holds
  <2>2. i \in 1..Len(s \o t) /\ (s \o t)[i] = s[i]
    OBVIOUS
  <2>3. QED
    BY <2>1, <2>2 DEF Holds
<1>2. CASE Holds(t)
  <2>1. PICK i \in 1..Len(t) : Discards(t[i])
    BY <1>2 DEF Holds
  <2>2. Len(s) + i \in 1..Len(s \o t) /\ (s \o t)[Len(s) + i] = t[i]
    OBVIOUS
  <2>3. QED
    BY <2>1, <2>2 DEF Holds
<1>3. QED
  BY <1>1, <1>2

LEMMA HoldsAppend ==
    ASSUME NEW s \in Seq(Order), NEW c \in Order, Holds(s) \/ Discards(c)
    PROVE  Holds(Append(s, c))
<1>1. CASE Holds(s)
  <2>1. PICK i \in 1..Len(s) : Discards(s[i])
    BY <1>1 DEF Holds
  <2>2. i \in 1..Len(Append(s, c)) /\ Append(s, c)[i] = s[i]
    OBVIOUS
  <2>3. QED
    BY <2>1, <2>2 DEF Holds
<1>2. CASE Discards(c)
  <2>1. Len(s) + 1 \in 1..Len(Append(s, c)) /\ Append(s, c)[Len(s) + 1] = c
    OBVIOUS
  <2>2. QED
    BY <1>2, <2>1 DEF Holds
<1>3. QED
  BY <1>1, <1>2

LEMMA HoldsTail ==
    ASSUME NEW s \in Seq(Order), s # <<>>, Holds(s), ~Discards(s[1])
    PROVE  Holds(Tail(s))
<1>1. PICK i \in 1..Len(s) : Discards(s[i])
  BY DEF Holds
<1>2. i - 1 \in 1..Len(Tail(s)) /\ Tail(s)[i - 1] = s[i]
  <2>1. i # 1
    BY <1>1
  <2>2. QED
    BY <2>1
<1>3. QED
  BY <1>1, <1>2 DEF Holds

\* What the sequences have in common.
LEMMA FlowSame == FlowInv /\ UNCHANGED flowVars => FlowInv'
BY DEF FlowInv, flowVars, NothingDropped, Holds, Discards, Order, Command

LEMMA FlowGive == FlowInv /\ Give => FlowInv'
<1> SUFFICES ASSUME FlowInv, Give PROVE FlowInv'
  OBVIOUS
<1>1. PICK c \in Command :
        /\ (c.path \in Paths) <=> (c.op \in {"Open", "SaveAs", "Pack"})
        /\ queue' = Append(queue, c)
  BY DEF Give
<1>2. c \in Order
  BY <1>1 DEF Order
<1>3. queue' \in Seq(Order) /\ Len(queue') = Len(queue) + 1
  BY <1>1, <1>2 DEF FlowInv
<1>4. Holds(queue) => Holds(queue')
  BY <1>1, <1>2, HoldsAppend DEF FlowInv
<1>5. /\ UNCHANGED <<turn, batch, left, parked, sure, done>> /\ given' = given + 1
  BY DEF Give
<1>6. Holds(batch)' = Holds(batch) /\ Holds(left)' = Holds(left) /\ Holds(queue)' = Holds(queue')
  BY <1>5 DEF Holds
<1>7. NothingDropped'
  BY <1>3, <1>5 DEF FlowInv, NothingDropped
<1>8. QED
  BY <1>3, <1>4, <1>5, <1>6, <1>7 DEF FlowInv

\* A drain takes the queue over.
LEMMA FlowDrainBegins == FlowInv /\ (InterfaceFrame \/ LoopIteration) => FlowInv'
<1> SUFFICES ASSUME FlowInv, InterfaceFrame \/ LoopIteration PROVE FlowInv'
  OBVIOUS
<1>1. /\ turn = "none" /\ turn' # "none" /\ batch' = queue /\ queue' = <<>> /\ left' = <<>>
      /\ UNCHANGED <<parked, sure, given, done>>
  BY DEF InterfaceFrame, LoopIteration, MainFree
<1>2. batch = <<>> /\ left = <<>>
  BY <1>1 DEF FlowInv
<1>3. ~Holds(batch) /\ ~Holds(left)
  BY <1>2 DEF Holds
<1>4. Holds(queue) => Holds(batch)'
  BY <1>1 DEF Holds
<1>5. NothingDropped'
  BY <1>1, <1>2 DEF FlowInv, NothingDropped
<1>6. QED
  BY <1>1, <1>3, <1>4, <1>5 DEF FlowInv

LEMMA FlowPutBack == FlowInv /\ PutBack => FlowInv'
<1> SUFFICES ASSUME FlowInv, PutBack PROVE FlowInv'
  OBVIOUS
<1>1. /\ turn # "none" /\ batch # <<>>
      /\ left' = Append(left, batch[1]) /\ batch' = Tail(batch)
      /\ UNCHANGED <<queue, turn, parked, sure, given, done>>
  BY DEF PutBack, Draining
<1>2. batch[1] \in Order /\ left \in Seq(Order) /\ batch \in Seq(Order)
  BY <1>1 DEF FlowInv
<1>3. /\ left' \in Seq(Order) /\ batch' \in Seq(Order)
      /\ Len(left') = Len(left) + 1 /\ Len(batch') = Len(batch) - 1
  BY <1>1, <1>2
<1>4. Holds(batch) => Holds(batch)' \/ Holds(left)'
  <2>1. CASE Discards(batch[1])
    BY <1>1, <1>2, <2>1, HoldsAppend DEF Holds
  <2>2. CASE ~Discards(batch[1])
    BY <1>1, <1>2, <2>2, HoldsTail DEF Holds
  <2>3. QED
    BY <2>1, <2>2
<1>5. Holds(left) => Holds(left)'
  BY <1>1, <1>2, HoldsAppend DEF Holds
<1>6. Holds(queue)' = Holds(queue)
  BY <1>1 DEF Holds
<1>7. NothingDropped'
  BY <1>1, <1>3 DEF FlowInv, NothingDropped
<1>8. QED
  BY <1>1, <1>3, <1>4, <1>5, <1>6, <1>7 DEF FlowInv

LEMMA FlowDrainEnds == FlowInv /\ DrainEnds => FlowInv'
<1> SUFFICES ASSUME FlowInv, DrainEnds PROVE FlowInv'
  OBVIOUS
<1>1. /\ batch = <<>> /\ batch' = <<>> /\ queue' = queue \o left /\ left' = <<>>
      /\ turn' = "none" /\ UNCHANGED <<parked, sure, given, done>>
  BY DEF DrainEnds
<1>2. queue \in Seq(Order) /\ left \in Seq(Order)
  BY DEF FlowInv
<1>3. queue' \in Seq(Order) /\ Len(queue') = Len(queue) + Len(left)
  BY <1>1, <1>2
<1>4. Holds(queue) \/ Holds(left) => Holds(queue)'
  BY <1>1, <1>2, HoldsConcat DEF Holds
<1>5. ~Holds(batch)
  BY <1>1 DEF Holds
<1>6. NothingDropped'
  BY <1>1, <1>3 DEF FlowInv, NothingDropped
<1>7. QED
  BY <1>1, <1>3, <1>4, <1>5, <1>6 DEF FlowInv

\* A drain carries its first command out: one that asks to discard may be
\* parked, or uses a confirmation up.
LEMMA FlowDraws ==
    ASSUME FlowInv, turn # "none", batch # <<>>, Drawn,
           \/ parked' = parked
           \/ parked' = <<batch[1]>> /\ Discards(batch[1]),
           \/ ~sure'
           \/ sure' = sure /\ ~Discards(batch[1])
    PROVE  FlowInv'
<1>1. /\ batch' = Tail(batch) /\ done' = done + 1
      /\ UNCHANGED <<queue, turn, left, given>>
  BY DEF Drawn
<1>2. batch[1] \in Order /\ batch \in Seq(Order)
  BY DEF FlowInv
<1>3. batch' \in Seq(Order) /\ Len(batch') = Len(batch) - 1
  BY <1>1, <1>2
<1>4. parked' \in Seq(Order) /\ Len(parked') <= 1 /\ \A i \in 1..Len(parked') : Discards(parked'[i])
  <2>1. CASE parked' = parked
    BY <2>1 DEF FlowInv
  <2>2. CASE parked' = <<batch[1]>> /\ Discards(batch[1])
    <3>1. parked' \in Seq(Order) /\ Len(parked') = 1 /\ parked'[1] = batch[1]
      BY <1>2, <2>2
    <3>2. QED
      BY <2>2, <3>1
  <2>3. QED
    BY <2>1, <2>2
<1>5. sure' => Holds(queue)' \/ Holds(batch)' \/ Holds(left)'
  <2>1. ASSUME sure', Holds(batch) PROVE Holds(batch)'
    BY <1>1, <1>2, <2>1, HoldsTail DEF Holds
  <2>2. (Holds(queue) => Holds(queue)') /\ (Holds(left) => Holds(left)')
    BY <1>1 DEF Holds
  <2>3. QED
    BY <2>1, <2>2 DEF FlowInv
<1>6. NothingDropped'
  BY <1>1, <1>3 DEF FlowInv, NothingDropped
<1>7. given' \in Nat /\ done' \in Nat /\ (turn' = "none" => batch' = <<>> /\ left' = <<>>)
  BY <1>1 DEF FlowInv
<1>8. (\A i \in 1..Len(parked) : Discards(parked[i]))'
  BY <1>4 DEF Discards
<1>9. QED
  BY <1>1, <1>3, <1>4, <1>5, <1>6, <1>7, <1>8 DEF FlowInv

\* Facts about sequences of commands.
LEMMA OneIsParked ==
    ASSUME NEW s \in Seq(Order), s # <<>>, Len(s) <= 1
    PROVE  Len(s) = 1
<1>1. Len(s) \in Nat \ {0}
  BY EmptySeq
<1>2. QED
  BY <1>1

LEMMA OrdersConcat ==
    ASSUME NEW s \in Seq(Order), NEW t \in Seq(Order)
    PROVE  s \o t \in Seq(Order) /\ Len(s \o t) = Len(s) + Len(t)
OBVIOUS

\* A question about discarding is answered.
LEMMA FlowAnswers == FlowInv /\ AnswerDiscard => FlowInv'
<1> SUFFICES ASSUME FlowInv, AnswerDiscard PROVE FlowInv'
  OBVIOUS
<1>1. parked # <<>> /\ parked' = <<>> /\ UNCHANGED <<turn, batch, left, done>>
  BY DEF AnswerDiscard
<1>2. /\ Len(parked) = 1 /\ Discards(parked[1]) /\ parked \in Seq(Order) /\ queue \in Seq(Order)
  <2>1. parked \in Seq(Order) /\ queue \in Seq(Order) /\ Len(parked) <= 1
    BY DEF FlowInv
  <2>2. Len(parked) = 1
    BY <1>1, <2>1, OneIsParked
  <2>3. QED
    BY <2>1, <2>2 DEF FlowInv
<1>3. Holds(batch)' = Holds(batch) /\ Holds(left)' = Holds(left)
  BY <1>1 DEF Holds
<1>4. CASE sure' = TRUE /\ queue' = queue \o parked /\ given' = given + 1
  <2>1. queue' \in Seq(Order) /\ Len(queue') = Len(queue) + 1
    <3>1. queue \o parked \in Seq(Order) /\ Len(queue \o parked) = Len(queue) + Len(parked)
      BY <1>2, OrdersConcat
    <3>2. QED
      BY <1>2, <1>4, <3>1
  <2>2. Holds(queue)'
    <3>1. Holds(parked)
      BY <1>2 DEF Holds
    <3>2. Holds(queue \o parked)
      BY <1>2, <3>1, HoldsConcat
    <3>3. QED
      BY <1>4, <3>2 DEF Holds
  <2>3. NothingDropped'
    BY <1>1, <1>4, <2>1 DEF FlowInv, NothingDropped
  <2>4. QED
    BY <1>1, <1>4, <2>1, <2>2, <2>3 DEF FlowInv
<1>5. CASE UNCHANGED <<sure, queue, given>>
  <2>1. NothingDropped'
    BY <1>1, <1>5 DEF FlowInv, NothingDropped
  <2>2. Holds(queue)' = Holds(queue)
    BY <1>5 DEF Holds
  <2>3. QED
    BY <1>1, <1>3, <1>5, <2>1, <2>2 DEF FlowInv
<1>6. QED
  BY <1>4, <1>5 DEF AnswerDiscard

\* The commands that each drain carries out.
LEMMA FlowCarriesOut ==
    ASSUME FlowInv, Edits \/ NewProject \/ OpenProject \/ SaveProject \/ PackProject \/ Play
    PROVE  FlowInv'
<1>1. CASE Edits
  <2>1. /\ turn # "none" /\ batch # <<>> /\ Drawn /\ parked' = parked /\ sure' = sure
        /\ batch[1].op \in {"Edit", "Type", "Undo", "Redo"}
    BY <1>1 DEF Edits, Draws, Draining
  <2>2. ~Discards(batch[1])
    BY <2>1 DEF Discards
  <2>3. QED
    BY <2>1, <2>2, FlowDraws
<1>2. CASE NewProject
  <2>1. turn # "none" /\ batch # <<>> /\ Drawn /\ Discards(batch[1])
    BY <1>2 DEF NewProject, Draws, Draining, Discards
  <2>2. CASE MayDiscard
    BY <1>2, <2>1, <2>2, FlowDraws DEF NewProject
  <2>3. CASE ~MayDiscard
    <3>1. parked' = <<batch[1]>> /\ sure' = sure /\ ~sure
      BY <1>2, <2>3 DEF NewProject, Park, MayDiscard
    <3>2. QED
      BY <2>1, <3>1, FlowDraws
  <2>4. QED
    BY <2>2, <2>3
<1>3. CASE OpenProject
  <2>1. turn # "none" /\ batch # <<>> /\ Drawn /\ Discards(batch[1])
    BY <1>3 DEF OpenProject, Draws, Draining, Discards
  <2>2. CASE MayDiscard
    BY <1>3, <2>1, <2>2, FlowDraws DEF OpenProject
  <2>3. CASE ~MayDiscard
    <3>1. parked' = <<batch[1]>> /\ sure' = sure /\ ~sure
      BY <1>3, <2>3 DEF OpenProject, Park, MayDiscard
    <3>2. QED
      BY <2>1, <3>1, FlowDraws
  <2>4. QED
    BY <2>2, <2>3
<1>4. CASE SaveProject
  <2>1. /\ turn # "none" /\ batch # <<>> /\ Drawn /\ parked' = parked /\ sure' = sure
        /\ batch[1].op \in {"Save", "SaveAs"}
    BY <1>4 DEF SaveProject, Draws, Draining
  <2>2. ~Discards(batch[1])
    BY <2>1 DEF Discards
  <2>3. QED
    BY <2>1, <2>2, FlowDraws
<1>5. CASE PackProject
  <2>1. /\ turn # "none" /\ batch # <<>> /\ Drawn /\ parked' = parked /\ sure' = sure
        /\ batch[1].op = "Pack"
    BY <1>5 DEF PackProject, Draws, Draining
  <2>2. ~Discards(batch[1])
    BY <2>1 DEF Discards
  <2>3. QED
    BY <2>1, <2>2, FlowDraws
<1>6. CASE Play
  <2>1. /\ turn # "none" /\ batch # <<>> /\ Drawn /\ parked' = parked /\ sure' = sure
        /\ batch[1].op \in {"Go", "Stop"}
    BY <1>6 DEF Play, Draws, Draining
  <2>2. ~Discards(batch[1])
    BY <2>1 DEF Discards
  <2>3. QED
    BY <2>1, <2>2, FlowDraws
<1>7. QED
  BY <1>1, <1>2, <1>3, <1>4, <1>5, <1>6

\* Every other action leaves the commands where they are.
LEMMA FlowRests ==
    Quits \/ ApiOpen \/ CloseRequested \/ AnswerQuit \/ (\E t \in Threads : Saving(t))
    \/ SaveReturns \/ Signal \/ SignalReturns \/ Gone
    => UNCHANGED flowVars
<1> USE DEF flowVars, flow
<1>1. Quits \/ ApiOpen \/ CloseRequested \/ AnswerQuit => UNCHANGED flowVars
  BY DEF Quits, ApiOpen, CloseRequested, AnswerQuit
<1>2. ASSUME NEW t \in Threads, Saving(t) PROVE UNCHANGED flowVars
  BY <1>2 DEF Saving, CreateTemp, FillTemp, FillFails, RenameTemp, RenameFails
<1>3. SaveReturns \/ Signal \/ SignalReturns \/ Gone => UNCHANGED flowVars
  BY DEF SaveReturns, Signal, SignalReturns, Gone, vars
<1>4. QED
  BY <1>1, <1>2, <1>3

LEMMA FlowAlways == Spec => []FlowInv
<1>1. Init => FlowInv
  BY DEF Init, FlowInv, NothingDropped
<1>2. FlowInv /\ [Next]_vars => FlowInv'
  <2> SUFFICES ASSUME FlowInv, [Next]_vars PROVE FlowInv'
    OBVIOUS
  <2>1. CASE Give
    BY <2>1, FlowGive
  <2>2. CASE InterfaceFrame \/ LoopIteration
    BY <2>2, FlowDrainBegins
  <2>3. CASE PutBack
    BY <2>3, FlowPutBack
  <2>4. CASE DrainEnds
    BY <2>4, FlowDrainEnds
  <2>5. CASE Edits \/ NewProject \/ OpenProject \/ SaveProject \/ PackProject \/ Play
    BY <2>5, FlowCarriesOut
  <2>6. CASE AnswerDiscard
    BY <2>6, FlowAnswers
  <2>7. CASE Quits \/ ApiOpen \/ CloseRequested \/ AnswerQuit \/ (\E t \in Threads : Saving(t))
             \/ SaveReturns \/ Signal \/ SignalReturns \/ Gone
    BY <2>7, FlowRests, FlowSame
  <2>8. CASE UNCHANGED vars
    BY <2>8, FlowSame DEF vars, flowVars
  <2>9. QED
    BY <2>1, <2>2, <2>3, <2>4, <2>5, <2>6, <2>7, <2>8 DEF Next, DrainStep
<1>3. QED
  BY <1>1, <1>2, PTL DEF Spec

\* Each command given is carried out or turned down once, or still waits in
\* the queue or in a drain's hands; a confirmation to discard waits for a
\* command that asks for one (drain_app_commands, confirm_discard).
THEOREM CommandsCorrect == Spec => []CommandsAreWhole
BY FlowAlways, FlowSuffices, PTL

-----------------------------------------------------------------------------
(* What plays.                                                             *)

\* What plays is of the project the event loop has last seen, and while it
\* drains the queue that is the open one.
PlayInv == playing \in {-1, seen} /\ (turn = "loop" => seen = gen)

\* While the event loop carries commands out, what plays belongs to the
\* project that is open (project_generation and reset_for_project_change).
THEOREM PlayCorrect == Spec => []OneShowPlays
<1>1. Init => PlayInv
  BY DEF Init, PlayInv
<1>2. PlayInv /\ [Next]_vars => PlayInv'
  <2> SUFFICES ASSUME PlayInv, [Next]_vars PROVE PlayInv'
    OBVIOUS
  <2> USE DEF PlayInv, desk, flow, MainFree
  <2>1. CASE Give \/ InterfaceFrame \/ Quits \/ LoopIteration
    BY <2>1 DEF Give, InterfaceFrame, Quits, LoopIteration
  <2>2. CASE PutBack \/ DrainEnds
    BY <2>2 DEF PutBack, DrainEnds
  <2>3. CASE Edits
    BY <2>3 DEF Edits, EditShow, UndoEdit, RedoEdit, Drawn
  <2>4. CASE NewProject \/ OpenProject
    BY <2>4 DEF NewProject, OpenProject, Opens, Replace, Park, Drawn, Draws, Draining
  <2>5. CASE SaveProject \/ PackProject
    BY <2>5 DEF SaveProject, PackProject, Drawn
  <2>6. CASE Play
    BY <2>6 DEF Play, Drawn, Draws, Draining
  <2>7. CASE ApiOpen \/ AnswerDiscard \/ CloseRequested \/ AnswerQuit
    BY <2>7 DEF ApiOpen, AnswerDiscard, CloseRequested, AnswerQuit
  <2>8. ASSUME NEW t \in Threads, Saving(t) PROVE PlayInv'
    BY <2>8 DEF Saving, CreateTemp, FillTemp, FillFails, RenameTemp, RenameFails
  <2>9. CASE SaveReturns \/ Signal \/ SignalReturns \/ Gone \/ UNCHANGED vars
    BY <2>9 DEF SaveReturns, Signal, SignalReturns, Gone, vars
  <2>10. QED
    BY <2>1, <2>2, <2>3, <2>4, <2>5, <2>6, <2>7, <2>8, <2>9 DEF Next, DrainStep
<1>3. PlayInv => OneShowPlays
  BY DEF PlayInv, OneShowPlays
<1>4. QED
  BY <1>1, <1>2, <1>3, PTL DEF Spec

-----------------------------------------------------------------------------
(* Types.                                                                  *)

Titles == Paths \union {NoPath}
Contents == Nat \union {Partial, Absent}
Steps == {"idle", "create", "fill", "rename", "saved", "failed"}
Inodes == {"none", "temp", "file", "lost"}
Reasons == {"save", "pack", "quit", "signal"}
Writing == [step : Steps, path : Titles, show : Nat, inode : Inodes, why : Reasons]
Opened == [show : Nat, path : Titles, dirty : BOOLEAN]
Kept == [show : Nat, path : Titles, dirty : BOOLEAN, key : {"none", "run"}]

\* What the show is made of.
ShowTypes == doc \in Opened /\ undo \in Seq(Kept) /\ redo \in Seq(Kept) /\ fresh \in Nat

\* What the files are made of.
FileTypes ==
    /\ disk \in [Paths -> Contents] /\ temp \in [Paths -> Contents]
    /\ writer \in [Threads -> Writing]
    /\ \A t \in Threads : writer[t].step # "idle" => writer[t].path \in Paths

LEMMA SnapshotKept == ShowTypes => Snapshot \in Kept
BY DEF ShowTypes, Opened, Kept, Snapshot

LEMMA SnapshotKeyed ==
    ASSUME ShowTypes, NEW key \in {"none", "run"}
    PROVE  [Snapshot EXCEPT !.key = key] \in Kept
BY DEF ShowTypes, Opened, Kept, Snapshot

LEMMA PushTypes ==
    ASSUME ShowTypes, NEW key \in {"none", "run"}, PushUndo(key)
    PROVE  undo' \in Seq(Kept) /\ redo' \in Seq(Kept)
<1> DEFINE s == [Snapshot EXCEPT !.key = key]
<1>1. s \in Kept /\ undo \in Seq(Kept)
  BY SnapshotKeyed DEF ShowTypes
<1> HIDE DEF s
<1>2. Append(undo, s) \in Seq(Kept) /\ Append(undo, s) # <<>>
  BY <1>1
<1>3. Tail(Append(undo, s)) \in Seq(Kept)
  BY <1>2
<1>4. PushOver(undo, s) \in Seq(Kept)
  BY <1>2, <1>3 DEF PushOver
<1>5. undo' \in {undo, PushOver(undo, s)} /\ redo' = <<>>
  BY DEF PushUndo, s
<1>6. QED
  BY <1>1, <1>4, <1>5

LEMMA RestoreTypes ==
    ASSUME NEW s \in Kept, Restore(s)
    PROVE  doc' \in Opened
BY DEF Restore, Kept, Opened

LEMMA UndoTypes ==
    ASSUME ShowTypes, UndoEdit \/ RedoEdit
    PROVE  ShowTypes'
<1>1. Snapshot \in Kept /\ undo \in Seq(Kept) /\ redo \in Seq(Kept)
  BY SnapshotKept DEF ShowTypes
<1>2. CASE UNCHANGED <<doc, undo, redo>>
  BY <1>2 DEF ShowTypes, UndoEdit, RedoEdit
<1>3. CASE UndoEdit /\ undo # <<>>
  <2>1. Len(undo) \in Nat \ {0}
    BY <1>1, <1>3, EmptySeq
  <2>2. undo[Len(undo)] \in Kept
    BY <1>1, <2>1
  <2>3. doc' \in Opened
    BY <1>3, <2>2, RestoreTypes DEF UndoEdit
  <2>4. SubSeq(undo, 1, Len(undo) - 1) \in Seq(Kept)
    BY <1>1, <2>1
  <2>5. Append(redo, Snapshot) \in Seq(Kept)
    BY <1>1
  <2>6. QED
    BY <1>3, <2>3, <2>4, <2>5 DEF UndoEdit, ShowTypes
<1>4. CASE RedoEdit /\ redo # <<>>
  <2>1. Len(redo) \in Nat \ {0}
    BY <1>1, <1>4, EmptySeq
  <2>2. redo[Len(redo)] \in Kept
    BY <1>1, <2>1
  <2>3. doc' \in Opened
    BY <1>4, <2>2, RestoreTypes DEF RedoEdit
  <2>4. SubSeq(redo, 1, Len(redo) - 1) \in Seq(Kept)
    BY <1>1, <2>1
  <2>5. Append(undo, Snapshot) \in Seq(Kept)
    BY <1>1
  <2>6. QED
    BY <1>4, <2>3, <2>4, <2>5 DEF RedoEdit, ShowTypes
<1>5. QED
  BY <1>2, <1>3, <1>4 DEF UndoEdit, RedoEdit

LEMMA EditTypes ==
    ASSUME ShowTypes, NEW key \in {"none", "run"}, EditShow(key)
    PROVE  ShowTypes'
<1>1. undo' \in Seq(Kept) /\ redo' \in Seq(Kept)
  BY PushTypes DEF EditShow
<1>2. doc' = [show |-> fresh + 1, path |-> doc.path, dirty |-> TRUE]
  BY DEF EditShow, ShowTypes, Opened
<1>3. fresh' = fresh + 1 /\ fresh \in Nat /\ doc.path \in Titles
  BY DEF EditShow, ShowTypes, Opened
<1>4. QED
  BY <1>1, <1>2, <1>3 DEF ShowTypes, Opened

LEMMA ReplaceTypes ==
    ASSUME ShowTypes, NEW show \in Nat, NEW path \in Titles, Replace(show, path), fresh' = fresh
    PROVE  ShowTypes'
<1>1. undo' \in Seq(Kept) /\ redo' \in Seq(Kept)
  BY PushTypes DEF Replace
<1>2. doc' = [show |-> show, path |-> path, dirty |-> FALSE]
  BY DEF Replace
<1>3. QED
  BY <1>1, <1>2 DEF ShowTypes, Opened

\* The show and the files keep their types when nothing touches them.
LEMMA ShowSame == ShowTypes /\ UNCHANGED <<doc, undo, redo, fresh>> => ShowTypes'
BY DEF ShowTypes

LEMMA FilesSame == FileTypes /\ UNCHANGED files => FileTypes'
BY DEF FileTypes, files

LEMMA BeginTypes ==
    ASSUME FileTypes, NEW t \in Threads, NEW path \in Paths, NEW show \in Nat, NEW why \in Reasons,
           Begin(t, path, show, why)
    PROVE  FileTypes'
<1>1. /\ writer' = [writer EXCEPT ![t] = [step |-> "create", path |-> path, show |-> show,
                                          inode |-> "none", why |-> why]]
      /\ UNCHANGED <<disk, temp>>
  BY DEF Begin
<1>2. [step |-> "create", path |-> path, show |-> show, inode |-> "none", why |-> why] \in Writing
  BY DEF Writing, Titles, Steps, Inodes
<1>3. QED
  BY <1>1, <1>2 DEF FileTypes, Writing

LEMMA Others == Other("main") = "signal" /\ Other("signal") = "main"
BY DEF Other, Threads

\* A thread moves on, and where the other one writes may change.
LEMMA MoveTypes ==
    ASSUME writer \in [Threads -> Writing], NEW t \in Threads, NEW step \in Steps
    PROVE  [writer EXCEPT ![t].step = step] \in [Threads -> Writing]
BY DEF Writing

LEMMA DisplaceTypes ==
    ASSUME writer \in [Threads -> Writing], NEW t \in Threads, NEW step \in Steps,
           NEW u \in Threads, NEW inode \in Inodes
    PROVE  [writer EXCEPT ![t].step = step, ![u].inode = inode] \in [Threads -> Writing]
BY DEF Writing

LEMMA DisplacedTypes ==
    ASSUME writer \in [Threads -> Writing], NEW t \in Threads, NEW to \in {"file", "lost"}
    PROVE  Displaced(t, to) \in Inodes
<1>1. Other(t) \in Threads
  BY Others DEF Threads
<1>2. writer[Other(t)].inode \in Inodes
  BY <1>1 DEF Writing
<1>3. QED
  BY <1>2 DEF Displaced, Inodes

LEMMA MixedTypes ==
    ASSUME NEW old \in Contents, NEW show \in Nat
    PROVE  Mixed(old, show) \subseteq Contents
BY DEF Mixed, Contents

\* A step of a save keeps the types.
LEMMA SavingTypes ==
    ASSUME FileTypes, NEW t \in Threads, Saving(t)
    PROVE  FileTypes'
<1> DEFINE p == writer[t].path
<1>0. /\ disk \in [Paths -> Contents] /\ temp \in [Paths -> Contents]
      /\ writer \in [Threads -> Writing]
      /\ \A u \in Threads : writer[u].step # "idle" => writer[u].path \in Paths
  BY DEF FileTypes
<1>1. writer[t].step # "idle" /\ p \in Paths /\ writer[t].show \in Nat
  <2>1. writer[t].step \in {"create", "fill", "rename"}
    BY DEF Saving, CreateTemp, FillTemp, FillFails, RenameTemp, RenameFails
  <2>2. writer[t] \in Writing
    BY <1>0
  <2>3. QED
    BY <1>0, <2>1, <2>2 DEF Writing
<1>2. /\ Partial \in Contents /\ Absent \in Contents
  BY DEF Contents
<1>3. CASE CreateTemp(t)
  <2>1. /\ disk' = disk /\ temp' = [temp EXCEPT ![p] = Partial]
        /\ writer' = [writer EXCEPT ![t].step = "fill", ![t].inode = "temp"]
    BY <1>3 DEF CreateTemp
  <2>2. writer' \in [Threads -> Writing]
    <3>1. "fill" \in Steps /\ "temp" \in Inodes
      BY DEF Steps, Inodes
    <3>2. [writer EXCEPT ![t].step = "fill", ![t].inode = "temp"] \in [Threads -> Writing]
      BY <1>0, <3>1, DisplaceTypes
    <3>3. QED
      BY <2>1, <3>2
  <2>3. \A u \in Threads : writer'[u].step # "idle" => writer'[u].path \in Paths
    BY <1>0, <1>1, <2>1 DEF Writing
  <2>4. QED
    BY <1>0, <1>2, <2>1, <2>2, <2>3 DEF FileTypes
<1>4. CASE FillTemp(t)
  <2>1. writer' = [writer EXCEPT ![t].step = "rename"]
    BY <1>4 DEF FillTemp
  <2>2. disk' \in [Paths -> Contents] /\ temp' \in [Paths -> Contents]
    <3>1. CASE UNCHANGED <<disk, temp>>
      BY <1>0, <3>1
    <3>2. CASE \E s \in Mixed(temp[p], writer[t].show) : temp' = [temp EXCEPT ![p] = s] /\ disk' = disk
      <4>1. PICK s \in Mixed(temp[p], writer[t].show) : temp' = [temp EXCEPT ![p] = s] /\ disk' = disk
        BY <3>2
      <4>2. s \in Contents
        BY <1>0, <1>1, <4>1, MixedTypes
      <4>3. QED
        BY <1>0, <4>1, <4>2
    <3>3. CASE \E s \in Mixed(disk[p], writer[t].show) : disk' = [disk EXCEPT ![p] = s] /\ temp' = temp
      <4>1. PICK s \in Mixed(disk[p], writer[t].show) : disk' = [disk EXCEPT ![p] = s] /\ temp' = temp
        BY <3>3
      <4>2. s \in Contents
        BY <1>0, <1>1, <4>1, MixedTypes
      <4>3. QED
        BY <1>0, <4>1, <4>2
    <3>4. QED
      BY <1>4, <3>1, <3>2, <3>3 DEF FillTemp
  <2>3. writer' \in [Threads -> Writing]
    BY <1>0, <2>1, MoveTypes DEF Steps
  <2>4. \A u \in Threads : writer'[u].step # "idle" => writer'[u].path \in Paths
    BY <1>0, <1>1, <2>1 DEF Writing
  <2>5. QED
    BY <2>2, <2>3, <2>4 DEF FileTypes
<1>5. CASE FillFails(t)
  <2>1. writer' = [writer EXCEPT ![t].step = "failed"] /\ UNCHANGED <<disk, temp>>
    BY <1>5 DEF FillFails
  <2>2. writer' \in [Threads -> Writing]
    BY <1>0, <2>1, MoveTypes DEF Steps
  <2>3. \A u \in Threads : writer'[u].step # "idle" => writer'[u].path \in Paths
    BY <1>0, <1>1, <2>1 DEF Writing
  <2>4. QED
    BY <1>0, <2>1, <2>2, <2>3 DEF FileTypes
<1>6. CASE RenameTemp(t)
  <2>1. /\ disk' = [disk EXCEPT ![p] = temp[p]] /\ temp' = [temp EXCEPT ![p] = Absent]
        /\ writer' = [writer EXCEPT ![t].step = "saved", ![Other(t)].inode = Displaced(t, "file")]
    BY <1>6 DEF RenameTemp
  <2>2. Other(t) \in Threads /\ Displaced(t, "file") \in Inodes
    BY <1>0, Others, DisplacedTypes DEF Threads
  <2>3. writer' \in [Threads -> Writing]
    <3>1. "saved" \in Steps
      BY DEF Steps
    <3>2. [writer EXCEPT ![t].step = "saved", ![Other(t)].inode = Displaced(t, "file")]
             \in [Threads -> Writing]
      BY <1>0, <2>2, <3>1, DisplaceTypes
    <3>3. QED
      BY <2>1, <3>2
  <2>4. \A u \in Threads : writer'[u].step # "idle" => writer'[u].path \in Paths
    BY <1>0, <1>1, <2>1, <2>2 DEF Writing
  <2>5. QED
    BY <1>0, <1>1, <1>2, <2>1, <2>3, <2>4 DEF FileTypes
<1>7. CASE RenameFails(t)
  <2>1. /\ disk' = disk /\ temp' = [temp EXCEPT ![p] = Absent]
        /\ writer' = [writer EXCEPT ![t].step = "failed", ![Other(t)].inode = Displaced(t, "lost")]
    BY <1>7 DEF RenameFails
  <2>2. Other(t) \in Threads /\ Displaced(t, "lost") \in Inodes
    BY <1>0, Others, DisplacedTypes DEF Threads
  <2>3. writer' \in [Threads -> Writing]
    <3>1. "failed" \in Steps
      BY DEF Steps
    <3>2. [writer EXCEPT ![t].step = "failed", ![Other(t)].inode = Displaced(t, "lost")]
             \in [Threads -> Writing]
      BY <1>0, <2>2, <3>1, DisplaceTypes
    <3>3. QED
      BY <2>1, <3>2
  <2>4. \A u \in Threads : writer'[u].step # "idle" => writer'[u].path \in Paths
    BY <1>0, <1>1, <2>1, <2>2 DEF Writing
  <2>5. QED
    BY <1>0, <1>1, <1>2, <2>1, <2>3, <2>4 DEF FileTypes
<1>8. QED
  BY <1>3, <1>4, <1>5, <1>6, <1>7 DEF Saving

\* A save begins, or does not, in every action that may begin one.
LEMMA BeginsTypes ==
    ASSUME FlowInv, ShowTypes, FileTypes, SaveProject \/ PackProject \/ AnswerQuit \/ Signal
    PROVE  FileTypes'
<1>0. doc.show \in Nat /\ doc.path \in Titles /\ fresh \in Nat
  BY DEF ShowTypes, Opened
<1>1. "main" \in Threads /\ "signal" \in Threads
  BY DEF Threads
<1>2. {"save", "pack", "quit", "signal"} \subseteq Reasons
  BY DEF Reasons
<1>3. ASSUME Draining("interface"), batch[1].op \in {"SaveAs", "Pack"} PROVE batch[1].path \in Paths
  <2>1. batch \in Seq(Order) /\ batch # <<>>
    BY <1>3 DEF FlowInv, Draining
  <2>2. batch[1] \in Order
    BY <2>1
  <2>3. QED
    BY <1>3, <2>2 DEF Order
<1>4. CASE SaveProject
  <2>1. CASE UNCHANGED files
    BY <2>1, FilesSame
  <2>2. CASE doc.path # NoPath /\ Begin("main", doc.path, doc.show, "save")
    <3>1. doc.path \in Paths
      BY <1>0, <2>2 DEF Titles
    <3>2. QED
      BY <1>0, <1>1, <1>2, <2>2, <3>1, BeginTypes
  <2>3. CASE \E p \in Paths : Begin("main", p, doc.show, "save")
    BY <1>0, <1>1, <1>2, <2>3, BeginTypes
  <2>4. CASE Draws("interface", "SaveAs") /\ Begin("main", batch[1].path, doc.show, "save")
    <3>1. batch[1].path \in Paths
      BY <1>3, <2>4 DEF Draws
    <3>2. QED
      BY <1>0, <1>1, <1>2, <2>4, <3>1, BeginTypes
  <2>5. QED
    BY <1>4, <2>1, <2>2, <2>3, <2>4 DEF SaveProject
<1>5. CASE PackProject
  <2>1. batch[1].path \in Paths
    BY <1>3, <1>5 DEF PackProject, Draws
  <2>2. PICK packed \in Nat : Begin("main", batch[1].path, packed, "pack")
    BY <1>0, <1>5 DEF PackProject
  <2>3. QED
    BY <1>1, <1>2, <2>1, <2>2, BeginTypes
<1>6. CASE AnswerQuit
  <2>1. CASE UNCHANGED files
    BY <2>1, FilesSame
  <2>2. CASE \E p \in Paths : Begin("main", p, doc.show, "quit")
    BY <1>0, <1>1, <1>2, <2>2, BeginTypes
  <2>3. QED
    BY <1>6, <2>1, <2>2 DEF AnswerQuit
<1>7. CASE Signal
  <2>1. CASE UNCHANGED files
    BY <2>1, FilesSame
  <2>2. CASE doc.path # NoPath /\ Begin("signal", doc.path, doc.show, "signal")
    <3>1. doc.path \in Paths
      BY <1>0, <2>2 DEF Titles
    <3>2. QED
      BY <1>0, <1>1, <1>2, <2>2, <3>1, BeginTypes
  <2>3. QED
    BY <1>7, <2>1, <2>2 DEF Signal
<1>8. QED
  BY <1>4, <1>5, <1>6, <1>7

\* A save is over.
LEMMA ReturnTypes == ShowTypes /\ FileTypes /\ SaveReturns => ShowTypes' /\ FileTypes'
<1> SUFFICES ASSUME ShowTypes, FileTypes, SaveReturns PROVE ShowTypes' /\ FileTypes'
  OBVIOUS
<1>1. /\ disk' = disk /\ temp' = temp /\ writer' = [writer EXCEPT !["main"] = Idle]
      /\ UNCHANGED <<undo, redo, fresh>>
      /\ \/ doc' = doc
         \/ doc' = [doc EXCEPT !.path = writer["main"].path, !.dirty = FALSE]
  BY DEF SaveReturns, desk
<1>2. "main" \in Threads /\ writer["main"] \in Writing
  BY DEF FileTypes, Threads
<1>3. writer["main"].path \in Titles
  BY <1>2 DEF Writing
<1>4. doc' \in Opened
  BY <1>1, <1>3 DEF ShowTypes, Opened
<1>5. Idle \in Writing
  BY DEF Idle, Writing, Titles, Steps, Inodes, Reasons
<1>6. FileTypes'
  BY <1>1, <1>2, <1>5 DEF FileTypes, Idle
<1>7. QED
  BY <1>1, <1>4, <1>6 DEF ShowTypes

\* A file is opened.
LEMMA OpenTypes ==
    ASSUME FlowInv, ShowTypes, FileTypes, NewProject \/ OpenProject \/ ApiOpen
    PROVE  ShowTypes'
<1>1. CASE UNCHANGED <<doc, undo, redo, fresh>>
  BY <1>1, ShowSame
<1>2. CASE \E show \in Nat, path \in Titles : Replace(show, path) /\ fresh' = fresh
  BY <1>2, ReplaceTypes
<1>3. ASSUME NEW p \in Paths, disk[p] \notin {Absent, Partial} PROVE disk[p] \in Nat /\ p \in Titles
  BY <1>3 DEF FileTypes, Contents, Titles
<1>4. CASE NewProject
  <2>1. 0 \in Nat /\ NoPath \in Titles
    BY DEF Titles
  <2>2. QED
    BY <1>1, <1>2, <1>4, <2>1 DEF NewProject, Park, desk
<1>5. CASE OpenProject
  <2>1. batch[1].path \in Paths
    <3>1. batch \in Seq(Order) /\ batch # <<>> /\ batch[1].op = "Open"
      BY <1>5 DEF FlowInv, OpenProject, Draws, Draining
    <3>2. batch[1] \in Order
      BY <3>1
    <3>3. QED
      BY <3>1, <3>2 DEF Order
  <2>2. QED
    BY <1>1, <1>2, <1>3, <1>5, <2>1 DEF OpenProject, Opens, Park, desk
<1>6. CASE ApiOpen
  <2>1. PICK p \in Paths :
          /\ disk[p] \notin {Absent, Partial}
          /\ Restore([show |-> disk[p], path |-> p, dirty |-> FALSE])
    BY <1>6 DEF ApiOpen
  <2>2. doc' \in Opened
    BY <1>3, <2>1 DEF Restore, Opened
  <2>3. undo' \in Seq(Kept) /\ redo' \in Seq(Kept)
    BY <1>6, PushTypes DEF ApiOpen
  <2>4. QED
    BY <1>6, <2>2, <2>3 DEF ApiOpen, ShowTypes
<1>7. QED
  BY <1>4, <1>5, <1>6

LEMMA PackTypes == ShowTypes /\ PackProject => ShowTypes'
<1> SUFFICES ASSUME ShowTypes, PackProject PROVE ShowTypes'
  OBVIOUS
<1>1. fresh \in Nat /\ doc.show \in Nat
  BY DEF ShowTypes, Opened
<1>2. PICK packed \in Nat : doc' = [doc EXCEPT !.show = packed]
  BY <1>1 DEF PackProject
<1>3. doc' \in Opened
  BY <1>2 DEF ShowTypes, Opened
<1>4. fresh' \in Nat /\ undo' = undo /\ redo' = redo
  BY <1>1 DEF PackProject, desk
<1>5. QED
  BY <1>3, <1>4 DEF ShowTypes

\* Every step keeps the types.
LEMMA TypesKept == FlowInv /\ ShowTypes /\ FileTypes /\ [Next]_vars => ShowTypes' /\ FileTypes'
<1> SUFFICES ASSUME FlowInv, ShowTypes, FileTypes, [Next]_vars PROVE ShowTypes' /\ FileTypes'
  OBVIOUS
<1>1. CASE Give \/ InterfaceFrame \/ Quits \/ LoopIteration \/ PutBack \/ DrainEnds \/ Play
  BY <1>1, ShowSame, FilesSame
     DEF Give, InterfaceFrame, Quits, LoopIteration, PutBack, DrainEnds, Play, desk
<1>2. CASE Edits
  <2>1. CASE EditShow("none") \/ EditShow("run")
    BY <1>2, <2>1, EditTypes, FilesSame DEF Edits
  <2>2. CASE UndoEdit \/ RedoEdit
    BY <1>2, <2>2, UndoTypes, FilesSame DEF Edits
  <2>3. QED
    BY <1>2, <2>1, <2>2 DEF Edits
<1>3. CASE NewProject \/ OpenProject \/ ApiOpen
  BY <1>3, OpenTypes, FilesSame DEF NewProject, OpenProject, ApiOpen
<1>4. CASE SaveProject \/ AnswerQuit \/ Signal
  BY <1>4, BeginsTypes, ShowSame DEF SaveProject, AnswerQuit, Signal, desk
<1>5. CASE PackProject
  BY <1>5, BeginsTypes, PackTypes
<1>6. CASE AnswerDiscard \/ CloseRequested \/ SignalReturns \/ Gone \/ UNCHANGED vars
  BY <1>6, ShowSame, FilesSame
     DEF AnswerDiscard, CloseRequested, SignalReturns, Gone, vars, desk, files
<1>7. ASSUME NEW t \in Threads, Saving(t) PROVE ShowTypes' /\ FileTypes'
  <2>1. UNCHANGED <<doc, undo, redo, fresh>>
    BY <1>7 DEF Saving, CreateTemp, FillTemp, FillFails, RenameTemp, RenameFails, desk
  <2>2. QED
    BY <1>7, <2>1, SavingTypes, ShowSame
<1>8. CASE SaveReturns
  BY <1>8, ReturnTypes
<1>9. QED
  BY <1>1, <1>2, <1>3, <1>4, <1>5, <1>6, <1>7, <1>8 DEF Next, DrainStep

-----------------------------------------------------------------------------
(* Saves.                                                                  *)

Main == writer["main"]
Quiet == writer["signal"].step = "idle"

\* Until the signal handler writes, the temporary file is the main thread's.
WriteInv ==
    /\ Main.step # "idle" => doc.show = Main.show
    /\ Quiet =>
          /\ \A p \in Paths : disk[p] # Partial
          /\ Main.step = "fill" => Main.inode = "temp" /\ temp[Main.path] = Partial
          /\ Main.step = "rename" => temp[Main.path] = Main.show
          /\ Main.step = "saved" => disk[Main.path] = Main.show

\* A save begins while the thread has none under way.
Begun(t) ==
    /\ UNCHANGED <<disk, temp>>
    /\ writer[t].step = "idle" /\ writer'[t].step = "create"
    /\ writer' = [writer EXCEPT ![t] = writer'[t]]

LEMMA BeginBegun ==
    ASSUME FileTypes, NEW t \in Threads, NEW path, NEW show, NEW why,
           writer[t].step = "idle", Begin(t, path, show, why)
    PROVE  /\ Begun(t)
           /\ writer'[t].path = path /\ writer'[t].show = show /\ writer'[t].why = why
BY DEF FileTypes, Begin, Begun

\* The signal handler's steps are its own: it never rests again.
LEMMA SignalSaves ==
    ASSUME FileTypes, Saving("signal")
    PROVE  /\ writer["signal"].step # "idle" /\ ~Quiet'
           /\ Main'.step = Main.step /\ Main'.path = Main.path /\ Main'.show = Main.show
<1>1. "signal" \in Threads /\ "main" \in Threads /\ writer \in [Threads -> Writing]
  BY DEF FileTypes, Threads
<1>2. writer["signal"] \in Writing /\ writer["main"] \in Writing
  BY <1>1
<1> USE DEF Main, Quiet, Writing
<1>3. CASE CreateTemp("signal")
  BY <1>1, <1>2, <1>3 DEF CreateTemp
<1>4. CASE FillTemp("signal") \/ FillFails("signal")
  <2>1. /\ writer["signal"].step = "fill"
        /\ \/ writer' = [writer EXCEPT !["signal"].step = "rename"]
           \/ writer' = [writer EXCEPT !["signal"].step = "failed"]
    BY <1>4 DEF FillTemp, FillFails
  <2>2. QED
    BY <1>1, <1>2, <2>1
<1>5. CASE RenameTemp("signal")
  BY <1>1, <1>2, <1>5, Others DEF RenameTemp
<1>6. CASE RenameFails("signal")
  BY <1>1, <1>2, <1>6, Others DEF RenameFails
<1>7. QED
  BY <1>3, <1>4, <1>5, <1>6 DEF Saving

\* What a step of the main thread's save does while the handler rests.
LEMMA MainSaves ==
    ASSUME FileTypes, WriteInv, Saving("main")
    PROVE  /\ Main.step \in {"create", "fill", "rename"} /\ Main'.step # "idle"
           /\ Main'.path = Main.path /\ Main'.show = Main.show /\ Main'.why = Main.why
           /\ writer'["signal"].step = writer["signal"].step
           /\ Quiet =>
                 \/ Main'.step = "fill" /\ Main'.inode = "temp"
                    /\ temp'[Main.path] = Partial /\ disk' = disk
                 \/ Main'.step = "rename" /\ temp'[Main.path] = Main.show /\ disk' = disk
                 \/ Main'.step = "failed" /\ disk' = disk
                 \/ Main'.step = "saved" /\ disk' = [disk EXCEPT ![Main.path] = Main.show]
<1>1. /\ "signal" \in Threads /\ "main" \in Threads /\ writer \in [Threads -> Writing]
      /\ temp \in [Paths -> Contents]
      /\ Main.step # "idle" => Main.path \in Paths
  BY DEF FileTypes, Threads, Main
<1>2. writer["signal"] \in Writing /\ writer["main"] \in Writing
  BY <1>1
<1> USE DEF Main, Quiet
<1>3. CASE CreateTemp("main")
  <2>1. /\ Main.step = "create" /\ disk' = disk /\ temp' = [temp EXCEPT ![Main.path] = Partial]
        /\ writer' = [writer EXCEPT !["main"] = [Main EXCEPT !.step = "fill", !.inode = "temp"]]
    BY <1>1, <1>3 DEF CreateTemp
  <2>2. writer'["main"] = [Main EXCEPT !.step = "fill", !.inode = "temp"]
    BY <1>1, <2>1
  <2>3. /\ Main'.step = "fill" /\ Main'.inode = "temp"
        /\ Main'.path = Main.path /\ Main'.show = Main.show /\ Main'.why = Main.why
    BY <1>2, <2>2 DEF Writing
  <2>4. writer'["signal"] = writer["signal"]
    BY <1>1, <2>1
  <2>5. temp'[Main.path] = Partial
    BY <1>1, <2>1
  <2>6. QED
    BY <2>1, <2>3, <2>4, <2>5
<1>4. CASE FillTemp("main")
  <2>1. Main.step = "fill" /\ writer' = [writer EXCEPT !["main"].step = "rename"]
    BY <1>4 DEF FillTemp
  <2>2. ASSUME Quiet PROVE temp'[Main.path] = Main.show /\ disk' = disk
    <3>1. Main.inode = "temp" /\ temp[Main.path] = Partial
      BY <2>1, <2>2 DEF WriteInv
    <3>2. Mixed(temp[Main.path], Main.show) = {Main.show}
      BY <3>1 DEF Mixed
    <3>3. temp' = [temp EXCEPT ![Main.path] = Main.show] /\ disk' = disk
      BY <1>4, <3>1, <3>2 DEF FillTemp
    <3>4. Main.path \in Paths
      BY <1>1, <2>1
    <3>5. QED
      BY <1>1, <3>3, <3>4
  <2>3. QED
    BY <1>1, <1>2, <2>1, <2>2 DEF Writing
<1>5. CASE FillFails("main")
  BY <1>1, <1>2, <1>5 DEF FillFails, Writing
<1>6. CASE RenameTemp("main")
  <2>1. /\ Main.step = "rename" /\ disk' = [disk EXCEPT ![Main.path] = temp[Main.path]]
        /\ writer' = [writer EXCEPT !["main"].step = "saved",
                                    !["signal"].inode = Displaced("main", "file")]
    BY <1>6, Others DEF RenameTemp
  <2>2. Quiet => temp[Main.path] = Main.show
    BY <2>1 DEF WriteInv
  <2>3. QED
    BY <1>1, <1>2, <2>1, <2>2 DEF Writing
<1>7. CASE RenameFails("main")
  <2>1. /\ Main.step = "rename" /\ disk' = disk
        /\ writer' = [writer EXCEPT !["main"].step = "failed",
                                    !["signal"].inode = Displaced("main", "lost")]
    BY <1>7, Others DEF RenameFails
  <2>2. QED
    BY <1>1, <1>2, <2>1 DEF Writing
<1>8. QED
  BY <1>3, <1>4, <1>5, <1>6, <1>7 DEF Saving

\* The actions that leave the files, and the thread that saves, alone.
LEMMA Elsewhere ==
    ASSUME \/ Give \/ InterfaceFrame \/ Quits \/ LoopIteration \/ PutBack \/ DrainEnds \/ Play
           \/ AnswerDiscard \/ CloseRequested \/ SignalReturns \/ Gone \/ UNCHANGED vars
    PROVE  UNCHANGED <<doc, disk, temp, writer, astray>>
<1>1. CASE Give \/ InterfaceFrame \/ Quits \/ LoopIteration \/ PutBack \/ DrainEnds \/ Play
  BY <1>1 DEF Give, InterfaceFrame, Quits, LoopIteration, PutBack, DrainEnds, Play, files
<1>2. CASE \/ AnswerDiscard \/ CloseRequested \/ SignalReturns \/ Gone \/ UNCHANGED vars
  BY <1>2 DEF AnswerDiscard, CloseRequested, SignalReturns, Gone, vars, files
<1>3. QED
  BY <1>1, <1>2

\* The actions that change the show only do so while no save is under way.
LEMMA Rewrites ==
    ASSUME Edits \/ NewProject \/ OpenProject \/ ApiOpen
    PROVE  Main.step = "idle" /\ UNCHANGED <<disk, temp, writer>>
<1> USE DEF Main, Draws, Draining, MainFree, files
<1>1. CASE Edits
  BY <1>1 DEF Edits
<1>2. CASE NewProject \/ OpenProject
  BY <1>2 DEF NewProject, OpenProject
<1>3. CASE ApiOpen
  BY <1>3 DEF ApiOpen
<1>4. QED
  BY <1>1, <1>2, <1>3

\* The actions that begin a save on the main thread begin one of the show as
\* it is then.
LEMMA Begins ==
    ASSUME ShowTypes, FileTypes, SaveProject \/ PackProject \/ AnswerQuit
    PROVE  \/ UNCHANGED <<doc, disk, temp, writer>> /\ ~PackProject
           \/ /\ Begun("main") /\ Main.step = "idle" /\ Main'.show = doc'.show
              /\ PackProject => Main'.why = "pack"
              /\ ~PackProject => doc' = doc /\ Main'.why # "pack"
<1> USE DEF Main, files
<1>1. "main" \in Threads
  BY DEF Threads
<1>2. Main.step = "idle"
  BY DEF SaveProject, PackProject, AnswerQuit, Draws, Draining, MainFree
<1>3. ASSUME NEW path, NEW show, NEW why, Begin("main", path, show, why)
      PROVE  Begun("main") /\ Main'.show = show /\ Main'.why = why
  BY <1>1, <1>2, <1>3, BeginBegun
<1>4. CASE SaveProject
  <2>1. ~PackProject /\ doc' = doc
    BY <1>4 DEF SaveProject, PackProject, Draws
  <2>2. \/ UNCHANGED <<disk, temp, writer>>
        \/ \E path \in Paths \union {doc.path, batch[1].path} : Begin("main", path, doc.show, "save")
    BY <1>4 DEF SaveProject
  <2>3. QED
    BY <1>2, <1>3, <2>1, <2>2
<1>5. CASE PackProject
  <2>1. \E packed : doc' = [doc EXCEPT !.show = packed] /\ Begin("main", batch[1].path, packed, "pack")
    BY <1>5 DEF PackProject
  <2>2. PICK packed : doc' = [doc EXCEPT !.show = packed]
                      /\ Begin("main", batch[1].path, packed, "pack")
    BY <2>1
  <2>3. doc'.show = packed
    BY <2>2 DEF ShowTypes, Opened
  <2>4. QED
    BY <1>2, <1>3, <1>5, <2>2, <2>3
<1>6. CASE AnswerQuit
  <2>1. ~PackProject /\ doc' = doc
    BY <1>6 DEF AnswerQuit, PackProject, Draws, Draining, MainFree
  <2>2. \/ UNCHANGED <<disk, temp, writer>>
        \/ \E path \in Paths : Begin("main", path, doc.show, "quit")
    BY <1>6 DEF AnswerQuit
  <2>3. QED
    BY <1>2, <1>3, <2>1, <2>2
<1>7. QED
  BY <1>4, <1>5, <1>6

\* The steps of a save and of the handler that begins one.
LEMMA SignalBegins ==
    ASSUME FileTypes, Signal
    PROVE  /\ doc' = doc /\ astray' = astray /\ UNCHANGED <<disk, temp>>
           /\ Main' = Main /\ (writer' = writer \/ ~Quiet')
<1>1. "main" \in Threads /\ "signal" \in Threads
  BY DEF Threads
<1>2. doc' = doc /\ astray' = astray
  BY DEF Signal
<1>3. CASE UNCHANGED files
  BY <1>2, <1>3 DEF files, Main
<1>4. CASE Begin("signal", doc.path, doc.show, "signal")
  <2>1. Begun("signal")
    BY <1>1, <1>4, BeginBegun DEF Signal
  <2>2. Main' = Main
    BY <1>1, <2>1 DEF Begun, FileTypes, Main
  <2>3. QED
    BY <1>2, <2>1, <2>2 DEF Begun, Quiet
<1>5. QED
  BY <1>3, <1>4 DEF Signal

LEMMA SavingKeeps ==
    ASSUME NEW t \in Threads, Saving(t)
    PROVE  UNCHANGED <<doc, desk, flow, exit, fresh, astray>>
BY DEF Saving, CreateTemp, FillTemp, FillFails, RenameTemp, RenameFails

\* What a save returns: the show is the one that was saved.
LEMMA Returns ==
    ASSUME ShowTypes, FileTypes, SaveReturns
    PROVE  /\ Main.step \in {"saved", "failed"} /\ Main'.step = "idle"
           /\ UNCHANGED <<disk, temp>> /\ writer'["signal"] = writer["signal"]
           /\ doc'.show = doc.show
           /\ Main.step = "saved" =>
                 doc'.path = Main.path /\ doc'.dirty = FALSE /\ astray' = astray
           /\ Main.step = "failed" => doc' = doc /\ astray' = (astray \/ Main.why = "pack")
<1>1. /\ Main.step \in {"saved", "failed"} /\ UNCHANGED <<disk, temp>>
      /\ writer' = [writer EXCEPT !["main"] = Idle]
  BY DEF SaveReturns, Main
<1>2. Main'.step = "idle" /\ writer'["signal"] = writer["signal"]
  BY <1>1 DEF FileTypes, Threads, Main, Idle
<1>3. CASE Main.step = "saved"
  <2>1. doc' = [doc EXCEPT !.path = Main.path, !.dirty = FALSE] /\ astray' = astray
    BY <1>3 DEF SaveReturns, Main
  <2>2. doc'.show = doc.show /\ doc'.path = Main.path /\ doc'.dirty = FALSE
    BY <2>1 DEF ShowTypes, Opened
  <2>3. QED
    BY <1>1, <1>2, <1>3, <2>1, <2>2
<1>4. CASE Main.step = "failed"
  <2>1. doc' = doc /\ astray' = (astray \/ Main.why = "pack")
    BY <1>4 DEF SaveReturns, Main
  <2>2. QED
    BY <1>1, <1>2, <1>4, <2>1
<1>5. QED
  BY <1>1, <1>3, <1>4

\* Every step keeps what is known of the files.
LEMMA WriteKept ==
    ASSUME FlowInv, ShowTypes, FileTypes, WriteInv, [Next]_vars
    PROVE  WriteInv'
<1>0. "main" \in Threads /\ "signal" \in Threads
  BY DEF Threads
<1>1. CASE UNCHANGED <<doc, disk, temp, writer>>
  BY <1>1 DEF WriteInv, Main, Quiet
<1>2. CASE Edits \/ NewProject \/ OpenProject \/ ApiOpen
  BY <1>2, Rewrites DEF WriteInv, Main, Quiet
<1>3. CASE Begun("main") /\ Main'.show = doc'.show
  <2>1. Main'.step = "create" /\ writer'["signal"] = writer["signal"] /\ disk' = disk
    BY <1>0, <1>3 DEF Begun, FileTypes, Main
  <2>2. QED
    BY <1>3, <2>1 DEF WriteInv, Main, Quiet
<1>4. CASE Signal
  <2>1. doc' = doc /\ Main' = Main /\ UNCHANGED <<disk, temp>> /\ (writer' = writer \/ ~Quiet')
    BY <1>4, SignalBegins
  <2>2. QED
    BY <2>1 DEF WriteInv, Main, Quiet
<1>5. CASE Saving("main")
  <2>1. doc' = doc
    BY <1>0, <1>5, SavingKeeps
  <2>2. /\ Main.step # "idle"
        /\ Main'.path = Main.path /\ Main'.show = Main.show
        /\ Quiet' => Quiet
    BY <1>5, MainSaves DEF Quiet
  <2>3. doc'.show = Main'.show
    BY <2>1, <2>2 DEF WriteInv
  <2>4. ASSUME Quiet' PROVE \A p \in Paths : disk'[p] # Partial
    <3>1. Quiet /\ \A p \in Paths : disk[p] # Partial
      BY <2>2, <2>4 DEF WriteInv
    <3>2. CASE disk' = disk
      BY <3>1, <3>2
    <3>3. CASE disk' = [disk EXCEPT ![Main.path] = Main.show]
      <4>1. Main.show \in Nat /\ disk \in [Paths -> Contents]
        BY <1>0 DEF FileTypes, Main, Writing
      <4>2. Main.show # Partial
        BY <4>1 DEF Partial
      <4>3. QED
        BY <3>1, <3>3, <4>1, <4>2
    <3>4. QED
      BY <1>5, <3>1, <3>2, <3>3, MainSaves
  <2>5. ASSUME Quiet'
        PROVE  /\ Main'.step = "fill" => Main'.inode = "temp" /\ temp'[Main'.path] = Partial
               /\ Main'.step = "rename" => temp'[Main'.path] = Main'.show
    BY <1>5, <2>2, <2>5, MainSaves
  <2>6. ASSUME Quiet', Main'.step = "saved" PROVE disk'[Main'.path] = Main'.show
    <3>1. disk' = [disk EXCEPT ![Main.path] = Main.show]
      BY <1>5, <2>2, <2>6, MainSaves
    <3>2. Main.path \in Paths /\ disk \in [Paths -> Contents]
      BY <1>0, <2>2 DEF FileTypes, Main
    <3>3. QED
      BY <2>2, <3>1, <3>2
  <2>7. QED
    BY <2>3, <2>4, <2>5, <2>6 DEF WriteInv
<1>6. CASE Saving("signal")
  <2>1. doc' = doc
    BY <1>0, <1>6, SavingKeeps
  <2>2. QED
    BY <1>6, <2>1, SignalSaves DEF WriteInv
<1>7. CASE SaveReturns
  BY <1>7, Returns DEF WriteInv, Main, Quiet
<1>8. QED
  <2>1. CASE SaveProject \/ PackProject \/ AnswerQuit
    BY <1>1, <1>3, <2>1, Begins
  <2>2. CASE \E t \in Threads : Saving(t)
    BY <1>5, <1>6, <2>2 DEF Threads
  <2>3. CASE \/ Give \/ InterfaceFrame \/ Quits \/ LoopIteration \/ PutBack \/ DrainEnds \/ Play
             \/ AnswerDiscard \/ CloseRequested \/ SignalReturns \/ Gone \/ UNCHANGED vars
    BY <1>1, <2>3, Elsewhere
  <2>4. QED
    BY <1>2, <1>4, <1>7, <2>1, <2>2, <2>3 DEF Next, DrainStep

-----------------------------------------------------------------------------
(* A show that counts as saved.                                            *)

AsSaved == doc.show = IF doc.path = NoPath THEN 0 ELSE disk[doc.path]

\* The show counts as saved, and no save is between its rename and its end.
CountsAsSaved ==
    /\ ~astray /\ ~doc.dirty /\ Quiet
    /\ Main.step = "idle" \/ (Main.why # "pack" /\ Main.step # "saved")

SavedInv == CountsAsSaved => AsSaved

\* A new, an opened and an edited show.
LEMMA RewritesSaved ==
    ASSUME FlowInv, ShowTypes, FileTypes, SavedInv,
           Edits \/ NewProject \/ OpenProject \/ ApiOpen
    PROVE  SavedInv'
<1>0. Main.step = "idle" /\ UNCHANGED <<disk, temp, writer>>
  BY Rewrites
<1>1. CASE UNCHANGED <<doc, astray>>
  BY <1>0, <1>1 DEF SavedInv, CountsAsSaved, AsSaved, Main, Quiet
<1>2. CASE astray' = TRUE
  BY <1>2 DEF SavedInv, CountsAsSaved
<1>3. CASE doc' = [show |-> 0, path |-> NoPath, dirty |-> FALSE]
  BY <1>3 DEF SavedInv, AsSaved
<1>4. ASSUME NEW p \in Paths, doc' = [show |-> disk[p], path |-> p, dirty |-> FALSE]
      PROVE  SavedInv'
  <2>1. p # NoPath
    BY DocumentAssumption
  <2>2. QED
    BY <1>0, <1>4, <2>1 DEF SavedInv, AsSaved
<1>5. ASSUME NEW key, EditShow(key) PROVE SavedInv'
  <2>1. doc'.dirty = TRUE
    BY <1>5 DEF EditShow, ShowTypes, Opened
  <2>2. QED
    BY <2>1 DEF SavedInv, CountsAsSaved
<1>6. CASE Edits
  <2>1. \/ EditShow("none") \/ EditShow("run")
        \/ UNCHANGED <<doc, astray>> \/ astray' = TRUE
    BY <1>6 DEF Edits, UndoEdit, RedoEdit
  <2>2. QED
    BY <1>1, <1>2, <1>5, <2>1
<1>7. CASE NewProject
  BY <1>1, <1>3, <1>7 DEF NewProject, Replace, Park
<1>8. CASE OpenProject
  <2>1. batch[1].path \in Paths
    <3>1. batch \in Seq(Order) /\ batch # <<>> /\ batch[1].op = "Open"
      BY <1>8 DEF FlowInv, OpenProject, Draws, Draining
    <3>2. batch[1] \in Order
      BY <3>1
    <3>3. QED
      BY <3>1, <3>2 DEF Order
  <2>2. QED
    BY <1>1, <1>4, <1>8, <2>1 DEF OpenProject, Opens, Replace, Park
<1>9. CASE ApiOpen
  BY <1>4, <1>9 DEF ApiOpen, Restore
<1>10. QED
  BY <1>6, <1>7, <1>8, <1>9

\* Every step keeps a show that counts as saved the one in its file.
LEMMA SavedKept ==
    ASSUME FlowInv, ShowTypes, FileTypes, WriteInv, SavedInv, [Next]_vars
    PROVE  SavedInv'
<1>0. "main" \in Threads /\ "signal" \in Threads
  BY DEF Threads
<1> USE DEF SavedInv, CountsAsSaved
<1>1. CASE UNCHANGED <<doc, disk, temp, writer, astray>>
  BY <1>1 DEF AsSaved, Main, Quiet
<1>2. CASE Edits \/ NewProject \/ OpenProject \/ ApiOpen
  BY <1>2, RewritesSaved
<1>3. CASE SaveProject \/ PackProject \/ AnswerQuit
  <2>1. astray' = astray
    BY <1>3 DEF SaveProject, PackProject, AnswerQuit
  <2>2. CASE UNCHANGED <<doc, disk, temp, writer>>
    BY <1>1, <2>1, <2>2
  <2>3. CASE PackProject /\ Begun("main") /\ Main'.why = "pack"
    BY <2>3 DEF Begun, Main
  <2>4. CASE Begun("main") /\ Main.step = "idle" /\ doc' = doc
    <3>1. writer'["signal"] = writer["signal"] /\ disk' = disk
      BY <1>0, <2>4 DEF Begun, FileTypes
    <3>2. QED
      BY <2>1, <2>4, <3>1 DEF AsSaved, Quiet
  <2>5. QED
    BY <1>3, <2>2, <2>3, <2>4, Begins
<1>4. CASE Signal
  <2>1. /\ doc' = doc /\ astray' = astray /\ disk' = disk
        /\ Main' = Main /\ (writer' = writer \/ ~Quiet')
    BY <1>4, SignalBegins
  <2>2. QED
    BY <2>1 DEF AsSaved, Quiet
<1>5. CASE Saving("main")
  <2>1. doc' = doc /\ astray' = astray
    BY <1>0, <1>5, SavingKeeps
  <2>2. /\ Main.step # "saved" /\ Main'.step # "idle" /\ Main'.why = Main.why
        /\ Quiet' => Quiet
        /\ Quiet' => disk' = disk \/ Main'.step = "saved"
    BY <1>5, MainSaves DEF Quiet
  <2>3. QED
    BY <2>1, <2>2 DEF AsSaved
<1>6. CASE Saving("signal")
  BY <1>6, SignalSaves
<1>7. CASE SaveReturns
  <2>1. /\ disk' = disk /\ (Quiet' => Quiet) /\ doc'.show = doc.show
    BY <1>7, Returns DEF Quiet
  <2>2. CASE Main.step = "saved"
    <3>1. doc'.path = Main.path
      BY <1>7, <2>2, Returns
    <3>2. Main.path \in Paths /\ doc.show = Main.show
      BY <1>0, <2>2 DEF FileTypes, WriteInv, Main
    <3>3. Main.path # NoPath
      BY <3>2, DocumentAssumption
    <3>4. Quiet => disk[Main.path] = Main.show
      BY <2>2 DEF WriteInv
    <3>5. QED
      BY <2>1, <3>1, <3>2, <3>3, <3>4 DEF AsSaved
  <2>3. CASE Main.step = "failed"
    <3>1. doc' = doc /\ astray' = (astray \/ Main.why = "pack")
      BY <1>7, <2>3, Returns
    <3>2. ~astray' => ~astray /\ Main.why # "pack"
      BY <3>1
    <3>3. QED
      BY <2>1, <2>3, <3>1, <3>2 DEF AsSaved
  <2>4. QED
    BY <1>7, <2>2, <2>3, Returns
<1>8. QED
  <2>1. CASE \E t \in Threads : Saving(t)
    BY <1>5, <1>6, <2>1 DEF Threads
  <2>2. CASE \/ Give \/ InterfaceFrame \/ Quits \/ LoopIteration \/ PutBack \/ DrainEnds \/ Play
             \/ AnswerDiscard \/ CloseRequested \/ SignalReturns \/ Gone \/ UNCHANGED vars
    BY <1>1, <2>2, Elsewhere
  <2>3. QED
    BY <1>2, <1>3, <1>4, <1>7, <2>1, <2>2 DEF Next, DrainStep

-----------------------------------------------------------------------------
(* Save & Quit.                                                            *)

\* The process is to end, no command came between and the handler rests.
Leaving == quit.how = "saved" /\ done = quit.at /\ Quiet

\* While something plays, the show that was saved stays open; while nothing
\* does, the API may open another, but the operator is not asked again.
QuitInv ==
    /\ quit \in [how : {"no", "saved", "discarded"}, path : Titles, show : Nat, at : Nat]
    /\ quit.at <= done
    /\ exit = "saved" => quit.how = "saved"
    /\ Leaving =>
          /\ quit.path \in Paths /\ disk[quit.path] = quit.show
          /\ ~doc.dirty
          /\ playing = -1 => ~asking /\ Main.step = "idle"
          /\ playing # -1 => /\ doc.path = quit.path /\ doc.show = quit.show
                             /\ Main.step # "idle" => Main.path = quit.path

\* A command, or a step that leaves the way out alone.
LEMMA QuitDrawn ==
    ASSUME FlowInv, QuitInv, Drawn
    PROVE  QuitInv'
<1>1. done \in Nat /\ done' = done + 1 /\ UNCHANGED <<quit, exit>>
  BY DEF FlowInv, Drawn
<1>2. quit.at \in Nat /\ quit.at <= done
  BY DEF QuitInv
<1>3. ~Leaving'
  BY <1>1, <1>2 DEF Leaving
<1>4. QED
  BY <1>1, <1>2, <1>3 DEF QuitInv

LEMMA QuitRests ==
    ASSUME QuitInv, UNCHANGED <<doc, disk, playing, asking, quit, done>>,
           Main' = Main, Quiet' => Quiet, exit' = "saved" => exit = "saved" \/ quit.how = "saved"
    PROVE  QuitInv'
BY DEF QuitInv, Leaving

\* The API opens another show; the operator closes the window.
LEMMA QuitOpens == QuitInv /\ ApiOpen => QuitInv'
<1> SUFFICES ASSUME QuitInv, ApiOpen PROVE QuitInv'
  OBVIOUS
<1>1. /\ playing = -1 /\ doc'.dirty = FALSE
      /\ UNCHANGED <<playing, asking, quit, done, exit, disk, writer>>
  BY DEF ApiOpen, Restore, flow, files
<1>2. QED
  BY <1>1 DEF QuitInv, Leaving, Quiet, Main

LEMMA QuitCloses == QuitInv /\ CloseRequested => QuitInv'
<1> SUFFICES ASSUME QuitInv, CloseRequested PROVE QuitInv'
  OBVIOUS
<1>1. /\ UNCHANGED <<doc, playing, quit, done, disk, writer>>
      /\ exit' = "saved" => exit = "saved"
      /\ ~doc.dirty /\ playing = -1 => asking' = asking
  BY DEF CloseRequested, desk, files
<1>2. QED
  BY <1>1 DEF QuitInv, Leaving, Quiet, Main

\* The operator answers: a second save is of the same show to the same file.
LEMMA QuitAnswered ==
    ASSUME ShowTypes, FileTypes, QuitInv, AnswerQuit
    PROVE  QuitInv'
<1>0. "main" \in Threads /\ "signal" \in Threads
  BY DEF Threads
<1>1. asking /\ Main.step = "idle" /\ UNCHANGED <<doc, playing, done, exit>>
  BY DEF AnswerQuit, MainFree, Main, desk
<1>2. Leaving => playing # -1
  BY <1>1 DEF QuitInv
<1>3. CASE asking' = FALSE /\ quit' = [quit EXCEPT !.how = "discarded"] /\ UNCHANGED files
  <2>1. /\ quit' \in [how : {"no", "saved", "discarded"}, path : Titles, show : Nat, at : Nat]
        /\ quit'.how = "discarded" /\ quit'.at = quit.at
    BY <1>3 DEF QuitInv
  <2>2. exit' = exit /\ exit # "saved"
    BY DEF AnswerQuit, MainFree, Running
  <2>3. QED
    BY <1>1, <2>1, <2>2 DEF QuitInv, Leaving
<1>4. CASE asking' = FALSE /\ UNCHANGED <<quit, files>>
  BY <1>1, <1>4 DEF QuitInv, Leaving, Quiet, Main, files
<1>5. ASSUME NEW p \in Paths, doc.path \in {p, NoPath}, Begin("main", p, doc.show, "quit"),
             UNCHANGED <<asking, quit>>
      PROVE  QuitInv'
  <2>1. Begun("main") /\ Main'.path = p
    BY <1>0, <1>1, <1>5, BeginBegun DEF Main
  <2>2. disk' = disk /\ writer'["signal"] = writer["signal"]
    BY <1>0, <2>1 DEF Begun, FileTypes
  <2>3. Leaving => doc.path = quit.path /\ quit.path = p
    BY <1>2, <1>5, DocumentAssumption DEF QuitInv
  <2>4. Leaving' = Leaving
    BY <1>1, <1>5, <2>2 DEF Leaving, Quiet
  <2>5. QED
    BY <1>1, <1>2, <1>5, <2>1, <2>2, <2>3, <2>4 DEF QuitInv
<1>6. QED
  BY <1>3, <1>4, <1>5 DEF AnswerQuit

\* A step of the save.
LEMMA QuitSaving ==
    ASSUME FileTypes, WriteInv, QuitInv, Saving("main")
    PROVE  QuitInv'
<1>0. "main" \in Threads
  BY DEF Threads
<1>1. UNCHANGED <<doc, playing, asking, quit, done, exit>>
  BY <1>0, SavingKeeps DEF desk, flow
<1>2. /\ Main.step # "idle" /\ Main'.step # "idle"
      /\ Main'.path = Main.path /\ Main'.show = Main.show
      /\ Quiet' => Quiet
  BY MainSaves DEF Quiet
<1>3. Leaving' => Leaving
  BY <1>1, <1>2 DEF Leaving
<1>4. ASSUME Leaving PROVE /\ playing # -1 /\ Main.path = quit.path /\ Main.show = quit.show
                           /\ disk'[quit.path] = quit.show
  <2>1. playing # -1 /\ quit.path \in Paths /\ disk[quit.path] = quit.show
    BY <1>2, <1>4 DEF QuitInv
  <2>2. Main.path = quit.path /\ Main.show = quit.show
    BY <1>2, <1>4, <2>1 DEF QuitInv, WriteInv
  <2>3. disk' = disk \/ disk' = [disk EXCEPT ![Main.path] = Main.show]
    BY <1>4, MainSaves DEF Leaving
  <2>4. QED
    BY <2>1, <2>2, <2>3 DEF FileTypes
<1>5. QED
  BY <1>1, <1>2, <1>3, <1>4 DEF QuitInv

\* The save is over, and was for the way out or not.
LEMMA QuitReturns ==
    ASSUME FlowInv, ShowTypes, FileTypes, WriteInv, QuitInv, SaveReturns
    PROVE  QuitInv'
<1>0. "main" \in Threads /\ done \in Nat
  BY DEF Threads, FlowInv
<1>1. /\ disk' = disk /\ Main'.step = "idle" /\ Main.step # "idle" /\ Quiet' = Quiet
      /\ doc'.show = doc.show /\ doc.show = Main.show
      /\ UNCHANGED <<playing, done, exit>> /\ exit # "saved"
  BY Returns DEF SaveReturns, desk, Quiet, WriteInv, Running
<1>2. Main.path \in Paths /\ Main.show \in Nat
  BY <1>0, <1>1 DEF FileTypes, Main, Writing
<1>3. CASE /\ Main.step = "saved" /\ asking' = FALSE
           /\ quit' = [how |-> "saved", path |-> Main.path, show |-> Main.show, at |-> done]
  <2>1. doc'.path = Main.path /\ doc'.dirty = FALSE
    BY <1>3, Returns
  <2>2. Quiet => disk[Main.path] = Main.show
    BY <1>3 DEF WriteInv
  <2>3. quit' \in [how : {"no", "saved", "discarded"}, path : Titles, show : Nat, at : Nat]
    BY <1>0, <1>2, <1>3 DEF Titles
  <2>4. quit'.at = done /\ quit'.path = Main.path /\ quit'.show = Main.show /\ quit'.how = "saved"
    BY <1>3
  <2>5. Leaving' => Quiet
    BY <1>1 DEF Leaving
  <2>6. QED
    BY <1>0, <1>1, <1>2, <1>3, <2>1, <2>2, <2>3, <2>4, <2>5 DEF QuitInv
<1>4. CASE UNCHANGED <<quit, asking>>
  <2>1. Leaving' = Leaving
    BY <1>1, <1>4 DEF Leaving
  <2>2. Leaving => playing # -1 /\ doc.path = quit.path /\ Main.path = quit.path /\ ~doc.dirty
    BY <1>1 DEF QuitInv
  <2>3. \/ doc' = doc
        \/ doc'.path = Main.path /\ doc'.dirty = FALSE
    BY Returns
  <2>4. QED
    BY <1>1, <1>4, <2>1, <2>2, <2>3 DEF QuitInv
<1>5. QED
  BY <1>3, <1>4 DEF SaveReturns, Main

LEMMA QuitKept ==
    ASSUME FlowInv, ShowTypes, FileTypes, WriteInv, QuitInv, [Next]_vars
    PROVE  QuitInv'
<1>1. CASE Edits \/ NewProject \/ OpenProject \/ SaveProject \/ PackProject \/ Play
  BY <1>1, QuitDrawn DEF Edits, NewProject, OpenProject, SaveProject, PackProject, Play
<1>2. CASE Give \/ InterfaceFrame \/ PutBack \/ DrainEnds \/ AnswerDiscard \/ SignalReturns \/ Gone
           \/ UNCHANGED vars
  <2>1. /\ UNCHANGED <<doc, disk, playing, asking, quit, done, writer>>
        /\ exit' = "saved" => exit = "saved"
    BY <1>2 DEF Give, InterfaceFrame, PutBack, DrainEnds, AnswerDiscard, SignalReturns, Gone, vars,
                desk, flow, files
  <2>2. QED
    BY <2>1, QuitRests DEF Main, Quiet
<1>3. CASE Quits
  <2>1. UNCHANGED <<doc, disk, playing, asking, quit, done, writer>> /\ exit' = quit.how
    BY <1>3 DEF Quits, desk, flow, files
  <2>2. QED
    BY <2>1, QuitRests DEF Main, Quiet
<1>4. CASE LoopIteration
  <2>1. quit.how = "no" /\ UNCHANGED <<quit, done, exit>>
    BY <1>4 DEF LoopIteration
  <2>2. QED
    BY <2>1 DEF QuitInv, Leaving
<1>5. CASE ApiOpen
  BY <1>5, QuitOpens
<1>6. CASE CloseRequested
  BY <1>6, QuitCloses
<1>7. CASE AnswerQuit
  BY <1>7, QuitAnswered
<1>8. CASE Saving("main")
  BY <1>8, QuitSaving
<1>9. CASE Saving("signal")
  <2>1. UNCHANGED <<quit, done, exit>> /\ ~Quiet'
    BY <1>9, SavingKeeps, SignalSaves DEF flow, Threads
  <2>2. QED
    BY <2>1 DEF QuitInv, Leaving
<1>10. CASE SaveReturns
  BY <1>10, QuitReturns
<1>11. CASE Signal
  <2>1. /\ doc' = doc /\ disk' = disk /\ Main' = Main /\ (writer' = writer \/ ~Quiet')
    BY <1>11, SignalBegins
  <2>2. UNCHANGED <<playing, asking, quit, done>> /\ (exit' = exit \/ exit' = "signal")
    BY <1>11 DEF Signal, desk, flow
  <2>3. Quiet' => Quiet
    BY <2>1 DEF Quiet
  <2>4. QED
    BY <2>1, <2>2, <2>3, QuitRests
<1>12. QED
  <2>1. CASE \E t \in Threads : Saving(t)
    BY <1>8, <1>9, <2>1 DEF Threads
  <2>2. QED
    BY <1>1, <1>2, <1>3, <1>4, <1>5, <1>6, <1>7, <1>10, <1>11, <2>1 DEF Next, DrainStep

-----------------------------------------------------------------------------
(* The invariants together.                                                *)

DocumentInv == ShowTypes /\ FileTypes /\ WriteInv /\ SavedInv /\ QuitInv

LEMMA DocumentAlways == Spec => []DocumentInv
<1>1. Init => DocumentInv
  <2> SUFFICES ASSUME Init PROVE DocumentInv
    OBVIOUS
  <2>1. ShowTypes
    BY DEF Init, ShowTypes, Opened, Titles
  <2>2. FileTypes
    <3>1. Idle \in Writing /\ Absent \in Contents
      BY DEF Idle, Writing, Titles, Steps, Inodes, Reasons, Contents
    <3>2. QED
      BY <3>1 DEF Init, FileTypes, Idle
  <2>3. Main.step = "idle" /\ \A p \in Paths : disk[p] = Absent
    BY DEF Init, Main, Idle, Threads
  <2>4. WriteInv
    BY <2>3 DEF WriteInv, Absent, Partial
  <2>5. SavedInv
    BY DEF Init, SavedInv, AsSaved
  <2>6. QuitInv
    BY DEF Init, QuitInv, Leaving, Titles
  <2>7. QED
    BY <2>1, <2>2, <2>4, <2>5, <2>6 DEF DocumentInv
<1>2. FlowInv /\ DocumentInv /\ [Next]_vars => DocumentInv'
  BY TypesKept, WriteKept, SavedKept, QuitKept DEF DocumentInv
<1>3. QED
  BY <1>1, <1>2, FlowAlways, PTL DEF Spec

\* Unless the signal handler saves at the same time, no file is ever seen half
\* written, and Save & Quit leaves with the show in its file
\* (write_atomically, save_and_quit).
THEOREM FilesCorrect == Spec => []FilesAreGood
<1>1. DocumentInv => FilesAreGood
  <2> SUFFICES ASSUME DocumentInv PROVE FilesAreGood
    OBVIOUS
  <2>1. FilesAreWhole
    BY DEF DocumentInv, WriteInv, Quiet, FilesAreWhole
  <2>2. QuitKeepsWork
    BY DEF DocumentInv, QuitInv, Leaving, Quiet, QuitKeepsWork
  <2>3. QED
    BY <2>1, <2>2 DEF FilesAreGood
<1>2. QED
  BY <1>1, DocumentAlways, PTL

\* A show that counts as saved is the one in its file, except after an undo,
\* a redo or a failed pack (save_to_path, confirm_discard, quit_needs_confirm).
THEOREM SavedCorrect == Spec => []CleanIsSaved
<1>1. DocumentInv => CleanIsSaved
  BY DEF DocumentInv, SavedInv, CountsAsSaved, AsSaved, Quiet, Main, CleanIsSaved, Threads
<1>2. QED
  BY <1>1, DocumentAlways, PTL
=============================================================================
