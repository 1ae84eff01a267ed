--------------------------- MODULE SeekableSource ---------------------------
(***************************************************************************)
(* What a sample provider promises its callers (SampleProvider::read, seek *)
(* and position, crates/cuepool-audio/src/mixer.rs), whatever threads and  *)
(* buffers it uses: after a seek the samples of the source follow each     *)
(* other from the target on, and position() is a place between what was    *)
(* heard when it was called and what has been heard when it returns.       *)
(***************************************************************************)
EXTENDS Integers, Sequences

CONSTANT SourceLen \* length of the source

VARIABLES
    at,     \* target of the seek in force
    heard,  \* samples handed out since
    asked,  \* a call of position(): samples heard when it began
    answer  \* what it is going to return

vars == <<at, heard, asked, answer>>

NoCall == -1

Init == at = 0 /\ heard = <<>> /\ asked = NoCall /\ answer = NoCall

\* One thread seeks and asks.
Seek ==
    /\ asked = NoCall
    /\ at' \in 0 .. SourceLen - 1
    /\ heard' = <<>>
    /\ UNCHANGED <<asked, answer>>

Hear ==
    /\ \E n \in 1 .. SourceLen - at - Len(heard) :
          heard' = heard \o [i \in 1 .. n |-> at + Len(heard) + i - 1]
    /\ UNCHANGED <<at, asked, answer>>

Ask ==
    /\ asked = NoCall
    /\ asked' = Len(heard)
    /\ UNCHANGED <<at, heard, answer>>

Answer ==
    /\ asked # NoCall
    /\ answer = NoCall
    /\ answer' \in at + asked .. at + Len(heard)
    /\ UNCHANGED <<at, heard, asked>>

Return ==
    /\ answer # NoCall
    /\ asked' = NoCall
    /\ answer' = NoCall
    /\ UNCHANGED <<at, heard>>

Next == Seek \/ Hear \/ Ask \/ Answer \/ Return

Spec == Init /\ [][Next]_vars
=============================================================================
