---------------------------- MODULE MCCommandApi ----------------------------
(* The clients of CommandApi: the keys and commands of their requests. *)
EXTENDS CommandApi, TLC

\* A project opened twice under one key, a GO, a shutdown that is repeated,
\* and another one that reuses the key of the project.
Script == << "open", "shutdown", "open", "go", "shutdown", "shutdown" >>

Key(r) == << "opening", "stop", "opening", NoKey, "stop", "opening" >>[r]
Command(r) == Script[r]
=============================================================================
