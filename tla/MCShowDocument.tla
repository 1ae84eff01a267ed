--------------------------- MODULE MCShowDocument ---------------------------
(* Every kind of command; the files are interchangeable.                   *)
EXTENDS ShowDocument, TLC

AllCommands == {"Edit", "Type", "New", "Open", "Save", "SaveAs", "Pack", "Undo", "Redo", "Go",
                "Stop"}

EditSaveUndo == {"Edit", "Save", "Undo"}

FileSymmetry == Permutations(Paths)
=============================================================================
