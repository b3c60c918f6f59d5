--------------------------- MODULE MCIntegration ---------------------------
(***************************************************************************)
(* Instances of Integration for TLC: two allowed paths, one of them        *)
(* ignored, and a private one, in repositories that are already dirty.     *)
(***************************************************************************)
EXTENDS Integration, TLC

CONSTANTS p, q, r

Text(a, b) == [mode |-> "regular", content |-> <<a, b>>]
Old == Text(0, 0)
Top == Text(1, 0)
Bottom == Text(0, 1)
Script == [Old EXCEPT !.mode = "executable"]

File(h, i, w) == [head |-> h, index |-> i, work |-> w]
Clean == File(Old, Old, Old)
Tree(x, y, z) == p :> x @@ q :> y @@ r :> z

\* staged and edited again, untracked though ignored, a private edit; a staged
\* file deleted, a path removed from the index; a file replaced, one kept on
\* disk when it was removed from the index
MCStart ==
    {Tree(Clean, File(Absent, Absent, Script), Clean),
     Tree(File(Old, Top, Script), File(Absent, Absent, Absent), File(Old, Old, Top)),
     Tree(File(Absent, Old, Absent), File(Old, Absent, Absent), Clean),
     Tree(File(Old, Absent, Top), File(Old, Absent, Old), Clean)}
MCEdits == {Top, Bottom}

\* a path removed from the index, which .gitignore matches
RemovedStart == {Tree(Clean, File(Old, Absent, Absent), Clean)}
=============================================================================
