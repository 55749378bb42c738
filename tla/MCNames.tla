------------------------------ MODULE MCNames ------------------------------
(***************************************************************************)
(* Instances of Names for TLC: a library with a function (numpy.dot), a    *)
(* constant (numpy.pi) and a module that only some functions import, with  *)
(* a class in it (pandas.io.formats.excel).                                *)
(***************************************************************************)
EXTENDS Names, TLC

CONSTANTS p1, p2, w1, w2, np, dot, pi, excel, Excel

TwoPrograms == {p1, p2}
TwoWorkers == {w1, w2}
OneProgram == {p1}
OneWorker == {w1}
SomeNames == {dot, pi, excel, Excel}
Parents == (dot :> np) @@ (pi :> np) @@ (excel :> np) @@ (Excel :> excel)
Kinds == (dot :> "function") @@ (pi :> "value")
            @@ (excel :> "module") @@ (Excel :> "function")
LazyNames == {excel, Excel}
AllowedNames == {dot, pi, Excel}

\* Programs are interchangeable, and so are workers.
Symmetry == Permutations(TwoPrograms) \cup Permutations(TwoWorkers)
=============================================================================
