---------------------------- MODULE MCTensorView ----------------------------
(***************************************************************************)
(* An instance of TensorView for TLC: scalars, vectors, matrices and a     *)
(* stack of matrices, with empty axes, and indices beyond every axis.      *)
(***************************************************************************)
EXTENDS TensorView

SomeShapes ==
    {<< >>, <<0>>, <<1>>, <<6>>, <<2, 3>>, <<3, 1>>, <<0, 2>>, <<2, 0>>,
     <<1, 1>>, <<3, 2, 2>>}

SomeIndices == -7..6

SomeSteps == {-2, -1, 1, 2, 3}
=============================================================================
