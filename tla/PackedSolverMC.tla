---------------------------- MODULE PackedSolverMC ----------------------------
(* Data for model checking PackedSolver: feature vectors spanned by two free *)
(* coordinates, a client with both labels, more test points than slots.      *)
EXTENDS PackedSolver

MCSamples ==
  {[j \in 0..(D - 1) |-> IF j = 0 THEN u ELSE IF j = 1 THEN v ELSE (u + j * v) % P]
     : u \in Field, v \in {0, 1, 3}}
MCLabels == {y \in [1..NTrain -> {1, -1}] : y[1] = 1}
MCTests == [t \in 0..4 |-> [j \in 0..(D - 1) |-> (t * t + j * (t + 1)) % P]]
=============================================================================
