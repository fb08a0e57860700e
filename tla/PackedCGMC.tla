------------------------------ MODULE PackedCGMC ------------------------------
(* Data for model checking PackedCG: seven feature vectors, the first sample *)
(* labelled +1 (the other sign mirrors it), more test points than slots.     *)
EXTENDS PackedCG

MCSamples ==
  {[j \in 0..(D - 1) |-> (a * (j + 1) + j * j) % P] : a \in 0..3}
    \cup {[j \in 0..(D - 1) |-> IF j = a THEN 1 ELSE 0] : a \in 0..(D - 1)}
MCLabels == {y \in [1..NTrain -> {1, -1}] : y[1] = 1}
MCTests == [t \in 0..4 |-> [j \in 0..(D - 1) |-> (t * t + j * (t + 1)) % P]]
=============================================================================
