----------------------------- MODULE LssvmSystem -----------------------------
(***************************************************************************)
(* What the encrypted solvers have in common: the linear system of one     *)
(* client (lssvm/preprocessing.py) and the scoring of test points with     *)
(* encrypted primal weights (solvers/utils.py).                            *)
(***************************************************************************)
EXTENDS Integers, FiniteSets, CkksSlots

CONSTANTS
  NTrain,     \* samples of the client; the system has NTrain + 1 rows
  D,          \* features after the feature map
  InvGamma,   \* 1 / gamma
  Samples,    \* feature vectors the client may hold
  Labels,     \* vectors of +1 / -1 the client may hold
  Tests       \* the test points, a function on 0..NTest-1

ASSUME ShapeAssumption ==
  /\ NTrain \in Nat \ {0} /\ NTrain + 1 <= Slots
  /\ D \in 1..Slots /\ InvGamma \in Field
ASSUME DataAssumption ==
  /\ Samples \subseteq [0..(D - 1) -> Field]
  /\ Labels \subseteq [1..NTrain -> {1, -1}]
  /\ IsFiniteSet(DOMAIN Tests) /\ DOMAIN Tests # {}
  /\ DOMAIN Tests = 0..(Cardinality(DOMAIN Tests) - 1)
  /\ \A t \in DOMAIN Tests : Tests[t] \in [0..(D - 1) -> Field]

Size == NTrain + 1
Index == 0..(Size - 1)
NTest == Cardinality(DOMAIN Tests)
Clients == [X : [1..NTrain -> Samples], y : Labels]

-----------------------------------------------------------------------------
(* The system of a client. *)

Dot(u, v) == Total([j \in 0..(D - 1) |-> u[j] * v[j]])

\* build_lssvm_matrix with the linear kernel, and its right-hand side.
SystemMatrix(t) ==
  [i \in Index |-> [j \in Index |->
     IF i = 0 /\ j = 0 THEN 0
     ELSE IF i = 0 \/ j = 0 THEN 1
     ELSE Reduce(t.y[i] * t.y[j] * Dot(t.X[i], t.X[j])
                   + IF i = j THEN InvGamma ELSE 0)]]
RightHandSide(t) == [i \in Index |-> IF i = 0 THEN 0 ELSE Reduce(t.y[i])]

\* The decision value of test point z for a dual solution: bias and one
\* multiplier for every sample.
Decision(t, bias, alpha, z) ==
  Reduce(bias + SumFunction(
    [i \in 1..NTrain |-> alpha[i] * t.y[i] * Dot(t.X[i], z)]))

-----------------------------------------------------------------------------
(* Primal weights: the multiplier in slot j, over all features.             *)

WeightTerm(t, multipliers, j, i) ==
  EvalMult(ReplicateSlot0(Extract(multipliers, j), D),
           Packed(D, [f \in 0..(D - 1) |-> t.y[i] * t.X[i][f]]))

(* Scores. *)

NoScores == [t \in {} |-> 0]

\* The decision value of test point t in slot 0, and nothing elsewhere.
DefectScore(b, w, t) ==
  EvalAdd(SumSlots(EvalMult(w, Packed(D, Tests[t])), D), b)
Score(b, w, t) ==
  EvalMult(EvalAdd(SumSlots(EvalMult(w, Packed(D, Tests[t])), D), b), Unit(0))

\* One batch of score_test_batched: each score goes to its place in the batch
\* and the batch is decrypted as far as it has points.
BatchSize(done) ==
  LET left == NTest - Cardinality(DOMAIN done)
  IN  IF left < Slots THEN left ELSE Slots

WithNextBatch(done, b, w) ==
  LET start == Cardinality(DOMAIN done)
      batch == EvalTotal([i \in 0..(BatchSize(done) - 1) |->
                            EvalRotate(Score(b, w, start + i), -i)])
  IN  [t \in 0..(start + BatchSize(done) - 1) |->
         IF t < start THEN done[t] ELSE batch[t - start]]

BatchKeys(done) ==
  SumKeys(D) \cup UNION {RotateKey(-i) : i \in 0..(BatchSize(done) - 1)}
=============================================================================
