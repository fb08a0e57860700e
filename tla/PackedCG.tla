------------------------------- MODULE PackedCG -------------------------------
(***************************************************************************)
(* The encrypted solver lssvm/solvers/cg_cipher.py.  The system of a       *)
(* client, [[0, 1^T], [1, K]], is indefinite, so conjugate gradients solve *)
(* K u = y and K v = 1, and the Schur complement gives the bias and the    *)
(* multipliers.  Each 1/t is a Chebyshev series on an interval around the  *)
(* value that a run in the clear, _simulate_cg, predicts for it.           *)
(***************************************************************************)
EXTENDS EncryptedModel

CONSTANTS
  NIter,      \* N_ITER_DEFAULT, from CG_N_ITER
  Preconds    \* the values of PRECOND_DEFAULT, from CG_PRECOND

ASSUME IterAssumption == NIter \in Nat \ {0} /\ Preconds \subseteq BOOLEAN

VARIABLES
  precond,           \* Jacobi preconditioning on or off
  rows, rhs,         \* the system of the running CG solve
  sim,               \* _simulate_cg on it: the state before the next iteration
  it,                \* k of the CG loop
  x_ct, r_ct, p_ct,  \* iterate, residual and direction
  rr,                \* r.r in slot 0
  u, v,              \* the two solutions
  alpha              \* multipliers

\* pc is "u" and "v" in the two CG solves, then "schur" and on to "done", or
\* "raised" once a series has been asked for on an interval around zero.

cgDataVars == <<train, precond>>
systemVars == <<rows, rhs, sim>>
loopVars == <<systemVars, it, x_ct, r_ct, p_ct, rr>>
solutionVars == <<u, v>>
cgVars == <<cgDataVars, pc, loopVars, solutionVars, b, alpha, w, scores, used>>

Unknown == 0..(NTrain - 1)
Vector == [Unknown -> Field]

-----------------------------------------------------------------------------
(* The system of one CG solve, in the clear. *)

KAug(t) ==
  LET H == SystemMatrix(t)
  IN  [i \in Unknown |-> [j \in Unknown |-> H[i + 1][j + 1]]]
RhsOf(t, which) ==
  [i \in Unknown |-> IF which = "u" THEN RightHandSide(t)[i + 1] ELSE 1]

\* jacobi_precondition: A' = S A S and rhs' = S rhs with S = diag(A)^(-1/2).
Scaling(t) ==
  LET K == KAug(t)
  IN  [i \in Unknown |->
         IF precond /\ K[i][i] # 0 THEN Reciprocal[Root[K[i][i]]] ELSE 1]
CgMatrix(t) ==
  LET K == KAug(t)
      S == Scaling(t)
  IN  [i \in Unknown |-> [j \in Unknown |-> Reduce(K[i][j] * S[i] * S[j])]]
CgRhs(t, which) ==
  LET S == Scaling(t)
  IN  [i \in Unknown |-> Reduce(RhsOf(t, which)[i] * S[i])]

Times(a, s) == [i \in Unknown |-> Total([j \in Unknown |-> a[i][j] * s[j]])]
Inner(s, t) == Total([i \in Unknown |-> s[i] * t[i]])
Plus(s, c, t) == [i \in Unknown |-> Reduce(s[i] + c * t[i])]

\* _simulate_cg, which the program runs to its end before the first iteration,
\* here in step with it.  A run that meets p.Ap = 0 or r.r = 0 repeats its
\* last values.
SimStart(start) == [x |-> [i \in Unknown |-> 0], r |-> start, p |-> start]
SimStep(a, s) ==
  LET Ap == Times(a, s.p)
      pAp == Inner(s.p, Ap)
      old == Inner(s.r, s.r)
      step == Reduce(old * Reciprocal[pAp])
      newR == Plus(s.r, -step, Ap)
      beta == Reduce(Inner(newR, newR) * Reciprocal[old])
  IN  IF pAp = 0 \/ old = 0 THEN s
      ELSE [x |-> Plus(s.x, step, s.p), r |-> newR, p |-> Plus(newR, beta, s.p)]

-----------------------------------------------------------------------------
(* The encrypted primitives. *)

\* 1/t on the interval around the simulated value; in slots with another value,
\* the series returns junk.  For the value 0 there is no interval but the point
\* 0, where 1/t raises: nobody gets a result then (see InverseRaises).
HeInvNear(ct, value) ==
  [s \in SlotIndex |-> IF ct[s] = value THEN Reciprocal[value] ELSE Junk]

MatvecRow(a, ct) ==
  EvalTotal([i \in Unknown |->
    EvalRotate(InnerSum(EvalMult(Packed(NTrain, a[i]), ct), NTrain), -i)])
DefectInnerProduct(ct, other) == SumSlots(EvalMult(ct, other), NTrain)
InnerProduct(ct, other) == InnerSum(EvalMult(ct, other), NTrain)
ScalarDiv(num, den, value) == EvalMult(num, EvalMult(HeInvNear(den, value), Unit(0)))
Broadcast(ct) == ReplicateSlot0(ct, NTrain)
DefectSubtractMultiple(ct, scalar, dir) == EvalAdd(ct, EvalMult(Broadcast(scalar), dir))
SubtractMultiple(ct, scalar, dir) == EvalSub(ct, EvalMult(Broadcast(scalar), dir))
DefectAddMultiple(ct, scalar, dir) == EvalAdd(ct, EvalMult(scalar, dir))
AddMultiple(ct, scalar, dir) == EvalAdd(ct, EvalMult(Broadcast(scalar), dir))

\* The values the intervals of the next iteration are chosen around.
PApValue == Inner(sim.p, Times(rows, sim.p))
RrValue == Inner(sim.r, sim.r)

-----------------------------------------------------------------------------
(* cg_solve_fhe. *)

\* Encrypt the system; x_ct = 0 and r_ct = p_ct = rhs.
SquaredNorm(start) == InnerProduct(Packed(NTrain, start), Packed(NTrain, start))
Start(a, start) ==
  /\ rows = a /\ rhs = start /\ sim = SimStart(start)
  /\ it = 0 /\ x_ct = ZeroCt /\ rr = SquaredNorm(start)
  /\ r_ct = Packed(NTrain, start) /\ p_ct = Packed(NTrain, start)

\* Over the reals s.s = 0 and s.A s = 0 only for s = 0, A being positive
\* definite; a client for whom it is not so in the field stops here.
Definite ==
  /\ Inner(r_ct, r_ct) = 0 => \A i \in Unknown : r_ct[i] = 0
  /\ Inner(p_ct, Times(rows, p_ct)) = 0 => \A i \in Unknown : p_ct[i] = 0

IterationsLeft == it < NIter

\* Neither of the divisors the iteration inverts is zero.
Divisible == PApValue # 0 /\ (it < NIter - 1 => RrValue # 0)

Iterate ==
  /\ pc \in {"u", "v"} /\ IterationsLeft
  /\ Definite /\ Divisible
  /\ \E Ap \in {MatvecRow(rows, p_ct)} :
       LET step == ScalarDiv(rr, InnerProduct(p_ct, Ap), PApValue)
       IN  /\ x_ct' = AddMultiple(x_ct, step, p_ct)
           /\ r_ct' = SubtractMultiple(r_ct, step, Ap)
  /\ rr' = InnerProduct(r_ct', r_ct')
  /\ p_ct' = IF it < NIter - 1 THEN AddMultiple(r_ct', ScalarDiv(rr', rr, RrValue), p_ct)
             ELSE p_ct
  /\ it' = it + 1 /\ sim' = SimStep(rows, sim)
  /\ used' = used \cup SumKeys(NTrain) \cup ReplicateKeys(NTrain)
               \cup UNION {RotateKey(-i) : i \in Unknown}
  /\ UNCHANGED <<cgDataVars, pc, rows, rhs, solutionVars, modelVars, alpha, scores>>

\* The number of iterations is fixed before the run.  One more than the system
\* needs, and the interval is (0, 0): the solve ends in a ZeroDivisionError and
\* its iterate is lost.
InverseRaises ==
  /\ pc \in {"u", "v"} /\ IterationsLeft
  /\ Definite /\ ~Divisible
  /\ pc' = "raised"
  /\ UNCHANGED <<cgDataVars, loopVars, solutionVars, modelVars, alpha, scores, used>>

\* Back from the preconditioned unknowns to the system's own.
Rescaled == IF precond THEN EvalMult(x_ct, Packed(NTrain, Scaling(train))) ELSE x_ct

FirstSolved ==
  /\ pc = "u" /\ it = NIter
  /\ u' = Rescaled /\ pc' = "v"
  /\ rhs' = CgRhs(train, "v") /\ sim' = SimStart(rhs')
  /\ it' = 0 /\ x_ct' = ZeroCt /\ rr' = SquaredNorm(rhs')
  /\ r_ct' = Packed(NTrain, rhs') /\ p_ct' = Packed(NTrain, rhs')
  /\ UNCHANGED <<cgDataVars, rows, v, modelVars, alpha, scores>>
  /\ used' = used \cup SumKeys(NTrain)

SecondSolved ==
  /\ pc = "v" /\ it = NIter
  /\ v' = Rescaled /\ pc' = "schur"
  /\ UNCHANGED <<cgDataVars, loopVars, u, modelVars, alpha, scores, used>>

-----------------------------------------------------------------------------
(* solver: the Schur complement, the weights and the scores. *)

\* 1^T K^(-1) 1 in the clear, from numpy.  K is positive definite: there is
\* a solution, and its sum is not zero.
OnesSolutions(t) ==
  LET K == KAug(t)
  IN  {s \in Vector : \A i \in Unknown : Inner(K[i], s) = 1}
SumOfV(t) == Inner([i \in Unknown |-> 1], CHOOSE s \in OnesSolutions(t) : TRUE)
Determined(t) == OnesSolutions(t) # {} /\ SumOfV(t) # 0

DefectMultipliers(bias) == u
Multipliers(bias) == EvalSub(u, EvalMult(Broadcast(bias), v))

Schur ==
  /\ pc = "schur"
  /\ Determined(train)
  /\ b' = EvalMult(InnerSum(u, NTrain),
                   EvalMult(HeInvNear(InnerSum(v, NTrain), SumOfV(train)), Unit(0)))
  /\ alpha' = Multipliers(b')
  /\ pc' = "weights"
  /\ used' = used \cup SumKeys(NTrain) \cup ReplicateKeys(NTrain)
  /\ UNCHANGED <<cgDataVars, loopVars, solutionVars, w, scores>>

\* he_primal_weights_from_alpha: no bias in front of the multipliers.
DefectSlotOf(i) == i
SlotOf(i) == i - 1

WeightsFromAlpha ==
  /\ pc = "weights"
  /\ w' = EvalTotal([i \in 1..NTrain |-> WeightTerm(train, alpha, SlotOf(i), i)])
  /\ pc' = "score"
  /\ used' = used \cup ReplicateKeys(D)
               \cup UNION {RotateKey(SlotOf(i)) : i \in 1..NTrain}
  /\ UNCHANGED <<cgDataVars, loopVars, solutionVars, b, alpha, scores>>

CgPredict == ScoreBatch /\ UNCHANGED <<precond, loopVars, solutionVars, alpha>>

-----------------------------------------------------------------------------
CgInit ==
  /\ EmptyModel
  /\ precond \in Preconds
  /\ precond => \A i \in Unknown : KAug(train)[i][i] \in Squares
  /\ pc = "u" /\ Start(CgMatrix(train), CgRhs(train, "u"))
  /\ u = ZeroCt /\ v = ZeroCt /\ alpha = ZeroCt
  /\ used = SumKeys(NTrain)

CgNext ==
  \/ Iterate \/ InverseRaises \/ FirstSolved \/ SecondSolved
  \/ Schur \/ WeightsFromAlpha \/ CgPredict
CgSpec == CgInit /\ [][CgNext]_cgVars

-----------------------------------------------------------------------------
(* Properties *)

(* At every iteration the encrypted vectors hold what the simulation in the *)
(* clear predicts, and nothing beyond their length, so that the argument of *)
(* every Chebyshev series is in the interval chosen for it.                 *)
FollowsSimulation ==
  pc \in {"u", "v"} =>
    /\ x_ct = Packed(NTrain, sim.x) /\ r_ct = Packed(NTrain, sim.r)
    /\ it < NIter => p_ct = Packed(NTrain, sim.p)
    /\ rr = EvalScale(Unit(0), RrValue)

(* The residual that the iteration updates is the residual of its iterate.  *)
TrueResidual ==
  pc \in {"u", "v"} =>
    LET Ax == Times(rows, x_ct)
    IN  \A i \in Unknown : Reduce(Ax[i] + r_ct[i]) = rhs[i]

(* A solve that gets to its end with as many iterations as unknowns has     *)
(* found the bias and multipliers of the client's whole, indefinite system. *)
CgSolves ==
  NIter = NTrain /\ pc \in {"weights", "score", "done"} =>
    LET s == [j \in Index |-> IF j = 0 THEN b[0] ELSE alpha[j - 1]]
    IN  \A i \in Index :
          Total([j \in Index |-> SystemMatrix(train)[i][j] * s[j]]) = RightHandSide(train)[i]

(* A solve only raises over an iterate that solves its system already: the  *)
(* divisors vanish by convergence and never by a breakdown on the way.      *)
RaisesOnlySolved ==
  pc = "raised" => \A i \in Unknown : Times(rows, x_ct)[i] = rhs[i]

(* Every score is the decision value of its own test point for the bias and *)
(* the multipliers found.                                                   *)
CgScoresInPlace ==
  \A t \in DOMAIN scores :
    scores[t] = Decision(train, b[0], [i \in 1..NTrain |-> alpha[i - 1]], Tests[t])

(* Every rotation has a key among those setup_crypto_context generated, and *)
(* scoring also among those of a context loaded for inference, which is     *)
(* told the number of features in place of the size of the matrix.          *)
CgKeysGenerated ==
  /\ used \subseteq RotationIndices(Size, NTest, D)
  /\ BatchKeys(scores) \subseteq RotationIndices(D, NTest, 0)
=============================================================================
