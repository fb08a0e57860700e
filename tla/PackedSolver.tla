----------------------------- MODULE PackedSolver -----------------------------
(***************************************************************************)
(* The encrypted LSSVM solve of qr_householder_cipher_{row,col}.py and the *)
(* shared circuits of solvers/utils.py: encrypt the system of a client,    *)
(* reduce it by Householder reflections, multiply Q^T into the right-hand  *)
(* side, substitute back, recover the primal weights, score test points in *)
(* batches.  One step per call (per row and per batch inside the loops).   *)
(***************************************************************************)
EXTENDS EncryptedModel

CONSTANT
  Packings    \* the solver modules exercised: "row", "col"

ASSUME PackingAssumption == Packings \subseteq {"row", "col"}

VARIABLES
  packing,    \* row ciphertexts or column ciphertexts for R
  k,          \* pivot of the next reflection
  R, Q,       \* R_cts and Q_cols
  c,          \* Q^T rhs
  row,        \* the next row of the back-substitution
  x,          \* the solution [b, alpha] as far as it is known
  negative    \* observed: a pivot so far was reflected with the sign -1

dataVars == <<train, packing>>
qrVars == <<k, R, Q, negative>>
solveVars == <<c, row, x>>
vars == <<dataVars, pc, qrVars, solveVars, modelVars, scores, used>>

\* The row the back-substitution starts with.
LastRow == Size - 1

Encrypted(a, how) ==
  [i \in Index |->
     Packed(Size, IF how = "row" THEN a[i] ELSE [s \in Index |-> a[s][i]])]

-----------------------------------------------------------------------------
(* One Householder reflection. *)

Below == k..(Size - 1)

\* v0 = x0 + sign * norm and tau = 2 / (2 sign norm v0), both in slot 0.
DefectPivot(x0, norm, sign) == EvalAdd(x0, norm)
Pivot(x0, norm, sign) == EvalAdd(x0, EvalScale(norm, sign))
DefectTau(norm, v0, sign) ==
  EvalMult(HeInv(EvalMult(EvalScale(norm, 2 * sign), v0)), Unit(0))
Tau(norm, v0, sign) ==
  EvalMult(EvalScale(HeInv(EvalMult(EvalScale(norm, 2 * sign), v0)), 2), Unit(0))

\* simulate_norms: the sign of the pivot, +1 for a zero pivot; over a field
\* either sign of another pivot, as long as v0 does not vanish.  The step
\* needs a norm: over the reals every sum of squares has a root.
SignFor(x0, norm2) ==
  {sign \in {1, -1} :
     /\ norm2 \in Squares \ {0}
     /\ sign = -1 => x0 # 0
     /\ Reduce(x0 + sign * Root[norm2]) # 0}

Apply(newR, tau, v) ==
  LET d == EvalTotal([j \in Below |-> EvalMult(v[j], Q[j])])
  IN  /\ R' = newR
      /\ Q' = [j \in Index |->
                 IF j \in Below
                 THEN EvalSub(Q[j], EvalMult(EvalMult(tau, v[j]), d)) ELSE Q[j]]

ReflectRow ==
  LET xm == [j \in Below |-> EvalMult(R[j], Unit(k))]
      normSq == Extract(EvalTotal([j \in Below |-> EvalMult(xm[j], xm[j])]), k)
      norm == EvalMult(HeSqrt(normSq), Unit(0))
      x0 == Extract(xm[k], k)
  IN  \E sign \in SignFor(x0[0], normSq[0]) :
        LET v0 == Pivot(x0, norm, sign)
            tau == ReplicateSlot0(Tau(norm, v0, sign), Size)
            v == [j \in Below |->
                    ReplicateSlot0(IF j = k THEN v0 ELSE Extract(xm[j], k), Size)]
            wr == EvalTotal([j \in Below |-> EvalMult(v[j], R[j])])
        IN  /\ Apply([j \in Index |->
                        IF j \in Below
                        THEN EvalSub(R[j], EvalMult(EvalMult(tau, v[j]), wr)) ELSE R[j]],
                     tau, v)
            /\ negative' = (negative \/ sign = -1)

\* The column variant adds the norm to x without looking at the sign, which
\* its v0 and tau honour.
ReflectCol ==
  LET xk == [s \in SlotIndex |-> IF s \in Below THEN R[k][s] ELSE 0]
      normSq == InnerSum(EvalMult(xk, xk), Size)
      norm == EvalMult(HeSqrt(normSq), Unit(0))
      x0 == Extract(xk, k)
      v == EvalAdd(xk, EvalRotate(norm, -k))
  IN  \E sign \in SignFor(x0[0], normSq[0]) :
        LET tau == ReplicateSlot0(Tau(norm, Pivot(x0, norm, sign), sign), Size)
            Dots(j) == ReplicateSlot0(InnerSum(EvalMult(v, R[j]), Size), Size)
        IN  /\ Apply([j \in Index |-> EvalSub(R[j], EvalMult(EvalMult(tau, v), Dots(j)))],
                     tau, [j \in Below |-> ReplicateSlot0(Extract(v, j), Size)])
            /\ negative' = (negative \/ sign = -1)

ReflectKeys ==
  (IF packing = "row" THEN RotateKey(k)
   ELSE SumKeys(Size) \cup RotateKey(-k) \cup UNION {RotateKey(j) : j \in Below})
    \cup ReplicateKeys(Size)

Reflect ==
  /\ pc = "qr" /\ k < Size
  /\ \/ packing = "row" /\ ReflectRow
     \/ packing = "col" /\ ReflectCol
  /\ k' = k + 1
  /\ pc' = IF k' = Size THEN "matmul" ELSE "qr"
  /\ used' = used \cup ReflectKeys
  /\ UNCHANGED <<dataVars, solveVars, modelVars, scores>>

-----------------------------------------------------------------------------
(* The linear algebra after the decomposition. *)

\* he_matmul_T_vec: slot j of c is column j of Q times the right-hand side.
MatmulTVec ==
  /\ pc = "matmul"
  /\ LET rhs == Packed(Size, RightHandSide(train))
     IN  c' = EvalTotal([j \in Index |->
                          EvalRotate(InnerSum(EvalMult(Q[j], rhs), Size), -j)])
  /\ x' = ZeroCt /\ row' = LastRow /\ pc' = "backsub"
  /\ used' = used \cup SumKeys(Size) \cup UNION {RotateKey(-j) : j \in Index}
  /\ UNCHANGED <<dataVars, qrVars, modelVars, scores>>

\* One row of he_back_substitute, the last row first.  Both solvers pass it
\* R_cts as they packed it.
DefectNumerator(i) ==
  EvalSub(Extract(c, i),
          IF i < LastRow - 1 THEN InnerSum(EvalMult(R[i], x), Size) ELSE ZeroCt)
Numerator(i) ==
  EvalSub(Extract(c, i),
          IF i < LastRow THEN InnerSum(EvalMult(R[i], x), Size) ELSE ZeroCt)

BackSubstituteRow ==
  /\ pc = "backsub"
  /\ LET xi == EvalMult(Numerator(row), HeInv(Extract(R[row], row)))
     IN  x' = EvalAdd(x, EvalRotate(xi, -row))
  /\ row' = row - 1
  /\ pc' = IF row = 0 THEN "weights" ELSE "backsub"
  /\ used' = used \cup RotateKey(row) \cup RotateKey(-row)
               \cup (IF row < LastRow THEN SumKeys(Size) ELSE {})
  /\ UNCHANGED <<dataVars, qrVars, c, modelVars, scores>>

\* The bias, and he_primal_weights: w = sum of alpha_i y_i x_i.
Weights ==
  /\ pc = "weights"
  /\ b' = EvalMult(x, Unit(0))
  /\ w' = EvalTotal([i \in 1..NTrain |-> WeightTerm(train, x, i, i)])
  /\ pc' = "score"
  /\ used' = used \cup (1..NTrain) \cup ReplicateKeys(D)
  /\ UNCHANGED <<dataVars, qrVars, solveVars, scores>>

Predict == ScoreBatch /\ UNCHANGED <<packing, qrVars, solveVars>>

-----------------------------------------------------------------------------
Init ==
  /\ EmptyModel
  /\ packing \in Packings
  /\ pc = "qr" /\ k = 0 /\ row = LastRow
  /\ R = Encrypted(SystemMatrix(train), packing)
  /\ Q = [j \in Index |-> Unit(j)]
  /\ c = ZeroCt /\ x = ZeroCt /\ used = {} /\ negative = FALSE

Next == Reflect \/ MatmulTVec \/ BackSubstituteRow \/ Weights \/ Predict
Spec == Init /\ [][Next]_vars

-----------------------------------------------------------------------------
(* Properties *)

\* What decrypting R_cts and Q_cols gives.
RMatrix == [i \in Index |-> [j \in Index |-> IF packing = "row" THEN R[i][j] ELSE R[j][i]]]
QMatrix == [i \in Index |-> [j \in Index |-> Q[j][i]]]

\* After a negative pivot the column solver's matrices are lost: its reflector
\* and the length that tau divides by disagree.
SignHonoured == packing = "row" \/ ~negative

Plain == INSTANCE PlainQR WITH N <- Size, r <- RMatrix, q <- QMatrix

(* The row solver carries out the reflections of the plaintext              *)
(* qr_householder.py with either sign of each pivot, the column solver up   *)
(* to its first negative pivot: rotations, masks, replications and the junk *)
(* of the Chebyshev series in the unused slots leave no trace in the        *)
(* matrices.                                                                *)
ImplementsPlain ==
  Plain!PlainInit /\ [][SignHonoured' => Plain!PlainNext]_(Plain!plainVars)

(* As long as that is so, Q R is the client's matrix at every step, Q is    *)
(* orthogonal, and the columns left of the pivot are zero below the         *)
(* diagonal (verify_fhe).                                                   *)
Decomposes ==
  SignHonoured =>
    /\ Plain!Times(QMatrix, RMatrix) = SystemMatrix(train)
    /\ Plain!Times(Plain!Transposed(QMatrix), QMatrix) = Plain!Identity
    /\ \A j \in 0..(k - 1) : \A i \in (j + 1)..(Size - 1) : RMatrix[i][j] = 0

(* The doubling trees sum and replicate up to the next power of two.  That  *)
(* is harmless because every ciphertext is zero beyond its length.          *)
CleanSlots ==
  /\ \A s \in SlotIndex \ Index :
       /\ \A j \in Index : R[j][s] = 0 /\ Q[j][s] = 0
       /\ c[s] = 0 /\ x[s] = 0
  /\ \A s \in SlotIndex \ {0} : b[s] = 0
  /\ \A s \in SlotIndex : s >= D => w[s] = 0

(* The solver's answer solves the client's system: that of the row solver   *)
(* with either sign of each pivot, and as he_back_substitute claims for     *)
(* every caller, that of the column solver at least for positive pivots     *)
(* (which is not so, see the run "qr_col").                                 *)
Solves ==
  SignHonoured /\ pc \in {"weights", "score", "done"} =>
    \A i \in Index :
      Total([j \in Index |-> SystemMatrix(train)[i][j] * x[j]]) = RightHandSide(train)[i]
RowSolves == packing = "row" => Solves

(* Every score is the decision value w.x + b of its own test point, with    *)
(* the weights of the dual solution, for more test points than slots.       *)
ScoresInPlace ==
  \A t \in DOMAIN scores : scores[t] = Decision(train, x[0], x, Tests[t])

(* Every rotation asked for has a key among those setup_crypto_context      *)
(* generated for this matrix, test set and feature dimension; EvalRotate    *)
(* fails without one.                                                       *)
KeysGenerated == used \subseteq RotationIndices(Size, NTest, D)
=============================================================================
