----------------------------- MODULE SolverProofs -----------------------------
(***************************************************************************)
(* The encrypted solvers, for every size of the system, number of slots,   *)
(* test points, features and iterations: no circuit asks for a rotation    *)
(* without a key, no ciphertext holds anything beyond its length, the QR   *)
(* solvers carry out the plaintext reflections, factor the client's matrix *)
(* and, on rows, solve its system, the encrypted CG is where its           *)
(* simulation puts it and solves the system once it has as many iterations *)
(* as unknowns, and every score is the decision value of its own test      *)
(* point.                                                                  *)
(***************************************************************************)
EXTENDS PackedSolver, PackedCG, SlotTheorems

-----------------------------------------------------------------------------
(* Rotation keys of the QR solvers. *)

\* The counters that the rotation indices are made of, and the keys.
KeyInv ==
  /\ k \in Nat
  /\ pc = "backsub" => row \in Index
  /\ IsFiniteSet(DOMAIN scores)
  /\ KeysGenerated

-----------------------------------------------------------------------------
LEMMA KeysFromTheStart == Init => KeyInv
<1> SUFFICES ASSUME Init PROVE KeyInv
  OBVIOUS
<1>1. DOMAIN scores = {}
  BY DEF Init, EmptyModel, NoScores
<1>2. IsFiniteSet(DOMAIN scores)
  BY <1>1, FS_EmptySet
<1>3. k = 0 /\ pc = "qr" /\ used = {}
  BY DEF Init
<1> QED
  BY <1>2, <1>3 DEF KeyInv, KeysGenerated

LEMMA KeysAtEveryStep ==
  ASSUME D <= Size \/ D <= NTest, KeyInv, [Next]_vars
  PROVE  KeyInv'
<1> USE Sizes
<1>k. KeysGenerated <=> used \subseteq Keys
  BY DEF KeysGenerated, Keys
<1>l. KeysGenerated' <=> used' \subseteq Keys
  BY DEF KeysGenerated, Keys
<1>0. used \subseteq Keys /\ k \in Nat /\ IsFiniteSet(DOMAIN scores)
  BY <1>k DEF KeyInv
<1>1. CASE Reflect
  <2>1. k \in Nat /\ k < Size
    BY <1>0, <1>1 DEF Reflect
  <2>2. RotateKey(k) \subseteq Keys /\ RotateKey(-k) \subseteq Keys
    BY <2>1, SafeRotateLeft, SafeRotateRight
  <2>3. ASSUME NEW j \in Below PROVE RotateKey(j) \subseteq Keys
    <3>1. j \in Nat /\ j < Size
      BY <2>1 DEF Below
    <3> QED
      BY <3>1, SafeRotateLeft
  <2>4. ReflectKeys \subseteq Keys
    BY <2>2, <2>3, TreesOfSize DEF ReflectKeys
  <2>5. used' = used \cup ReflectKeys /\ k' = k + 1 /\ scores' = scores
    BY <1>1 DEF Reflect
  <2>6. pc' # "backsub"
    BY <1>1 DEF Reflect
  <2> QED
    BY <1>0, <1>l, <2>4, <2>5, <2>6 DEF KeyInv
<1>2. CASE MatmulTVec
  <2>1. ASSUME NEW j \in Index PROVE RotateKey(-j) \subseteq Keys
    <3>1. j \in Nat /\ j < Size
      BY DEF Index
    <3> QED
      BY <3>1, SafeRotateRight
  <2>2. /\ used' = used \cup SumKeys(Size) \cup UNION {RotateKey(-j) : j \in Index}
        /\ row' = LastRow /\ k' = k /\ scores' = scores
    BY <1>2 DEF MatmulTVec, qrVars
  <2>3. LastRow \in Index
    BY DEF LastRow, Index
  <2>4. used' \subseteq Keys
    BY <1>0, <2>1, <2>2, TreesOfSize
  <2> QED
    BY <1>0, <1>l, <2>2, <2>3, <2>4 DEF KeyInv, Index
<1>3. CASE BackSubstituteRow
  <2>1. row \in Nat /\ row < Size
    BY <1>3 DEF BackSubstituteRow, KeyInv, Index
  <2>2. RotateKey(row) \subseteq Keys /\ RotateKey(-row) \subseteq Keys
    BY <2>1, SafeRotateLeft, SafeRotateRight
  <2>3. /\ used' = used \cup RotateKey(row) \cup RotateKey(-row)
                     \cup (IF row < LastRow THEN SumKeys(Size) ELSE {})
        /\ row' = row - 1 /\ k' = k /\ scores' = scores
        /\ pc' = IF row = 0 THEN "weights" ELSE "backsub"
    BY <1>3 DEF BackSubstituteRow, qrVars
  <2>4. used' \subseteq Keys
    BY <1>0, <2>2, <2>3, TreesOfSize
  <2>5. pc' = "backsub" => row' \in Index
    BY <2>1, <2>3 DEF Index
  <2> QED
    BY <1>0, <1>l, <2>3, <2>4, <2>5 DEF KeyInv, Index
<1>4. CASE Weights
  <2>1. /\ used' = used \cup (1..NTrain) \cup ReplicateKeys(D)
        /\ k' = k /\ scores' = scores /\ pc' # "backsub"
    BY <1>4 DEF Weights, qrVars
  <2>2. 1..NTrain \subseteq Keys
    BY LeftKeys
  <2>3. used' \subseteq Keys
    BY <1>0, <2>1, <2>2, ReplicateOverFeatures
  <2> QED
    BY <1>0, <1>l, <2>1, <2>3 DEF KeyInv
<1>5. CASE Predict
  <2>1. /\ used' = used \cup BatchKeys(scores)
        /\ scores' = WithNextBatch(scores, b, w) /\ k' = k /\ pc' # "backsub"
    BY <1>5 DEF Predict, ScoreBatch, qrVars
  <2>2. used' \subseteq Keys
    BY <1>0, <2>1, BatchRotations
  <2>3. IsFiniteSet(DOMAIN scores')
    BY <1>0, <2>1, BatchFinite
  <2> QED
    BY <1>0, <1>l, <2>1, <2>2, <2>3 DEF KeyInv
<1>6. CASE UNCHANGED vars
  <2>1. k' = k /\ pc' = pc /\ row' = row /\ scores' = scores /\ used' = used
    BY <1>6 DEF vars, qrVars, solveVars
  <2> QED
    BY <1>l, <1>0, <2>1 DEF KeyInv, Index
<1> QED
  BY <1>1, <1>2, <1>3, <1>4, <1>5, <1>6 DEF Next

(* Whatever the sizes, every rotation of the decomposition, the             *)
(* back-substitution, the weights and the scores has a key among those      *)
(* _rotation_indices generated, provided that there are no more features    *)
(* than rows or than test points: replicating a multiplier over D slots     *)
(* needs negative powers of two, which feature_dim alone does not add.      *)
THEOREM EveryRotationHasAKey ==
  ASSUME D <= Size \/ D <= NTest
  PROVE  Spec => []KeysGenerated
<1>1. Init => KeyInv
  BY KeysFromTheStart
<1>2. KeyInv /\ [Next]_vars => KeyInv'
  BY KeysAtEveryStep
<1>3. KeyInv => KeysGenerated
  BY DEF KeyInv
<1> QED
  BY <1>1, <1>2, <1>3, PTL DEF Spec

-----------------------------------------------------------------------------
(* Rotation keys of the CG solver. *)

\* The scores done are finitely many, and the keys.
CgKeyInv ==
  /\ IsFiniteSet(DOMAIN scores)
  /\ used \subseteq Keys

LEMMA CgKeysFromTheStart == CgInit => CgKeyInv
<1> SUFFICES ASSUME CgInit PROVE CgKeyInv
  OBVIOUS
<1>1. DOMAIN scores = {} /\ used = SumKeys(NTrain)
  BY DEF CgInit, EmptyModel, NoScores
<1> QED
  BY <1>1, FS_EmptySet, TreesOfTrain DEF CgKeyInv

LEMMA CgKeysAtEveryStep ==
  ASSUME D <= Size \/ D <= NTest, CgKeyInv, [CgNext]_cgVars
  PROVE  CgKeyInv'
<1>0. used \subseteq Keys /\ IsFiniteSet(DOMAIN scores)
  BY DEF CgKeyInv
<1>1. CASE Iterate
  <2>1. ASSUME NEW i \in Unknown PROVE RotateKey(-i) \subseteq Keys
    <3>1. i \in Nat /\ i < Size
      BY Sizes DEF Unknown
    <3> QED
      BY <3>1, SafeRotateRight
  <2>2. /\ used' = used \cup SumKeys(NTrain) \cup ReplicateKeys(NTrain)
                     \cup UNION {RotateKey(-i) : i \in Unknown}
        /\ scores' = scores
    BY <1>1 DEF Iterate
  <2> QED
    BY <1>0, <2>1, <2>2, TreesOfTrain DEF CgKeyInv
<1>2. CASE FirstSolved
  <2>1. used' = used \cup SumKeys(NTrain) /\ scores' = scores
    BY <1>2 DEF FirstSolved
  <2> QED
    BY <1>0, <2>1, TreesOfTrain DEF CgKeyInv
<1>3. CASE InverseRaises \/ SecondSolved
  <2>1. used' = used /\ scores' = scores
    BY <1>3 DEF InverseRaises, SecondSolved
  <2> QED
    BY <1>0, <2>1 DEF CgKeyInv
<1>4. CASE Schur
  <2>1. /\ used' = used \cup SumKeys(NTrain) \cup ReplicateKeys(NTrain)
        /\ scores' = scores
    BY <1>4 DEF Schur
  <2> QED
    BY <1>0, <2>1, TreesOfTrain DEF CgKeyInv
<1>5. CASE WeightsFromAlpha
  <2>1. ASSUME NEW i \in 1..NTrain PROVE RotateKey(SlotOf(i)) \subseteq Keys
    <3>1. SlotOf(i) \in Nat /\ SlotOf(i) < Size
      BY Sizes DEF SlotOf
    <3> QED
      BY <3>1, SafeRotateLeft
  <2>2. /\ used' = used \cup ReplicateKeys(D) \cup UNION {RotateKey(SlotOf(i)) : i \in 1..NTrain}
        /\ scores' = scores
    BY <1>5 DEF WeightsFromAlpha
  <2> QED
    BY <1>0, <2>1, <2>2, ReplicateOverFeatures DEF CgKeyInv
<1>6. CASE CgPredict
  <2>1. used' = used \cup BatchKeys(scores) /\ scores' = WithNextBatch(scores, b, w)
    BY <1>6 DEF CgPredict, ScoreBatch
  <2>2. used' \subseteq Keys
    BY <1>0, <2>1, BatchRotations
  <2>3. IsFiniteSet(DOMAIN scores')
    BY <1>0, <2>1, BatchFinite
  <2> QED
    BY <2>2, <2>3 DEF CgKeyInv
<1>7. CASE UNCHANGED cgVars
  <2>1. used' = used /\ scores' = scores
    BY <1>7 DEF cgVars
  <2> QED
    BY <1>0, <2>1 DEF CgKeyInv
<1> QED
  BY <1>1, <1>2, <1>3, <1>4, <1>5, <1>6, <1>7 DEF CgNext

(* Whatever the sizes and the number of iterations, every rotation of the   *)
(* CG solver has a key among those setup_crypto_context generated, under    *)
(* the same unwritten condition as for the other solvers; scoring also has  *)
(* one in a context that is loaded for inference.                           *)
THEOREM EveryCgRotationHasAKey ==
  ASSUME D <= Size \/ D <= NTest
  PROVE  CgSpec => []CgKeysGenerated
<1>1. CgInit => CgKeyInv
  BY CgKeysFromTheStart
<1>2. CgKeyInv /\ [CgNext]_cgVars => CgKeyInv'
  BY CgKeysAtEveryStep
<1>3. CgKeyInv => CgKeysGenerated
  BY InferenceHasKeys DEF CgKeyInv, CgKeysGenerated, Keys
<1> QED
  BY <1>1, <1>2, <1>3, PTL DEF CgSpec

-----------------------------------------------------------------------------
(* Clean ciphertexts and scores of the QR solvers. *)

\* Ciphertexts that are zero from slot n on.
CleanCts(n) == {ct \in Cts : Clean(ct, n)}

LEMMA CleanOperations ==
  ASSUME NEW n \in Int, NEW ct \in CleanCts(n), NEW other \in CleanCts(n), NEW factor \in Cts
  PROVE  /\ EvalAdd(ct, other) \in CleanCts(n) /\ EvalSub(ct, other) \in CleanCts(n)
         /\ EvalMult(ct, factor) \in CleanCts(n) /\ EvalMult(factor, ct) \in CleanCts(n)
<1>1. ct \in Cts /\ Clean(ct, n) /\ other \in Cts /\ Clean(other, n)
  BY DEF CleanCts
<1>2. /\ EvalAdd(ct, other) \in Cts /\ EvalSub(ct, other) \in Cts
      /\ EvalMult(ct, factor) \in Cts /\ EvalMult(factor, ct) \in Cts
  BY <1>1, SlotArithmetic
<1>3. /\ Clean(EvalAdd(ct, other), n) /\ Clean(EvalSub(ct, other), n)
      /\ Clean(EvalMult(ct, factor), n) /\ Clean(EvalMult(factor, ct), n)
  BY <1>1, CleanArithmetic
<1> QED
  BY <1>2, <1>3 DEF CleanCts

LEMMA CleanSum ==
  ASSUME NEW I, IsFiniteSet(I), NEW n \in Int, NEW family \in [I -> CleanCts(n)]
  PROVE  EvalTotal(family) \in CleanCts(n)
<1>1. family \in [I -> Cts] /\ \A i \in I : Clean(family[i], n)
  BY DEF CleanCts
<1>2. EvalTotal(family) \in Cts
  BY <1>1, EvalTotalType
<1>3. Clean(EvalTotal(family), n)
  BY <1>1, CleanTotal
<1> QED
  BY <1>2, <1>3 DEF CleanCts

LEMMA CleanZero == ASSUME NEW n \in Int PROVE ZeroCt \in CleanCts(n)
<1>1. ZeroCt \in Cts
  BY ConstantCts
<1>2. \A s \in SlotIndex : ZeroCt[s] = 0
  BY DEF ZeroCt
<1> QED
  BY <1>1, <1>2 DEF CleanCts, Clean

\* What is in slot 0 alone, moved to a slot of the system.
LEMMA CleanPlaced ==
  ASSUME NEW ct \in CleanCts(1), NEW j \in Index
  PROVE  EvalRotate(ct, -j) \in CleanCts(Size)
<1>1. j \in SlotIndex /\ j \in Int /\ j < Size /\ -j \in Int
  BY Indices, Sizes DEF Index
<1>2. ct \in Cts /\ Clean(ct, 1)
  BY DEF CleanCts
<1>3. EvalRotate(ct, -j) \in Cts
  BY <1>1, <1>2, RotateType
<1>4. \A s \in SlotIndex : EvalRotate(ct, -j)[s] = IF s = j THEN ct[0] ELSE 0
  BY <1>1, <1>2, Placed
<1>5. \A s \in SlotIndex : s \in Int
  BY SlotsType
<1>6. Clean(EvalRotate(ct, -j), Size)
  BY <1>1, <1>4, <1>5, Sizes DEF Clean
<1> QED
  BY <1>3, <1>6 DEF CleanCts

\* Masked circuits.
LEMMA CleanMasked ==
  ASSUME NEW ct \in Cts, NEW n \in Int
  PROVE  /\ EvalMult(ct, Unit(0)) \in CleanCts(1)
         /\ InnerSum(ct, n) \in CleanCts(1) /\ Extract(ct, n) \in CleanCts(1)
<1>1. EvalMult(ct, Unit(0)) \in Cts
  BY ConstantCts, SlotArithmetic
<1>2. InnerSum(ct, n) \in Cts /\ Extract(ct, n) \in Cts
  BY TreesType, ExtractType
<1> QED
  BY <1>1, <1>2, MaskedClean DEF CleanCts

-----------------------------------------------------------------------------
(* No slot of a ciphertext is used beyond its length. *)

SlotInv ==
  /\ train \in Clients /\ packing \in {"row", "col"} /\ k \in Nat
  /\ pc = "backsub" => row \in Index
  /\ R \in [Index -> CleanCts(Size)] /\ Q \in [Index -> CleanCts(Size)]
  /\ c \in CleanCts(Size) /\ x \in CleanCts(Size)
  /\ b \in CleanCts(1) /\ w \in CleanCts(D)

LEMMA SlotsAtTheStart == Init => SlotInv
<1> SUFFICES ASSUME Init PROVE SlotInv
  OBVIOUS
<1> USE Sizes
<1>1. /\ train \in Clients /\ packing \in {"row", "col"} /\ k \in Nat /\ pc = "qr"
      /\ c = ZeroCt /\ x = ZeroCt /\ b = ZeroCt /\ w = ZeroCt
  BY PackingAssumption DEF Init, EmptyModel
<1>2. /\ c \in CleanCts(Size) /\ x \in CleanCts(Size)
      /\ b \in CleanCts(1) /\ w \in CleanCts(D)
  BY <1>1, CleanZero
<1>3. SystemMatrix(train) \in [Index -> [Index -> Field]]
  BY <1>1, SystemTypes
<1>4. Field \subseteq Int
  BY PType
<1> DEFINE H == SystemMatrix(train)
           Val(i) == IF packing = "row" THEN H[i] ELSE [s \in Index |-> H[s][i]]
<1>5. ASSUME NEW i \in Index PROVE Packed(Size, Val(i)) \in CleanCts(Size)
  <2>1. \A s \in 0..(Size - 1) : Val(i)[s] \in Int
    BY <1>3, <1>4 DEF Index
  <2>2. Packed(Size, Val(i)) \in Cts
    <3> HIDE DEF Val
    <3> QED
      BY <2>1, PackedType
  <2> HIDE DEF Val
  <2>3. Clean(Packed(Size, Val(i)), Size)
    BY CleanPacked
  <2> QED
    BY <2>2, <2>3 DEF CleanCts
<1>6. R = [i \in Index |-> Packed(Size, Val(i))]
  BY DEF Init, Encrypted
<1>7. R \in [Index -> CleanCts(Size)]
  <2> HIDE DEF Val
  <2> QED
    BY <1>5, <1>6
<1>8. ASSUME NEW j \in Index PROVE Unit(j) \in CleanCts(Size)
  <2>1. Unit(j) \in Cts
    BY ConstantCts
  <2>2. \A s \in SlotIndex : s >= Size => s # j
    BY SlotsType DEF Index
  <2>3. Clean(Unit(j), Size)
    BY <2>2 DEF Clean, Unit
  <2> QED
    BY <2>1, <2>3 DEF CleanCts
<1>9. Q \in [Index -> CleanCts(Size)]
  BY <1>8 DEF Init
<1> QED
  BY <1>1, <1>2, <1>7, <1>9 DEF SlotInv

\* The rows or columns from the pivot on.
LEMMA BelowType ==
  ASSUME k \in Nat
  PROVE  Below \subseteq Index /\ IsFiniteSet(Below) /\ Below \subseteq Int
<1>1. Below \subseteq Index /\ Below \subseteq Int
  BY Sizes DEF Below, Index
<1> QED
  BY <1>1, Indices, FS_Subset

LEMMA ApplyClean ==
  ASSUME SlotInv, NEW newR \in [Index -> CleanCts(Size)], NEW tau \in Cts,
         NEW vs \in [Below -> Cts], Apply(newR, tau, vs)
  PROVE  R' \in [Index -> CleanCts(Size)] /\ Q' \in [Index -> CleanCts(Size)]
<1> USE Sizes
<1>0. Below \subseteq Index /\ IsFiniteSet(Below)
  BY BelowType DEF SlotInv
<1>1. Q \in [Index -> CleanCts(Size)]
  BY DEF SlotInv
<1> DEFINE family == [j \in Below |-> EvalMult(vs[j], Q[j])]
           d == EvalTotal(family)
<1>2. family \in [Below -> CleanCts(Size)]
  BY <1>0, <1>1, CleanOperations
<1>3. d \in CleanCts(Size)
  <2> HIDE DEF family
  <2> QED
    BY <1>0, <1>2, CleanSum
<1>4. /\ R' = newR
      /\ Q' = [j \in Index |->
                 IF j \in Below
                 THEN EvalSub(Q[j], EvalMult(EvalMult(tau, vs[j]), d)) ELSE Q[j]]
  BY DEF Apply
<1> HIDE DEF d
<1>5. ASSUME NEW j \in Below
      PROVE  EvalSub(Q[j], EvalMult(EvalMult(tau, vs[j]), d)) \in CleanCts(Size)
  <2>1. EvalMult(tau, vs[j]) \in Cts
    BY SlotArithmetic
  <2>2. EvalMult(EvalMult(tau, vs[j]), d) \in CleanCts(Size)
    BY <2>1, <1>3, CleanOperations
  <2>3. Q[j] \in CleanCts(Size)
    BY <1>0, <1>1
  <2> QED
    BY <2>2, <2>3, <2>1, CleanOperations
<1> QED
  BY <1>1, <1>4, <1>5

\* The masked ciphertext of a pivot and its tau.
LEMMA PivotTypes ==
  ASSUME NEW x0 \in Cts, NEW norm \in Cts, NEW sign \in {1, -1}
  PROVE  /\ Pivot(x0, norm, sign) \in Cts
         /\ Tau(norm, Pivot(x0, norm, sign), sign) \in Cts
<1>1. sign \in Int /\ 2 * sign \in Int
  OBVIOUS
<1>2. Pivot(x0, norm, sign) \in Cts
  BY <1>1, SlotArithmetic DEF Pivot
<1> DEFINE v0 == Pivot(x0, norm, sign)
           den == EvalMult(EvalScale(norm, 2 * sign), v0)
<1>3. EvalScale(norm, 2 * sign) \in Cts
  BY <1>1, SlotArithmetic
<1>4. den \in Cts
  BY <1>2, <1>3, SlotArithmetic
<1>5. HeInv(den) \in Cts
  BY <1>4, ChebyshevTypes
<1>6. EvalScale(HeInv(den), 2) \in Cts
  BY <1>5, SlotArithmetic
<1>7. EvalMult(EvalScale(HeInv(den), 2), Unit(0)) \in Cts
  BY <1>6, ConstantCts, SlotArithmetic
<1> QED
  BY <1>2, <1>7 DEF Tau

LEMMA ReflectRowClean ==
  ASSUME SlotInv, k < Size, ReflectRow
  PROVE  R' \in [Index -> CleanCts(Size)] /\ Q' \in [Index -> CleanCts(Size)]
<1> USE Sizes
<1>0. k \in Nat /\ k \in Below /\ k \in Int
  BY DEF SlotInv, Below
<1>1. Below \subseteq Index /\ IsFiniteSet(Below) /\ Below \subseteq Int
  BY <1>0, BelowType
<1>2. R \in [Index -> CleanCts(Size)] /\ R \in [Index -> Cts]
  BY DEF SlotInv, CleanCts
<1> DEFINE xm == [j \in Below |-> EvalMult(R[j], Unit(k))]
           squares == [j \in Below |-> EvalMult(xm[j], xm[j])]
           normSq == Extract(EvalTotal(squares), k)
           norm == EvalMult(HeSqrt(normSq), Unit(0))
           x0 == Extract(xm[k], k)
           tau(sign) == ReplicateSlot0(Tau(norm, Pivot(x0, norm, sign), sign), Size)
           vs(sign) == [j \in Below |->
                          ReplicateSlot0(IF j = k THEN Pivot(x0, norm, sign)
                                         ELSE Extract(xm[j], k), Size)]
           wr(sign) == EvalTotal([j \in Below |-> EvalMult(vs(sign)[j], R[j])])
           newR(sign) == [j \in Index |->
                            IF j \in Below
                            THEN EvalSub(R[j], EvalMult(EvalMult(tau(sign), vs(sign)[j]), wr(sign)))
                            ELSE R[j]]
<1>3. PICK sign \in {1, -1} : Apply(newR(sign), tau(sign), vs(sign))
  BY DEF ReflectRow, SignFor
<1>4. xm \in [Below -> Cts]
  BY <1>1, <1>2, ConstantCts, SlotArithmetic
<1> HIDE DEF xm
<1>5. squares \in [Below -> Cts]
  BY <1>4, SlotArithmetic
<1> HIDE DEF squares
<1>6. normSq \in Cts
  BY <1>0, <1>1, <1>5, EvalTotalType, ExtractType
<1> HIDE DEF normSq
<1>7. norm \in Cts
  BY <1>6, ChebyshevTypes, ConstantCts, SlotArithmetic
<1> HIDE DEF norm
<1>8. x0 \in Cts
  BY <1>0, <1>4, ExtractType
<1> HIDE DEF x0
<1>9. Pivot(x0, norm, sign) \in Cts /\ Tau(norm, Pivot(x0, norm, sign), sign) \in Cts
  BY <1>7, <1>8, PivotTypes
<1>10. tau(sign) \in Cts
  BY <1>9, TreesType
<1> HIDE DEF tau
<1>11. ASSUME NEW j \in Below
       PROVE  ReplicateSlot0(IF j = k THEN Pivot(x0, norm, sign)
                             ELSE Extract(xm[j], k), Size) \in Cts
  <2>1. Extract(xm[j], k) \in Cts
    BY <1>0, <1>4, ExtractType
  <2> QED
    BY <2>1, <1>9, TreesType
<1>12. vs(sign) \in [Below -> Cts]
  BY <1>11
<1> HIDE DEF vs
<1>13. [j \in Below |-> EvalMult(vs(sign)[j], R[j])] \in [Below -> CleanCts(Size)]
  BY <1>1, <1>2, <1>12, CleanOperations
<1>14. wr(sign) \in CleanCts(Size)
  <2> DEFINE family == [j \in Below |-> EvalMult(vs(sign)[j], R[j])]
  <2>1. family \in [Below -> CleanCts(Size)]
    BY <1>13
  <2> HIDE DEF family
  <2>2. IsFiniteSet(Below) /\ Size \in Int
    BY <1>1
  <2>3. EvalTotal(family) \in CleanCts(Size)
    BY ONLY <2>1, <2>2, CleanSum
  <2> QED
    BY <2>3 DEF family
<1> HIDE DEF wr
<1>15. ASSUME NEW j \in Below
       PROVE  EvalSub(R[j], EvalMult(EvalMult(tau(sign), vs(sign)[j]), wr(sign))) \in CleanCts(Size)
  <2>1. EvalMult(tau(sign), vs(sign)[j]) \in Cts
    BY <1>10, <1>12, SlotArithmetic
  <2>2. EvalMult(EvalMult(tau(sign), vs(sign)[j]), wr(sign)) \in CleanCts(Size)
    BY <2>1, <1>14, CleanOperations
  <2>3. R[j] \in CleanCts(Size)
    BY <1>1, <1>2
  <2> QED
    BY <2>1, <2>2, <2>3, CleanOperations
<1>16. newR(sign) \in [Index -> CleanCts(Size)]
  BY <1>2, <1>15
<1> HIDE DEF newR
<1> QED
  BY <1>3, <1>10, <1>12, <1>16, ApplyClean

LEMMA ReflectColClean ==
  ASSUME SlotInv, k < Size, ReflectCol
  PROVE  R' \in [Index -> CleanCts(Size)] /\ Q' \in [Index -> CleanCts(Size)]
<1> USE Sizes
<1>0. k \in Nat /\ k \in Below /\ k \in Int /\ k \in Index /\ 1 \in Int
  BY DEF SlotInv, Below, Index
<1>1. Below \subseteq Index /\ IsFiniteSet(Below) /\ Below \subseteq Int
  BY <1>0, BelowType
<1>2. R \in [Index -> CleanCts(Size)] /\ R \in [Index -> Cts]
  BY DEF SlotInv, CleanCts
<1> DEFINE xk == [s \in SlotIndex |-> IF s \in Below THEN R[k][s] ELSE 0]
           normSq == InnerSum(EvalMult(xk, xk), Size)
           norm == EvalMult(HeSqrt(normSq), Unit(0))
           x0 == Extract(xk, k)
           vk == EvalAdd(xk, EvalRotate(norm, -k))
           tau(sign) == ReplicateSlot0(Tau(norm, Pivot(x0, norm, sign), sign), Size)
           Dots(j) == ReplicateSlot0(InnerSum(EvalMult(vk, R[j]), Size), Size)
           newR(sign) == [j \in Index |-> EvalSub(R[j], EvalMult(EvalMult(tau(sign), vk), Dots(j)))]
           vs == [j \in Below |-> ReplicateSlot0(Extract(vk, j), Size)]
<1>3. PICK sign \in {1, -1} : Apply(newR(sign), tau(sign), vs)
  BY DEF ReflectCol, SignFor
<1>4. xk \in CleanCts(Size)
  <2>1. R[k] \in Cts
    BY <1>0, <1>2
  <2>2. xk \in Cts
    BY <2>1, PType DEF Cts
  <2>3. \A s \in SlotIndex : s >= Size => s \notin Below
    BY SlotsType DEF Below
  <2>4. Clean(xk, Size)
    BY <2>3 DEF Clean
  <2> QED
    BY <2>2, <2>4 DEF CleanCts
<1>4a. xk \in Cts
  BY <1>4 DEF CleanCts
<1> HIDE DEF xk
<1>5. normSq \in Cts
  BY <1>4a, SlotArithmetic, TreesType
<1> HIDE DEF normSq
<1>6. norm \in CleanCts(1) /\ norm \in Cts
  BY <1>0, <1>5, ChebyshevTypes, CleanMasked DEF CleanCts
<1> HIDE DEF norm
<1>7. x0 \in Cts
  BY <1>0, <1>4a, ExtractType
<1> HIDE DEF x0
<1>8. EvalRotate(norm, -k) \in CleanCts(Size)
  BY <1>0, <1>6, CleanPlaced
<1>9. vk \in CleanCts(Size) /\ vk \in Cts
  <2>1. EvalRotate(norm, -k) \in Cts
    BY <1>8 DEF CleanCts
  <2> QED
    BY <1>4, <1>8, <2>1, CleanOperations DEF CleanCts
<1> HIDE DEF vk
<1>10. tau(sign) \in Cts
  <2>1. Tau(norm, Pivot(x0, norm, sign), sign) \in Cts
    BY <1>6, <1>7, PivotTypes
  <2> QED
    BY <2>1, TreesType
<1> HIDE DEF tau
<1>11. ASSUME NEW j \in Index
       PROVE  EvalSub(R[j], EvalMult(EvalMult(tau(sign), vk), Dots(j))) \in CleanCts(Size)
  <2>1. R[j] \in CleanCts(Size) /\ R[j] \in Cts
    BY <1>2
  <2>2. EvalMult(vk, R[j]) \in Cts
    BY <2>1, <1>9, SlotArithmetic
  <2>3. InnerSum(EvalMult(vk, R[j]), Size) \in Cts
    BY <2>2, TreesType
  <2>4. Dots(j) \in Cts
    BY <2>3, TreesType
  <2> HIDE DEF Dots
  <2>5. EvalMult(tau(sign), vk) \in CleanCts(Size)
    BY <1>9, <1>10, CleanOperations
  <2>6. EvalMult(EvalMult(tau(sign), vk), Dots(j)) \in CleanCts(Size)
    BY <2>4, <2>5, CleanOperations
  <2> QED
    BY <2>1, <2>6, CleanOperations
<1>12. newR(sign) \in [Index -> CleanCts(Size)]
  BY <1>11
<1>13. vs \in [Below -> Cts]
  <2>1. ASSUME NEW j \in Below PROVE ReplicateSlot0(Extract(vk, j), Size) \in Cts
    <3>1. Extract(vk, j) \in Cts
      BY <1>1, <1>9, ExtractType
    <3> QED
      BY <3>1, TreesType
  <2> QED
    BY <2>1
<1> HIDE DEF newR, vs
<1> QED
  BY <1>3, <1>10, <1>12, <1>13, ApplyClean

LEMMA MatmulClean ==
  ASSUME SlotInv, MatmulTVec
  PROVE  c' \in CleanCts(Size)
<1> USE Sizes
<1> DEFINE side == Packed(Size, RightHandSide(train))
           family == [j \in Index |-> EvalRotate(InnerSum(EvalMult(Q[j], side), Size), -j)]
<1>1. c' = EvalTotal(family)
  BY DEF MatmulTVec
<1>2. RightHandSide(train) \in [Index -> Field]
  BY SystemTypes DEF SlotInv
<1>3. \A s \in 0..(Size - 1) : RightHandSide(train)[s] \in Int
  <2>1. Field \subseteq Int
    BY PType
  <2> QED
    BY <1>2, <2>1 DEF Index
<1>4. side \in Cts
  <2> DEFINE val == RightHandSide(train)
  <2>1. \A s \in 0..(Size - 1) : val[s] \in Int
    BY <1>3
  <2> HIDE DEF val
  <2>2. Packed(Size, val) \in Cts
    BY <2>1, PackedType
  <2> QED
    BY <2>2 DEF val
<1> HIDE DEF side
<1>5. ASSUME NEW j \in Index
      PROVE  EvalRotate(InnerSum(EvalMult(Q[j], side), Size), -j) \in CleanCts(Size)
  <2>1. Q[j] \in Cts
    BY DEF SlotInv, CleanCts
  <2>2. EvalMult(Q[j], side) \in Cts
    BY <2>1, <1>4, SlotArithmetic
  <2>3. InnerSum(EvalMult(Q[j], side), Size) \in CleanCts(1)
    BY <2>2, CleanMasked
  <2> QED
    BY <2>3, CleanPlaced
<1>6. family \in [Index -> CleanCts(Size)]
  BY <1>5
<1> HIDE DEF family
<1>7. IsFiniteSet(Index) /\ Size \in Int
  BY Indices
<1>8. EvalTotal(family) \in CleanCts(Size)
  BY ONLY <1>6, <1>7, CleanSum
<1> QED
  BY <1>1, <1>8

LEMMA BackSubstituteClean ==
  ASSUME SlotInv, BackSubstituteRow
  PROVE  x' \in CleanCts(Size)
<1> USE Sizes
<1>0. row \in Index /\ row \in Int /\ 1 \in Int
  BY DEF SlotInv, BackSubstituteRow, Index
<1>1. R[row] \in Cts /\ c \in Cts /\ x \in Cts /\ x \in CleanCts(Size)
  BY <1>0 DEF SlotInv, CleanCts
<1>2. Extract(c, row) \in CleanCts(1) /\ Extract(R[row], row) \in Cts
  BY <1>0, <1>1, CleanMasked, ExtractType
<1>3. InnerSum(EvalMult(R[row], x), Size) \in CleanCts(1)
  <2>1. EvalMult(R[row], x) \in Cts
    BY <1>1, SlotArithmetic
  <2> QED
    BY <2>1, CleanMasked
<1>4. ZeroCt \in CleanCts(1)
  BY CleanZero
<1>5. ZeroCt \in Cts
  BY ConstantCts
<1>6. Numerator(row) \in CleanCts(1)
  BY <1>0, <1>2, <1>3, <1>4, <1>5, CleanOperations DEF Numerator
<1> DEFINE xi == EvalMult(Numerator(row), HeInv(Extract(R[row], row)))
<1>7. HeInv(Extract(R[row], row)) \in Cts
  BY <1>2, ChebyshevTypes
<1>8. xi \in CleanCts(1)
  BY <1>0, <1>6, <1>7, CleanOperations
<1>9. x' = EvalAdd(x, EvalRotate(xi, -row))
  BY DEF BackSubstituteRow
<1> HIDE DEF xi
<1>10. EvalRotate(xi, -row) \in CleanCts(Size)
  BY <1>0, <1>8, CleanPlaced
<1> QED
  BY <1>1, <1>9, <1>10, CleanOperations

\* The slot that the multiplier of a sample is in.
SlotsOfX == [i \in 1..NTrain |-> i]

LEMMA WeightsClean ==
  ASSUME SlotInv, Weights
  PROVE  /\ b' \in CleanCts(1) /\ b'[0] = x[0]
         /\ w' \in CleanCts(D) /\ w' = WeightsOf(train, x, SlotsOfX)
<1> USE Sizes
<1>1. x \in Cts /\ train \in Clients
  BY DEF SlotInv, CleanCts
<1>2. b' \in CleanCts(1)
  BY <1>1, CleanMasked DEF Weights
<1>3. b'[0] = x[0]
  BY <1>1, SlotsType, Masked DEF Weights
<1>4. SlotsOfX \in [1..NTrain -> SlotIndex]
  BY DEF SlotsOfX, SlotIndex
<1>5. w' = WeightsOf(train, x, SlotsOfX)
  <2>1. \A i \in 1..NTrain : WeightTerm(train, x, SlotsOfX[i], i) = WeightTerm(train, x, i, i)
    BY DEF SlotsOfX
  <2>2. [i \in 1..NTrain |-> WeightTerm(train, x, SlotsOfX[i], i)]
          = [i \in 1..NTrain |-> WeightTerm(train, x, i, i)]
    BY <2>1
  <2>3. w' = EvalTotal([i \in 1..NTrain |-> WeightTerm(train, x, i, i)])
    BY DEF Weights
  <2> QED
    BY <2>2, <2>3 DEF WeightsOf
<1>6. WeightsOf(train, x, SlotsOfX) \in CleanCts(D)
  BY <1>1, <1>4, WeightsValue DEF CleanCts
<1> QED
  BY <1>2, <1>3, <1>5, <1>6

LEMMA SlotsAtEveryStep == SlotInv /\ [Next]_vars => SlotInv'
<1> SUFFICES ASSUME SlotInv, [Next]_vars PROVE SlotInv'
  OBVIOUS
<1>1. CASE Reflect
  <2>1. k < Size /\ (ReflectRow \/ ReflectCol)
    BY <1>1 DEF Reflect
  <2>2. R' \in [Index -> CleanCts(Size)] /\ Q' \in [Index -> CleanCts(Size)]
    BY <2>1, ReflectRowClean, ReflectColClean
  <2>3. /\ train' = train /\ packing' = packing /\ k' = k + 1 /\ pc' # "backsub"
        /\ c' = c /\ x' = x /\ b' = b /\ w' = w
    BY <1>1 DEF Reflect, dataVars, solveVars, modelVars
  <2> QED
    BY <2>2, <2>3 DEF SlotInv
<1>2. CASE MatmulTVec
  <2>1. c' \in CleanCts(Size)
    BY <1>2, MatmulClean
  <2>2. x' \in CleanCts(Size)
    BY <1>2, CleanZero, Sizes DEF MatmulTVec
  <2>3. /\ train' = train /\ packing' = packing /\ k' = k /\ R' = R /\ Q' = Q
        /\ b' = b /\ w' = w /\ row' = LastRow
    BY <1>2 DEF MatmulTVec, dataVars, qrVars, modelVars
  <2>4. row' \in Index
    BY <2>3, Sizes DEF LastRow, Index
  <2> QED
    BY <2>1, <2>2, <2>3, <2>4 DEF SlotInv
<1>3. CASE BackSubstituteRow
  <2>1. x' \in CleanCts(Size)
    BY <1>3, BackSubstituteClean
  <2>2. /\ train' = train /\ packing' = packing /\ k' = k /\ R' = R /\ Q' = Q
        /\ c' = c /\ b' = b /\ w' = w /\ row' = row - 1
        /\ pc' = IF row = 0 THEN "weights" ELSE "backsub"
    BY <1>3 DEF BackSubstituteRow, dataVars, qrVars, modelVars
  <2>3. row \in Index
    BY <1>3 DEF BackSubstituteRow, SlotInv
  <2>4. pc' = "backsub" => row' \in Index
    BY <2>2, <2>3, Sizes DEF Index
  <2> QED
    BY <2>1, <2>2, <2>4 DEF SlotInv
<1>4. CASE Weights
  <2>1. b' \in CleanCts(1) /\ w' \in CleanCts(D)
    BY <1>4, WeightsClean
  <2>2. /\ train' = train /\ packing' = packing /\ k' = k /\ R' = R /\ Q' = Q
        /\ c' = c /\ x' = x /\ pc' # "backsub"
    BY <1>4 DEF Weights, dataVars, qrVars, solveVars
  <2> QED
    BY <2>1, <2>2 DEF SlotInv
<1>5. CASE Predict
  <2>1. /\ train' = train /\ packing' = packing /\ k' = k /\ R' = R /\ Q' = Q
        /\ c' = c /\ x' = x /\ b' = b /\ w' = w /\ pc' # "backsub"
    BY <1>5 DEF Predict, ScoreBatch, qrVars, solveVars, modelVars
  <2> QED
    BY <2>1 DEF SlotInv
<1>6. CASE UNCHANGED vars
  <2>1. /\ train' = train /\ packing' = packing /\ k' = k /\ R' = R /\ Q' = Q
        /\ c' = c /\ x' = x /\ b' = b /\ w' = w /\ pc' = pc /\ row' = row
    BY <1>6 DEF vars, dataVars, qrVars, solveVars, modelVars
  <2> QED
    BY <2>1 DEF SlotInv
<1> QED
  BY <1>1, <1>2, <1>3, <1>4, <1>5, <1>6 DEF Next

(* In either packing, the matrices, the right-hand side, the solution, the  *)
(* bias and the weights are zero in every slot beyond their length, at      *)
(* every step: what the Chebyshev series leave in unused slots is masked    *)
(* before it can reach one.  The doubling trees rely on it.                 *)
THEOREM UnusedSlotsStayZero == Spec => []CleanSlots
<1>1. Init => SlotInv
  BY SlotsAtTheStart
<1>2. SlotInv /\ [Next]_vars => SlotInv'
  BY SlotsAtEveryStep
<1>3. SlotInv => CleanSlots
  <2> SUFFICES ASSUME SlotInv PROVE CleanSlots
    OBVIOUS
  <2>1. \A s \in SlotIndex \ Index : s \in SlotIndex /\ s >= Size
    BY Sizes, SlotsType DEF Index
  <2>2. \A s \in SlotIndex \ {0} : s \in SlotIndex /\ s >= 1
    BY SlotsType
  <2>3. /\ \A j \in Index : Clean(R[j], Size) /\ Clean(Q[j], Size)
        /\ Clean(c, Size) /\ Clean(x, Size) /\ Clean(b, 1) /\ Clean(w, D)
    BY DEF SlotInv, CleanCts
  <2> QED
    BY <2>1, <2>2, <2>3 DEF CleanSlots, Clean
<1> QED
  BY <1>1, <1>2, <1>3, PTL DEF Spec

-----------------------------------------------------------------------------
(* Every score of a QR solver is that of its own test point. *)

\* A decision value depends on the multipliers of the samples only.
LEMMA SameMultipliers ==
  ASSUME NEW t, NEW bias, NEW e, NEW f, NEW z, \A i \in 1..NTrain : e[i] = f[i]
  PROVE  Decision(t, bias, e, z) = Decision(t, bias, f, z)
<1>1. [i \in 1..NTrain |-> e[i] * t.y[i] * Dot(t.X[i], z)]
        = [i \in 1..NTrain |-> f[i] * t.y[i] * Dot(t.X[i], z)]
  OBVIOUS
<1> QED
  BY <1>1 DEF Decision

\* The multiplier of sample i is in slot m[i] of ct; every score is the
\* decision value of its test point.
InSlots(ct, m, e) == \A i \in 1..NTrain : ct[m[i]] = e[i]
Decided(done, t, bias, e) ==
  \A n \in DOMAIN done : done[n] = Decision(t, bias[0], e, Tests[n])

\* A batch scored with the weights of the multipliers is decided.
LEMMA BatchDecides ==
  ASSUME NEW t \in Clients, NEW ct \in Cts, NEW m \in [1..NTrain -> SlotIndex],
         NEW bias \in Cts, NEW e, InSlots(ct, m, e),
         NEW done, FirstTests(done), Decided(done, t, bias, e)
  PROVE  /\ FirstTests(WithNextBatch(done, bias, WeightsOf(t, ct, m)))
         /\ Decided(WithNextBatch(done, bias, WeightsOf(t, ct, m)), t, bias, e)
<1> DEFINE weights == WeightsOf(t, ct, m)
           after == WithNextBatch(done, bias, weights)
<1>1. weights \in Cts
  BY WeightsValue
<1>2. \A n \in DOMAIN Tests :
        Score(bias, weights, n)[0] = Decision(t, bias[0], [i \in 1..NTrain |-> ct[m[i]]], Tests[n])
  BY ScoreIsDecision
<1> HIDE DEF weights
<1>3. /\ FirstTests(after)
      /\ \A n \in DOMAIN after :
           /\ n \in DOMAIN Tests
           /\ after[n] = IF n \in DOMAIN done THEN done[n] ELSE Score(bias, weights, n)[0]
  BY <1>1, BatchValue
<1> HIDE DEF after
<1>4. ASSUME NEW n \in DOMAIN after PROVE after[n] = Decision(t, bias[0], e, Tests[n])
  <2>1. CASE n \in DOMAIN done
    BY <1>3, <2>1 DEF Decided
  <2>2. CASE n \notin DOMAIN done
    <3> DEFINE mult == [i \in 1..NTrain |-> ct[m[i]]]
    <3>1. after[n] = Decision(t, bias[0], mult, Tests[n])
      BY <1>2, <1>3, <2>2
    <3>2. \A i \in 1..NTrain : mult[i] = e[i]
      BY DEF InSlots
    <3> HIDE DEF mult
    <3> QED
      BY <3>1, <3>2, SameMultipliers
  <2> QED
    BY <2>1, <2>2
<1> QED
  BY <1>3, <1>4 DEF Decided, after, weights

LEMMA NothingScored == FirstTests(NoScores) /\ DOMAIN NoScores = {}
<1>1. DOMAIN NoScores = {}
  BY DEF NoScores
<1>2. 0 \in 0..NTest /\ 0..(0 - 1) = {}
  BY Sizes
<1> QED
  BY <1>1, <1>2 DEF FirstTests

\* There are scores only once the weights are those of the solution.
ScoreInv ==
  /\ FirstTests(scores)
  /\ \/ pc \notin {"score", "done"} /\ DOMAIN scores = {}
     \/ pc \in {"score", "done"} /\ b[0] = x[0] /\ w = WeightsOf(train, x, SlotsOfX)
  /\ ScoresInPlace

LEMMA ScoresAtTheStart == Init => ScoreInv
<1> SUFFICES ASSUME Init PROVE ScoreInv
  OBVIOUS
<1>1. pc = "qr" /\ FirstTests(scores) /\ DOMAIN scores = {}
  BY NothingScored DEF Init, EmptyModel
<1> QED
  BY <1>1 DEF ScoreInv, ScoresInPlace

\* Before the weights there are no scores, and a step leaves it so.
LEMMA NoScoresYet ==
  ASSUME ScoreInv, pc \notin {"score", "done"}, scores' = scores,
         pc' \notin {"score", "done"}
  PROVE  ScoreInv'
<1>1. DOMAIN scores' = {} /\ FirstTests(scores')
  BY DEF ScoreInv
<1> QED
  BY <1>1 DEF ScoreInv, ScoresInPlace, FirstTests

LEMMA ScoresAtEveryStep == SlotInv /\ ScoreInv /\ [Next]_vars => ScoreInv'
<1> SUFFICES ASSUME SlotInv, ScoreInv, [Next]_vars PROVE ScoreInv'
  OBVIOUS
<1>1. CASE Reflect
  <2>1. pc = "qr" /\ scores' = scores /\ pc' \in {"matmul", "qr"}
    BY <1>1 DEF Reflect
  <2> QED
    BY <2>1, NoScoresYet
<1>2. CASE MatmulTVec
  <2>1. pc = "matmul" /\ scores' = scores /\ pc' = "backsub"
    BY <1>2 DEF MatmulTVec
  <2> QED
    BY <2>1, NoScoresYet
<1>3. CASE BackSubstituteRow
  <2>1. pc = "backsub" /\ scores' = scores /\ pc' \in {"weights", "backsub"}
    BY <1>3 DEF BackSubstituteRow
  <2> QED
    BY <2>1, NoScoresYet
<1>4. CASE Weights
  <2>1. pc = "weights" /\ scores' = scores /\ pc' = "score" /\ x' = x /\ train' = train
    BY <1>4 DEF Weights, dataVars, solveVars
  <2>2. b'[0] = x[0] /\ w' = WeightsOf(train, x, SlotsOfX)
    BY <1>4, WeightsClean
  <2>3. DOMAIN scores' = {} /\ FirstTests(scores')
    BY <2>1 DEF ScoreInv
  <2>4. ScoresInPlace'
    BY <2>3 DEF ScoresInPlace
  <2>5. b'[0] = x'[0] /\ w' = WeightsOf(train', x', SlotsOfX)
    BY <2>1, <2>2
  <2> QED
    BY <2>1, <2>3, <2>4, <2>5 DEF ScoreInv, FirstTests
<1>5. CASE Predict
  <2>1. /\ pc = "score" /\ scores' = WithNextBatch(scores, b, w)
        /\ pc' \in {"score", "done"} /\ x' = x /\ b' = b /\ w' = w /\ train' = train
    BY <1>5 DEF Predict, ScoreBatch, solveVars, modelVars
  <2>2. /\ train \in Clients /\ x \in Cts /\ b \in Cts
        /\ b[0] = x[0] /\ w = WeightsOf(train, x, SlotsOfX)
    BY <2>1 DEF SlotInv, ScoreInv, CleanCts
  <2>3. SlotsOfX \in [1..NTrain -> SlotIndex] /\ InSlots(x, SlotsOfX, x)
    BY Sizes DEF SlotsOfX, SlotIndex, InSlots
  <2>4. FirstTests(scores) /\ Decided(scores, train, b, x)
    BY <2>2 DEF ScoreInv, ScoresInPlace, Decided
  <2>5. FirstTests(scores') /\ Decided(scores', train, b, x)
    BY <2>1, <2>2, <2>3, <2>4, BatchDecides
  <2>6. ScoresInPlace'
    BY <2>1, <2>2, <2>5 DEF ScoresInPlace, Decided
  <2> QED
    BY <2>1, <2>2, <2>5, <2>6 DEF ScoreInv, FirstTests
<1>6. CASE UNCHANGED vars
  <2>1. scores' = scores /\ pc' = pc /\ b' = b /\ x' = x /\ w' = w /\ train' = train
    BY <1>6 DEF vars, dataVars, solveVars, modelVars
  <2> QED
    BY <2>1 DEF ScoreInv, ScoresInPlace, FirstTests
<1> QED
  BY <1>1, <1>2, <1>3, <1>4, <1>5, <1>6 DEF Next

(* Whatever the number of test points, slots and features: every score that *)
(* score_test_batched has decrypted is the decision value of its own test   *)
(* point for the bias and the multipliers in x; replication, doubling       *)
(* trees, masks and the placement within a batch lose or mix none.          *)
THEOREM ScoresAreDecisionValues == Spec => []ScoresInPlace
<1>1. Init => SlotInv /\ ScoreInv
  BY SlotsAtTheStart, ScoresAtTheStart
<1>2. SlotInv /\ ScoreInv /\ [Next]_vars => SlotInv' /\ ScoreInv'
  BY SlotsAtEveryStep, ScoresAtEveryStep
<1>3. ScoreInv => ScoresInPlace
  BY DEF ScoreInv
<1> QED
  BY <1>1, <1>2, <1>3, PTL DEF Spec

-----------------------------------------------------------------------------
(* Every score of the CG solver is that of its own test point. *)

LEMMA Unknowns == /\ IsFiniteSet(Unknown) /\ Unknown = 0..(NTrain - 1)
                  /\ \A i \in Unknown : i \in Nat /\ i + 1 \in Index /\ i \in SlotIndex
<1>1. IsFiniteSet(Unknown)
  BY Sizes, FS_Interval DEF Unknown
<1> QED
  BY <1>1, Sizes DEF Unknown, Index, SlotIndex

\* The circuits of an iteration return ciphertexts.
LEMMA CgArithmetic ==
  ASSUME NEW ct \in Cts, NEW other \in Cts, NEW dir \in Cts
  PROVE  /\ Broadcast(ct) \in Cts /\ InnerProduct(ct, other) \in Cts
         /\ AddMultiple(ct, other, dir) \in Cts /\ SubtractMultiple(ct, other, dir) \in Cts
<1> USE Sizes
<1>0. NTrain \in Int
  OBVIOUS
<1>1. Broadcast(ct) \in Cts /\ Broadcast(other) \in Cts
  BY <1>0, TreesType DEF Broadcast
<1>2. InnerProduct(ct, other) \in Cts
  <2>1. EvalMult(ct, other) \in Cts
    BY SlotArithmetic
  <2> QED
    BY <1>0, <2>1, TreesType DEF InnerProduct
<1>3. EvalMult(Broadcast(other), dir) \in Cts
  BY <1>1, SlotArithmetic
<1>4. AddMultiple(ct, other, dir) \in Cts /\ SubtractMultiple(ct, other, dir) \in Cts
  BY <1>3, SlotArithmetic DEF AddMultiple, SubtractMultiple
<1> QED
  BY <1>1, <1>2, <1>4

\* So does a series, on an interval that is not zero.
LEMMA SeriesType ==
  ASSUME NEW ct \in Cts, NEW other \in Cts, NEW val, val # 0
  PROVE  HeInvNear(other, val) \in Cts /\ ScalarDiv(ct, other, val) \in Cts
<1>1. HeInvNear(other, val) \in Cts
  <2>1. ASSUME NEW s \in SlotIndex, other[s] = val PROVE Reciprocal[val] \in Field
    <3>1. val \in Field \ {0}
      BY <2>1 DEF Cts
    <3> QED
      BY <3>1, ReciprocalType
  <2>2. Junk \in Field
    BY JunkAssumption, PType DEF Field
  <2> QED
    BY <2>1, <2>2 DEF HeInvNear, Cts
<1>2. ScalarDiv(ct, other, val) \in Cts
  <2>1. EvalMult(HeInvNear(other, val), Unit(0)) \in Cts
    BY <1>1, ConstantCts, SlotArithmetic
  <2> QED
    BY <2>1, SlotArithmetic DEF ScalarDiv
<1> QED
  BY <1>1, <1>2

LEMMA PackedUnknowns ==
  ASSUME NEW val \in [Unknown -> Int]
  PROVE  Packed(NTrain, val) \in Cts
<1>1. \A s \in 0..(NTrain - 1) : val[s] \in Int
  BY Unknowns
<1> QED
  BY <1>1, Sizes, PackedType

LEMMA MatvecType ==
  ASSUME NEW a \in [Unknown -> [Unknown -> Int]], NEW ct \in Cts
  PROVE  MatvecRow(a, ct) \in Cts
<1> DEFINE family == [i \in Unknown |->
                        EvalRotate(InnerSum(EvalMult(Packed(NTrain, a[i]), ct), NTrain), -i)]
<1>1. ASSUME NEW i \in Unknown
      PROVE  EvalRotate(InnerSum(EvalMult(Packed(NTrain, a[i]), ct), NTrain), -i) \in Cts
  <2>1. Packed(NTrain, a[i]) \in Cts
    BY PackedUnknowns
  <2>2. EvalMult(Packed(NTrain, a[i]), ct) \in Cts
    BY <2>1, SlotArithmetic
  <2>3. InnerSum(EvalMult(Packed(NTrain, a[i]), ct), NTrain) \in Cts
    BY <2>2, Sizes, TreesType
  <2>4. -i \in Int
    BY Unknowns
  <2> QED
    BY <2>3, <2>4, RotateType
<1>2. family \in [Unknown -> Cts]
  BY <1>1
<1> HIDE DEF family
<1>3. EvalTotal(family) \in Cts
  BY <1>2, Unknowns, EvalTotalType
<1> QED
  BY <1>3 DEF MatvecRow, family

\* With preconditioning on, the diagonal of the client's system has roots.
Preconditioned == precond => \A i \in Unknown : KAug(train)[i][i] \in Squares

LEMMA ScalingType ==
  ASSUME train \in Clients, Preconditioned
  PROVE  Scaling(train) \in [Unknown -> Field]
<1>1. ASSUME NEW i \in Unknown
      PROVE  (IF precond /\ KAug(train)[i][i] # 0
              THEN Reciprocal[Root[KAug(train)[i][i]]] ELSE 1) \in Field
  <2>1. CASE precond /\ KAug(train)[i][i] # 0
    <3> DEFINE d == KAug(train)[i][i]
    <3>1. d \in Squares /\ d # 0
      BY <2>1 DEF Preconditioned
    <3> HIDE DEF d
    <3>2. Root[d] \in Field /\ Reduce(Root[d] * Root[d]) = d
      BY <3>1, RootType
    <3>3. Root[d] # 0
      <4>1. SUFFICES ASSUME Root[d] = 0 PROVE FALSE
        OBVIOUS
      <4>2. Reduce(0 * 0) = 0
        BY ReduceField, PType
      <4> QED
        BY <3>1, <3>2, <4>1, <4>2
    <3>4. Reciprocal[Root[d]] \in Field
      BY <3>2, <3>3, ReciprocalType
    <3> QED
      BY <2>1, <3>4 DEF d
  <2>2. CASE ~(precond /\ KAug(train)[i][i] # 0)
    BY <2>2, PType
  <2> QED
    BY <2>1, <2>2
<1> QED
  BY <1>1 DEF Scaling

LEMMA CgSystemTypes ==
  ASSUME train \in Clients, Preconditioned, NEW which
  PROVE  /\ CgMatrix(train) \in [Unknown -> [Unknown -> Field]]
         /\ CgRhs(train, which) \in [Unknown -> Field]
<1>1. Scaling(train) \in [Unknown -> Field]
  BY ScalingType
<1>2. /\ SystemMatrix(train) \in [Index -> [Index -> Field]]
      /\ RightHandSide(train) \in [Index -> Field]
  BY SystemTypes
<1>3. KAug(train) \in [Unknown -> [Unknown -> Field]]
  BY <1>2, Unknowns DEF KAug
<1>4. RhsOf(train, which) \in [Unknown -> Field]
  BY <1>2, Unknowns, PType DEF RhsOf
<1>5. Field \subseteq Int
  BY PType
<1>6. ASSUME NEW i \in Unknown, NEW j \in Unknown
      PROVE  Reduce(KAug(train)[i][j] * Scaling(train)[i] * Scaling(train)[j]) \in Field
  <2>1. /\ KAug(train)[i][j] \in Int /\ Scaling(train)[i] \in Int /\ Scaling(train)[j] \in Int
    BY <1>1, <1>3, <1>5
  <2>2. KAug(train)[i][j] * Scaling(train)[i] * Scaling(train)[j] \in Int
    BY <2>1
  <2> QED
    BY <2>2, ReduceType
<1>7. ASSUME NEW i \in Unknown
      PROVE  Reduce(RhsOf(train, which)[i] * Scaling(train)[i]) \in Field
  <2>1. RhsOf(train, which)[i] \in Int /\ Scaling(train)[i] \in Int
    BY <1>1, <1>4, <1>5
  <2>2. RhsOf(train, which)[i] * Scaling(train)[i] \in Int
    BY <2>1
  <2> QED
    BY <2>2, ReduceType
<1> QED
  BY <1>6, <1>7 DEF CgMatrix, CgRhs

LEMMA StartTypes ==
  ASSUME NEW start \in [Unknown -> Field]
  PROVE  Packed(NTrain, start) \in Cts /\ SquaredNorm(start) \in Cts
<1>1. start \in [Unknown -> Int]
  BY FieldInt
<1>2. Packed(NTrain, start) \in Cts
  BY <1>1, PackedUnknowns
<1> QED
  BY <1>2, CgArithmetic DEF SquaredNorm

\* What the CG solver keeps in its ciphertexts, and that there are scores only
\* once the weights are those of the multipliers.
SlotsOfAlpha == [i \in 1..NTrain |-> SlotOf(i)]
AlphaOfSample == [i \in 1..NTrain |-> alpha[i - 1]]

CgTypes ==
  /\ train \in Clients /\ Preconditioned
  /\ rows \in [Unknown -> [Unknown -> Field]]
  /\ x_ct \in Cts /\ r_ct \in Cts /\ p_ct \in Cts /\ rr \in Cts
  /\ u \in Cts /\ v \in Cts /\ b \in Cts /\ alpha \in Cts

CgScoreInv ==
  /\ FirstTests(scores)
  /\ \/ pc \notin {"score", "done"} /\ DOMAIN scores = {}
     \/ pc \in {"score", "done"} /\ w = WeightsOf(train, alpha, SlotsOfAlpha)
  /\ CgScoresInPlace

LEMMA CgTypesAtTheStart == CgInit => CgTypes
<1> SUFFICES ASSUME CgInit PROVE CgTypes
  OBVIOUS
<1>1. /\ train \in Clients /\ Preconditioned
      /\ u = ZeroCt /\ v = ZeroCt /\ b = ZeroCt /\ alpha = ZeroCt /\ x_ct = ZeroCt
  BY DEF CgInit, EmptyModel, Start, Preconditioned
<1>2. /\ rows = CgMatrix(train) /\ rr = SquaredNorm(CgRhs(train, "u"))
      /\ r_ct = Packed(NTrain, CgRhs(train, "u")) /\ p_ct = Packed(NTrain, CgRhs(train, "u"))
  BY DEF CgInit, Start
<1>3. rows \in [Unknown -> [Unknown -> Field]] /\ CgRhs(train, "u") \in [Unknown -> Field]
  BY <1>1, <1>2, CgSystemTypes
<1>4. r_ct \in Cts /\ p_ct \in Cts /\ rr \in Cts
  BY <1>2, <1>3, StartTypes
<1> QED
  BY <1>1, <1>3, <1>4, ConstantCts DEF CgTypes

LEMMA IterateTypes ==
  ASSUME CgTypes, Iterate
  PROVE  x_ct' \in Cts /\ r_ct' \in Cts /\ p_ct' \in Cts /\ rr' \in Cts
<1>1. /\ x_ct \in Cts /\ r_ct \in Cts /\ p_ct \in Cts /\ rr \in Cts
      /\ rows \in [Unknown -> [Unknown -> Int]]
  BY FieldInt DEF CgTypes
<1> DEFINE Ap == MatvecRow(rows, p_ct)
           step == ScalarDiv(rr, InnerProduct(p_ct, Ap), PApValue)
<1>2. /\ x_ct' = AddMultiple(x_ct, step, p_ct)
      /\ r_ct' = SubtractMultiple(r_ct, step, Ap)
      /\ rr' = InnerProduct(r_ct', r_ct')
      /\ \/ RrValue # 0 /\ p_ct' = AddMultiple(r_ct', ScalarDiv(rr', rr, RrValue), p_ct)
         \/ p_ct' = p_ct
  BY DEF Iterate, Divisible
<1>2a. PApValue # 0
  BY DEF Iterate, Divisible
<1>3. Ap \in Cts
  BY <1>1, MatvecType
<1> HIDE DEF Ap
<1>4. InnerProduct(p_ct, Ap) \in Cts
  BY <1>1, <1>3, CgArithmetic
<1>5. step \in Cts
  BY <1>1, <1>2a, <1>4, SeriesType
<1> HIDE DEF step
<1>6. x_ct' \in Cts /\ r_ct' \in Cts
  BY <1>1, <1>2, <1>3, <1>5, CgArithmetic
<1>7. rr' \in Cts
  BY <1>2, <1>6, CgArithmetic
<1> DEFINE beta == ScalarDiv(rr', rr, RrValue)
<1>8. RrValue # 0 => beta \in Cts
  BY <1>1, <1>7, SeriesType
<1>8a. (RrValue # 0 /\ p_ct' = AddMultiple(r_ct', beta, p_ct)) \/ p_ct' = p_ct
  BY <1>2
<1> HIDE DEF beta
<1>8b. RrValue # 0 => AddMultiple(r_ct', beta, p_ct) \in Cts
  BY <1>1, <1>6, <1>8, CgArithmetic
<1>9. p_ct' \in Cts
  BY <1>1, <1>8a, <1>8b
<1> QED
  BY <1>6, <1>7, <1>9

LEMMA RescaledType == ASSUME CgTypes PROVE Rescaled \in Cts
<1>1. Scaling(train) \in [Unknown -> Int] /\ x_ct \in Cts
  BY ScalingType, FieldInt DEF CgTypes
<1>2. Packed(NTrain, Scaling(train)) \in Cts
  BY <1>1, PackedUnknowns
<1> QED
  BY <1>1, <1>2, SlotArithmetic DEF Rescaled

LEMMA SchurTypes ==
  ASSUME CgTypes, Schur
  PROVE  b' \in Cts /\ alpha' \in Cts
<1>1. u \in Cts /\ v \in Cts /\ NTrain \in Int
  BY Sizes DEF CgTypes
<1>2. InnerSum(u, NTrain) \in Cts /\ InnerSum(v, NTrain) \in Cts
  BY <1>1, TreesType
<1>3. /\ b' = ScalarDiv(InnerSum(u, NTrain), InnerSum(v, NTrain), SumOfV(train))
      /\ SumOfV(train) # 0
  BY DEF Schur, ScalarDiv, Determined
<1>4. b' \in Cts
  BY <1>2, <1>3, SeriesType
<1>5. alpha' = SubtractMultiple(u, b', v)
  BY DEF Schur, Multipliers, SubtractMultiple
<1> QED
  BY <1>1, <1>4, <1>5, CgArithmetic

LEMMA CgTypesAtEveryStep == CgTypes /\ [CgNext]_cgVars => CgTypes'
<1> SUFFICES ASSUME CgTypes, [CgNext]_cgVars PROVE CgTypes'
  OBVIOUS
<1>1. CASE Iterate
  <2>1. x_ct' \in Cts /\ r_ct' \in Cts /\ p_ct' \in Cts /\ rr' \in Cts
    BY <1>1, IterateTypes
  <2>2. /\ train' = train /\ precond' = precond /\ rows' = rows /\ u' = u /\ v' = v
        /\ b' = b /\ alpha' = alpha
    BY <1>1 DEF Iterate, cgDataVars, solutionVars, modelVars
  <2> QED
    BY <2>1, <2>2 DEF CgTypes, Preconditioned, KAug
<1>2. CASE FirstSolved
  <2>1. /\ train' = train /\ precond' = precond /\ rows' = rows /\ u' = Rescaled /\ v' = v
        /\ b' = b /\ alpha' = alpha /\ x_ct' = ZeroCt
    BY <1>2 DEF FirstSolved, cgDataVars, modelVars
  <2>2. /\ rr' = SquaredNorm(CgRhs(train, "v"))
        /\ r_ct' = Packed(NTrain, CgRhs(train, "v")) /\ p_ct' = Packed(NTrain, CgRhs(train, "v"))
    BY <1>2 DEF FirstSolved
  <2>3. CgRhs(train, "v") \in [Unknown -> Field]
    BY CgSystemTypes DEF CgTypes
  <2>4. r_ct' \in Cts /\ p_ct' \in Cts /\ rr' \in Cts
    BY <2>2, <2>3, StartTypes
  <2>5. u' \in Cts /\ x_ct' \in Cts
    BY <2>1, RescaledType, ConstantCts
  <2> QED
    BY <2>1, <2>4, <2>5 DEF CgTypes, Preconditioned, KAug
<1>3. CASE SecondSolved
  <2>1. /\ train' = train /\ precond' = precond /\ rows' = rows /\ u' = u /\ v' = Rescaled
        /\ x_ct' = x_ct /\ r_ct' = r_ct /\ p_ct' = p_ct /\ rr' = rr /\ b' = b /\ alpha' = alpha
    BY <1>3 DEF SecondSolved, cgDataVars, loopVars, systemVars, modelVars
  <2> QED
    BY <2>1, RescaledType DEF CgTypes, Preconditioned, KAug
<1>4. CASE Schur
  <2>1. b' \in Cts /\ alpha' \in Cts
    BY <1>4, SchurTypes
  <2>2. /\ train' = train /\ precond' = precond /\ rows' = rows /\ u' = u /\ v' = v
        /\ x_ct' = x_ct /\ r_ct' = r_ct /\ p_ct' = p_ct /\ rr' = rr
    BY <1>4 DEF Schur, cgDataVars, loopVars, systemVars, solutionVars
  <2> QED
    BY <2>1, <2>2 DEF CgTypes, Preconditioned, KAug
<1>5. CASE InverseRaises \/ WeightsFromAlpha \/ CgPredict \/ UNCHANGED cgVars
  <2>1. /\ train' = train /\ precond' = precond /\ rows' = rows /\ u' = u /\ v' = v
        /\ x_ct' = x_ct /\ r_ct' = r_ct /\ p_ct' = p_ct /\ rr' = rr /\ b' = b /\ alpha' = alpha
    BY <1>5 DEF InverseRaises, WeightsFromAlpha, CgPredict, ScoreBatch, cgVars, cgDataVars, loopVars,
                systemVars, solutionVars, modelVars
  <2> QED
    BY <2>1 DEF CgTypes, Preconditioned, KAug
<1> QED
  BY <1>1, <1>2, <1>3, <1>4, <1>5 DEF CgNext

LEMMA CgScoresAtTheStart == CgInit => CgScoreInv
<1> SUFFICES ASSUME CgInit PROVE CgScoreInv
  OBVIOUS
<1>1. pc = "u" /\ FirstTests(scores) /\ DOMAIN scores = {}
  BY NothingScored DEF CgInit, EmptyModel
<1> QED
  BY <1>1 DEF CgScoreInv, CgScoresInPlace

LEMMA CgScoresAtEveryStep == CgTypes /\ CgScoreInv /\ [CgNext]_cgVars => CgScoreInv'
<1> SUFFICES ASSUME CgTypes, CgScoreInv, [CgNext]_cgVars PROVE CgScoreInv'
  OBVIOUS
<1>1. CASE Iterate \/ InverseRaises \/ FirstSolved \/ SecondSolved \/ Schur
  <2>1. /\ pc \in {"u", "v", "schur"} /\ scores' = scores
        /\ pc' \in {"u", "v", "raised", "schur", "weights"}
    BY <1>1 DEF Iterate, InverseRaises, FirstSolved, SecondSolved, Schur
  <2>2. DOMAIN scores' = {} /\ FirstTests(scores')
    BY <2>1 DEF CgScoreInv
  <2> QED
    BY <2>1, <2>2 DEF CgScoreInv, CgScoresInPlace, FirstTests
<1>2. CASE WeightsFromAlpha
  <2>1. /\ pc = "weights" /\ scores' = scores /\ pc' = "score"
        /\ alpha' = alpha /\ train' = train
        /\ w' = EvalTotal([i \in 1..NTrain |-> WeightTerm(train, alpha, SlotOf(i), i)])
    BY <1>2 DEF WeightsFromAlpha, cgDataVars
  <2>2. DOMAIN scores' = {} /\ FirstTests(scores')
    BY <2>1 DEF CgScoreInv
  <2>3. w' = WeightsOf(train, alpha, SlotsOfAlpha)
    <3>1. \A i \in 1..NTrain : WeightTerm(train, alpha, SlotsOfAlpha[i], i)
                                 = WeightTerm(train, alpha, SlotOf(i), i)
      BY DEF SlotsOfAlpha
    <3>2. [i \in 1..NTrain |-> WeightTerm(train, alpha, SlotsOfAlpha[i], i)]
            = [i \in 1..NTrain |-> WeightTerm(train, alpha, SlotOf(i), i)]
      BY <3>1
    <3> QED
      BY <2>1, <3>2 DEF WeightsOf
  <2>4. CgScoresInPlace'
    BY <2>2 DEF CgScoresInPlace
  <2>5. w' = WeightsOf(train', alpha', SlotsOfAlpha)
    BY <2>1, <2>3
  <2> QED
    BY <2>1, <2>2, <2>4, <2>5 DEF CgScoreInv, FirstTests
<1>3. CASE CgPredict
  <2>1. /\ pc = "score" /\ scores' = WithNextBatch(scores, b, w)
        /\ pc' \in {"score", "done"} /\ alpha' = alpha /\ b' = b /\ w' = w /\ train' = train
    BY <1>3 DEF CgPredict, ScoreBatch, modelVars
  <2>2. /\ train \in Clients /\ alpha \in Cts /\ b \in Cts
        /\ w = WeightsOf(train, alpha, SlotsOfAlpha)
    BY <2>1 DEF CgTypes, CgScoreInv
  <2>3. SlotsOfAlpha \in [1..NTrain -> SlotIndex] /\ InSlots(alpha, SlotsOfAlpha, AlphaOfSample)
    BY Sizes DEF SlotsOfAlpha, SlotOf, SlotIndex, InSlots, AlphaOfSample
  <2>4. FirstTests(scores) /\ Decided(scores, train, b, AlphaOfSample)
    BY DEF CgScoreInv, CgScoresInPlace, Decided, AlphaOfSample
  <2>5. FirstTests(scores') /\ Decided(scores', train, b, AlphaOfSample)
    BY <2>1, <2>2, <2>3, <2>4, BatchDecides
  <2>6. CgScoresInPlace'
    BY <2>1, <2>5 DEF CgScoresInPlace, Decided, AlphaOfSample
  <2> QED
    BY <2>1, <2>2, <2>5, <2>6 DEF CgScoreInv, FirstTests
<1>4. CASE UNCHANGED cgVars
  <2>1. /\ scores' = scores /\ pc' = pc /\ b' = b /\ alpha' = alpha /\ w' = w
        /\ train' = train
    BY <1>4 DEF cgVars, cgDataVars
  <2> QED
    BY <2>1 DEF CgScoreInv, CgScoresInPlace, FirstTests
<1> QED
  BY <1>1, <1>2, <1>3, <1>4 DEF CgNext

(* Whatever the number of test points, slots, features and iterations:      *)
(* every score of the CG solver is the decision value of its own test point *)
(* for the bias and the multipliers found, which stand one slot further     *)
(* left than those of the other solvers, there being no bias before them.   *)
THEOREM CgScoresAreDecisionValues == CgSpec => []CgScoresInPlace
<1>1. CgInit => CgTypes /\ CgScoreInv
  BY CgTypesAtTheStart, CgScoresAtTheStart
<1>2. CgTypes /\ CgScoreInv /\ [CgNext]_cgVars => CgTypes' /\ CgScoreInv'
  BY CgTypesAtEveryStep, CgScoresAtEveryStep
<1>3. CgScoreInv => CgScoresInPlace
  BY DEF CgScoreInv
<1> QED
  BY <1>1, <1>2, <1>3, PTL DEF CgSpec

-----------------------------------------------------------------------------
(* The encrypted iteration of CG and its simulation in the clear. *)

\* A number in slot 0 and nothing elsewhere.
Scalar(z) == EvalScale(Unit(0), z)

LEMMA ScalarSlots ==
  ASSUME NEW z \in Field
  PROVE  /\ Scalar(z) \in Cts /\ Clean(Scalar(z), 1)
         /\ \A s \in SlotIndex : Scalar(z)[s] = IF s = 0 THEN z ELSE 0
<1>1. z \in Int /\ Reduce(1 * z) = z /\ Reduce(0 * z) = 0
  <2>1. z \in Int /\ 1 * z = z /\ 0 * z = 0
    BY FieldType
  <2> QED
    BY <2>1, ReduceField, PType
<1>2. Scalar(z) \in Cts
  BY <1>1, ConstantCts, SlotArithmetic DEF Scalar
<1>3. \A s \in SlotIndex : Scalar(z)[s] = IF s = 0 THEN z ELSE 0
  BY <1>1 DEF Scalar, EvalScale, Unit
<1> QED
  BY <1>2, <1>3, SlotsType DEF Clean

LEMMA SameCts ==
  ASSUME NEW ct \in Cts, NEW other \in Cts, \A s \in SlotIndex : ct[s] = other[s]
  PROVE  ct = other
BY DEF Cts

\* A vector of the system in a ciphertext.
LEMMA PackedSlots ==
  ASSUME NEW val \in Vector
  PROVE  /\ Packed(NTrain, val) \in Cts /\ Clean(Packed(NTrain, val), NTrain)
         /\ \A s \in SlotIndex : Packed(NTrain, val)[s] = IF s < NTrain THEN val[s] ELSE 0
         /\ \A i \in Unknown : i \in SlotIndex /\ Packed(NTrain, val)[i] = val[i]
<1>1. val \in [Unknown -> Int]
  BY FieldInt DEF Vector
<1>1a. NTrain \in Int
  BY Sizes
<1>2. Packed(NTrain, val) \in Cts
  BY <1>1, PackedUnknowns
<1>3. ASSUME NEW s \in SlotIndex, s < NTrain PROVE Reduce(val[s]) = val[s]
  <2>1. s \in Unknown
    BY <1>3, SlotsType, Sizes DEF Unknown
  <2> QED
    BY <2>1, ReduceField DEF Vector
<1>4. \A s \in SlotIndex : Packed(NTrain, val)[s] = IF s < NTrain THEN val[s] ELSE 0
  BY <1>3 DEF Packed
<1>5. \A i \in Unknown : i \in SlotIndex /\ i < NTrain
  BY Unknowns, Sizes DEF Unknown
<1>6. Clean(Packed(NTrain, val), NTrain)
  BY <1>1a, CleanPacked
<1> QED
  BY <1>2, <1>4, <1>5, <1>6

\* Products of vectors.
LEMMA Products ==
  ASSUME NEW s \in Vector, NEW t \in Vector
  PROVE  /\ [i \in Unknown |-> s[i] * t[i]] \in [Unknown -> Int]
         /\ Inner(s, t) \in Field /\ Inner(s, t) = Inner(t, s)
<1>1. \A i \in Unknown : s[i] \in Int /\ t[i] \in Int
  BY FieldInt DEF Vector
<1>2. \A i \in Unknown : s[i] * t[i] \in Int /\ s[i] * t[i] = t[i] * s[i]
  BY <1>1
<1> DEFINE f == [i \in Unknown |-> s[i] * t[i]]
           g == [i \in Unknown |-> t[i] * s[i]]
<1>3. f \in [Unknown -> Int]
  BY <1>2
<1>4. f = g
  BY <1>2
<1> HIDE DEF f
<1>5. Total(f) \in Field
  BY <1>3, Unknowns, TotalType
<1> QED
  BY <1>3, <1>4, <1>5 DEF f, Inner

LEMMA InnerProductValue ==
  ASSUME NEW s \in Vector, NEW t \in Vector
  PROVE  InnerProduct(Packed(NTrain, s), Packed(NTrain, t)) = Scalar(Inner(s, t))
<1> USE Sizes
<1> DEFINE ps == Packed(NTrain, s)
           pt == Packed(NTrain, t)
           prod == EvalMult(ps, pt)
           f == [i \in Unknown |-> s[i] * t[i]]
           h == [i \in Unknown |-> prod[i]]
<1>1. /\ ps \in Cts /\ pt \in Cts /\ Clean(ps, NTrain)
      /\ \A i \in Unknown : i \in SlotIndex /\ ps[i] = s[i] /\ pt[i] = t[i]
  BY PackedSlots
<1> HIDE DEF ps, pt
<1>2. prod \in Cts /\ Clean(prod, NTrain)
  BY <1>1, SlotArithmetic, CleanArithmetic
<1>3. \A i \in Unknown : prod[i] = Reduce(s[i] * t[i])
  BY <1>1 DEF EvalMult
<1> HIDE DEF prod
<1>4. f \in [Unknown -> Int] /\ Inner(s, t) \in Field
  BY Products
<1>5. h \in [Unknown -> Int]
  BY <1>2, Unknowns, FieldInt DEF Cts
<1>6. \A i \in Unknown : Reduce(h[i]) = Reduce(f[i])
  <2>1. ASSUME NEW i \in Unknown PROVE Reduce(h[i]) = Reduce(f[i])
    <3>1. f[i] \in Int /\ f[i] = s[i] * t[i] /\ h[i] = Reduce(s[i] * t[i])
      BY <1>3, <1>4
    <3>2. Reduce(f[i]) \in Field
      BY <3>1, ReduceType
    <3> QED
      BY <3>1, <3>2, ReduceField
  <2> QED
    BY <2>1
<1> DEFINE sum == SumSlots(prod, NTrain)
<1>7. sum[0] = Total([i \in 0..(NTrain - 1) |-> prod[i]])
  BY <1>2, ShapeAssumption, SumSlotsValue
<1>8. sum[0] = Total(h)
  BY <1>7, Unknowns
<1> HIDE DEF h, f
<1>8a. IsFiniteSet(Unknown) /\ f \in [Unknown -> Int]
  BY <1>4, Unknowns DEF f
<1>8b. Total(h) = Total(f)
  BY ONLY <1>5, <1>6, <1>8a, SumCongruent
<1>9. sum[0] = Inner(s, t)
  BY <1>8, <1>8b DEF f, Inner
<1>10. sum \in Cts
  BY <1>2, TreesType
<1> HIDE DEF sum
<1>11. /\ EvalMult(sum, Unit(0)) \in Cts
       /\ \A j \in SlotIndex : EvalMult(sum, Unit(0))[j] = IF j = 0 THEN sum[0] ELSE 0
  BY <1>10, SlotsType, Masked
<1>12. EvalMult(sum, Unit(0)) = Scalar(Inner(s, t))
  BY <1>4, <1>9, <1>11, ScalarSlots, SameCts
<1> QED
  BY <1>12 DEF InnerProduct, InnerSum, sum, prod, ps, pt

LEMMA TimesType ==
  ASSUME NEW a \in [Unknown -> Vector], NEW s \in Vector
  PROVE  Times(a, s) \in Vector /\ \A i \in Unknown : Times(a, s)[i] = Inner(a[i], s)
<1>1. \A i \in Unknown : Total([j \in Unknown |-> a[i][j] * s[j]]) = Inner(a[i], s)
  BY DEF Inner
<1>2. \A i \in Unknown : Inner(a[i], s) \in Field
  BY Products
<1> QED
  BY <1>1, <1>2 DEF Times, Vector

\* Each row's product ends up in the slot of its row.
LEMMA MatvecValue ==
  ASSUME NEW a \in [Unknown -> Vector], NEW s \in Vector
  PROVE  MatvecRow(a, Packed(NTrain, s)) = Packed(NTrain, Times(a, s))
<1> DEFINE ps == Packed(NTrain, s)
           family == [i \in Unknown |->
                        EvalRotate(InnerSum(EvalMult(Packed(NTrain, a[i]), ps), NTrain), -i)]
           z == Times(a, s)
<1>1. z \in Vector /\ \A i \in Unknown : z[i] = Inner(a[i], s)
  BY TimesType
<1>2. ASSUME NEW i \in Unknown
      PROVE  /\ InnerSum(EvalMult(Packed(NTrain, a[i]), ps), NTrain) = Scalar(z[i])
             /\ z[i] \in Field
  BY <1>1, InnerProductValue DEF InnerProduct, Vector
<1> HIDE DEF z
<1>3. ASSUME NEW i \in Unknown
      PROVE  /\ EvalRotate(Scalar(z[i]), -i) \in Cts
             /\ \A j \in SlotIndex : EvalRotate(Scalar(z[i]), -i)[j] = IF j = i THEN z[i] ELSE 0
  <2>1. Scalar(z[i]) \in Cts /\ Clean(Scalar(z[i]), 1) /\ Scalar(z[i])[0] = z[i]
    BY <1>2, ScalarSlots, SlotsType
  <2>2. i \in SlotIndex /\ -i \in Int
    BY Unknowns
  <2> QED
    BY <2>1, <2>2, RotateType, Placed
<1>4. family = [i \in Unknown |-> EvalRotate(Scalar(z[i]), -i)]
  BY <1>2
<1> HIDE DEF family
<1>5. family \in [Unknown -> Cts]
  BY <1>3, <1>4
<1>6. \A i \in Unknown : \A j \in SlotIndex : family[i][j] = IF j = i THEN z[i] ELSE 0
  BY <1>3, <1>4
<1>7. ASSUME NEW j \in SlotIndex
      PROVE  Total([i \in Unknown |-> family[i][j]]) = IF j < NTrain THEN z[j] ELSE 0
  <2> DEFINE f == [i \in Unknown |-> family[i][j]]
  <2>1. f \in [Unknown -> Int]
    BY <1>5, FieldInt DEF Cts
  <2>2. CASE j < NTrain
    <3>1. j \in Unknown
      BY <2>2, SlotsType, Sizes DEF Unknown
    <3>2. f[j] = z[j] /\ \A i \in Unknown : i # j => f[i] = 0
      BY <1>6, <3>1
    <3> HIDE DEF f
    <3>2a. IsFiniteSet(Unknown)
      BY Unknowns
    <3>2b. SumFunction(f) = f[j]
      BY ONLY <2>1, <3>1, <3>2, <3>2a, SumSingle
    <3>3. SumFunction(f) = z[j]
      BY <3>2, <3>2b
    <3>4. Total(f) = z[j]
      BY <1>2, <3>1, <3>3, ReduceField DEF Total
    <3> QED
      BY <2>2, <3>4 DEF f
  <2>3. CASE ~(j < NTrain)
    <3>1. \A i \in Unknown : i # j
      BY <2>3, Sizes DEF Unknown
    <3>2. \A i \in Unknown : f[i] = 0
      BY <1>6, <3>1
    <3> HIDE DEF f
    <3>3. Total(f) = 0
      BY <2>1, <3>2, Unknowns, TotalZero
    <3> QED
      BY <2>3, <3>3 DEF f
  <2> QED
    BY <2>2, <2>3
<1>8. \A j \in SlotIndex : EvalTotal(family)[j] = IF j < NTrain THEN z[j] ELSE 0
  <2>1. DOMAIN family = Unknown
    BY <1>5
  <2> QED
    BY <1>7, <2>1 DEF EvalTotal
<1>9. EvalTotal(family) \in Cts
  BY <1>5, Unknowns, EvalTotalType
<1>10. EvalTotal(family) = Packed(NTrain, z)
  BY <1>1, <1>8, <1>9, PackedSlots, SameCts
<1> QED
  BY <1>10 DEF MatvecRow, family, z

\* 1/t, in slot 0, for the value that its interval was chosen around.
LEMMA ScalarDivValue ==
  ASSUME NEW num \in Field, NEW val \in Field \ {0}
  PROVE  ScalarDiv(Scalar(num), Scalar(val), val) = Scalar(Reduce(num * Reciprocal[val]))
<1> DEFINE den == HeInvNear(Scalar(val), val)
           inv == EvalMult(den, Unit(0))
           z == Reduce(num * Reciprocal[val])
<1>1. /\ Scalar(num) \in Cts /\ \A s \in SlotIndex : Scalar(num)[s] = IF s = 0 THEN num ELSE 0
      /\ Scalar(val) \in Cts /\ Scalar(val)[0] = val
  BY ScalarSlots, SlotsType
<1>2. Reciprocal[val] \in Field
  BY ReciprocalType
<1>3. den \in Cts
  BY <1>1, SeriesType
<1>4. den[0] = Reciprocal[val]
  BY <1>1, SlotsType DEF HeInvNear
<1> HIDE DEF den
<1>5. /\ inv \in Cts
      /\ \A s \in SlotIndex : inv[s] = IF s = 0 THEN Reciprocal[val] ELSE 0
  BY <1>3, <1>4, SlotsType, Masked
<1> HIDE DEF inv
<1>6. num \in Int /\ Reciprocal[val] \in Int /\ num * Reciprocal[val] \in Int
  <2>1. num \in Int /\ Reciprocal[val] \in Int
    BY <1>2, FieldInt
  <2> QED
    BY <2>1
<1>7. z \in Field
  BY <1>6, ReduceType
<1>8. Reduce(0 * 0) = 0
  BY ReduceField, PType
<1>9. EvalMult(Scalar(num), inv) \in Cts
  BY <1>1, <1>5, SlotArithmetic
<1>10. \A s \in SlotIndex : EvalMult(Scalar(num), inv)[s] = IF s = 0 THEN z ELSE 0
  BY <1>1, <1>5, <1>8 DEF EvalMult
<1> HIDE DEF z
<1>11. EvalMult(Scalar(num), inv) = Scalar(z)
  BY <1>7, <1>9, <1>10, ScalarSlots, SameCts
<1> QED
  BY <1>11 DEF ScalarDiv, inv, den, z

LEMMA PlusType ==
  ASSUME NEW s \in Vector, NEW z \in Int, NEW t \in Vector
  PROVE  /\ Plus(s, z, t) \in Vector
         /\ \A i \in Unknown : Plus(s, z, t)[i] = Reduce(s[i] + z * t[i])
<1>1. ASSUME NEW i \in Unknown PROVE Reduce(s[i] + z * t[i]) \in Field
  <2>1. s[i] \in Int /\ t[i] \in Int
    BY FieldInt DEF Vector
  <2>2. s[i] + z * t[i] \in Int
    BY <2>1
  <2> QED
    BY <2>2, ReduceType
<1> QED
  BY <1>1 DEF Plus, Vector

\* The scalar, broadcast, reaches every slot of the vector.
LEMMA AxpyValue ==
  ASSUME NEW s \in Vector, NEW z \in Field, NEW t \in Vector
  PROVE  /\ AddMultiple(Packed(NTrain, s), Scalar(z), Packed(NTrain, t))
              = Packed(NTrain, Plus(s, z, t))
         /\ SubtractMultiple(Packed(NTrain, s), Scalar(z), Packed(NTrain, t))
              = Packed(NTrain, Plus(s, -z, t))
<1> USE Sizes
<1> DEFINE ps == Packed(NTrain, s)
           pt == Packed(NTrain, t)
           br == Broadcast(Scalar(z))
           prod == EvalMult(br, pt)
<1>1. /\ ps \in Cts /\ pt \in Cts
      /\ \A j \in SlotIndex : ps[j] = IF j < NTrain THEN s[j] ELSE 0
      /\ \A j \in SlotIndex : pt[j] = IF j < NTrain THEN t[j] ELSE 0
  BY PackedSlots
<1> HIDE DEF ps, pt
<1>2. Scalar(z) \in Cts /\ Clean(Scalar(z), 1) /\ Scalar(z)[0] = z
  BY ScalarSlots, SlotsType
<1>3. NTrain \in Nat /\ NTrain >= 1 /\ NTrain <= Slots
  BY ShapeAssumption
<1>4. br \in Cts /\ \A j \in SlotIndex : j < NTrain => br[j] = z
  <2>1. Scalar(z) \in Cts /\ Clean(Scalar(z), 1) /\ NTrain \in Int
    BY ONLY <1>2, <1>3
  <2>2. br = ReplicateSlot0(Scalar(z), NTrain)
    BY DEF Broadcast
  <2>3. br \in Cts
    BY ONLY <2>1, <2>2, TreesType
  <2>4. \A j \in SlotIndex : j < NTrain => ReplicateSlot0(Scalar(z), NTrain)[j] = Scalar(z)[0]
    BY ONLY <1>3, <2>1, ReplicateValue
  <2> QED
    BY ONLY <1>2, <2>2, <2>3, <2>4
<1> HIDE DEF br
<1>5. prod \in Cts
  BY <1>1, <1>4, SlotArithmetic
<1>6. \A j \in SlotIndex : j < NTrain => s[j] \in Int /\ t[j] \in Int /\ z * t[j] \in Int
  <2>1. \A j \in SlotIndex : j < NTrain => j \in Unknown
    BY SlotsType DEF Unknown
  <2>2. z \in Int
    BY FieldInt
  <2>3. \A j \in SlotIndex : j < NTrain => s[j] \in Int /\ t[j] \in Int
    BY <2>1, FieldInt DEF Vector
  <2> QED
    BY <2>2, <2>3
<1>7. ASSUME NEW j \in SlotIndex
      PROVE  prod[j] = IF j < NTrain THEN Reduce(z * t[j]) ELSE 0
  <2>1. CASE j < NTrain
    BY <1>1, <1>4, <2>1 DEF EvalMult
  <2>2. CASE ~(j < NTrain)
    <3>1. br[j] \in Int
      BY <1>4, FieldInt DEF Cts
    <3>2. prod[j] = Reduce(br[j] * 0)
      BY <1>1, <2>2 DEF EvalMult
    <3>3. br[j] * 0 = 0
      BY <3>1
    <3> QED
      BY <2>2, <3>2, <3>3, ReduceField, PType
  <2> QED
    BY <2>1, <2>2
<1> HIDE DEF prod
<1>8. EvalAdd(ps, prod) \in Cts /\ EvalSub(ps, prod) \in Cts
  BY <1>1, <1>5, SlotArithmetic
<1>9. z \in Int /\ -z \in Int
  BY FieldInt
<1>10. Reduce(0) = 0 /\ 0 + 0 = 0 /\ 0 - 0 = 0
  BY ReduceField, PType
<1>11. ASSUME NEW j \in SlotIndex
       PROVE  /\ EvalAdd(ps, prod)[j] = IF j < NTrain THEN Plus(s, z, t)[j] ELSE 0
              /\ EvalSub(ps, prod)[j] = IF j < NTrain THEN Plus(s, -z, t)[j] ELSE 0
  <2>1. CASE j < NTrain
    <3>1. j \in Unknown
      BY <2>1, SlotsType DEF Unknown
    <3>2. Plus(s, z, t)[j] = Reduce(s[j] + z * t[j]) /\ Plus(s, -z, t)[j] = Reduce(s[j] + (-z) * t[j])
      BY <1>9, <3>1, PlusType
    <3> DEFINE e == z * t[j]
    <3>3. s[j] \in Int /\ e \in Int /\ (-z) * t[j] = -e
      BY <1>6, <1>9, <2>1
    <3>4. /\ EvalAdd(ps, prod)[j] = Reduce(s[j] + Reduce(e))
          /\ EvalSub(ps, prod)[j] = Reduce(s[j] - Reduce(e))
      BY <1>1, <1>7, <2>1 DEF EvalAdd, EvalSub
    <3>5. PICK m \in Int : e = P * m + Reduce(e)
      BY <3>3, ReduceParts
    <3>5a. P \in Int /\ Reduce(e) \in Int
      BY <3>3, PType, ReduceType
    <3>6. Plus(s, z, t)[j] = Reduce(s[j] + e) /\ Plus(s, -z, t)[j] = Reduce(s[j] + (-e))
      BY <3>2, <3>3
    <3> HIDE DEF e
    <3> DEFINE f == Reduce(e)
    <3> HIDE DEF f
    <3>7. f \in Int /\ e = P * m + f
      BY <3>5, <3>5a DEF f
    <3>8. s[j] + f \in Int /\ s[j] - f \in Int /\ -m \in Int
      BY <3>3, <3>7
    <3>9. s[j] + e = (s[j] + f) + P * m /\ s[j] + (-e) = (s[j] - f) + P * (-m)
      BY <3>3, <3>5a, <3>7
    <3>10. Reduce(s[j] + e) = Reduce(s[j] + f) /\ Reduce(s[j] + (-e)) = Reduce(s[j] - f)
      BY <3>8, <3>9, ReduceShift
    <3> QED
      BY <2>1, <3>4, <3>6, <3>10 DEF f
  <2>2. CASE ~(j < NTrain)
    BY <1>1, <1>7, <1>10, <2>2 DEF EvalAdd, EvalSub
  <2> QED
    BY <2>1, <2>2
<1>12. Plus(s, z, t) \in Vector /\ Plus(s, -z, t) \in Vector
  BY <1>9, PlusType
<1>13. EvalAdd(ps, prod) = Packed(NTrain, Plus(s, z, t))
  BY <1>8, <1>11, <1>12, PackedSlots, SameCts
<1>14. EvalSub(ps, prod) = Packed(NTrain, Plus(s, -z, t))
  BY <1>8, <1>11, <1>12, PackedSlots, SameCts
<1> QED
  BY <1>13, <1>14 DEF AddMultiple, SubtractMultiple, prod, br, ps, pt

ZeroVector == [i \in Unknown |-> 0]

\* The algebra of the simulation.
LEMMA InnerPlus ==
  ASSUME NEW s \in Vector, NEW z \in Int, NEW t \in Vector, NEW q \in Vector
  PROVE  /\ Inner(Plus(s, z, t), q) = Reduce(Inner(s, q) + z * Inner(t, q))
         /\ Inner(q, Plus(s, z, t)) = Reduce(Inner(q, s) + z * Inner(q, t))
<1> DEFINE f == [i \in Unknown |-> s[i] * q[i]]
           g == [i \in Unknown |-> t[i] * q[i]]
           zg == [i \in Unknown |-> z * g[i]]
           h == [i \in Unknown |-> f[i] + zg[i]]
           e == [i \in Unknown |-> Plus(s, z, t)[i] * q[i]]
<1>1. \A i \in Unknown : s[i] \in Int /\ t[i] \in Int /\ q[i] \in Int
  BY FieldInt DEF Vector
<1>2. f \in [Unknown -> Int] /\ g \in [Unknown -> Int]
  BY Products
<1>3. zg \in [Unknown -> Int]
  <2>1. \A i \in Unknown : g[i] \in Int
    BY <1>2
  <2> HIDE DEF g
  <2>2. \A i \in Unknown : z * g[i] \in Int
    BY <2>1
  <2> QED
    BY <2>2
<1>4. h \in [Unknown -> Int]
  <2>1. \A i \in Unknown : f[i] \in Int /\ zg[i] \in Int
    BY <1>2, <1>3
  <2> HIDE DEF f, zg
  <2>2. \A i \in Unknown : f[i] + zg[i] \in Int
    BY <2>1
  <2> QED
    BY <2>2
<1>5. Plus(s, z, t) \in Vector /\ \A i \in Unknown : Plus(s, z, t)[i] = Reduce(s[i] + z * t[i])
  BY PlusType
<1>6. e \in [Unknown -> Int] /\ Inner(Plus(s, z, t), q) = Inner(q, Plus(s, z, t))
  BY <1>5, Products
<1>7. ASSUME NEW i \in Unknown PROVE Reduce(h[i]) = Reduce(e[i])
  <2> DEFINE m == s[i] + z * t[i]
  <2>1. m \in Int /\ m * q[i] \in Int
    BY <1>1
  <2>2. h[i] = m * q[i]
    BY <1>1
  <2>3. e[i] = Reduce(m) * q[i]
    BY <1>5
  <2> HIDE DEF m
  <2>4. Reduce(Reduce(m) * q[i]) = Reduce(m * q[i])
    BY <1>1, <2>1, ReduceMult
  <2> QED
    BY <2>2, <2>3, <2>4
<1>8. \A i \in Unknown : h[i] = f[i] + zg[i] /\ zg[i] = z * g[i]
  OBVIOUS
<1>9. Inner(s, q) = Reduce(SumFunction(f)) /\ Inner(t, q) = Reduce(SumFunction(g))
  BY DEF Inner, Total
<1>10. Inner(Plus(s, z, t), q) = Total(e)
  BY DEF Inner
<1>11. Inner(s, q) = Inner(q, s) /\ Inner(t, q) = Inner(q, t)
  BY Products
<1>12. IsFiniteSet(Unknown)
  BY Unknowns
<1> HIDE DEF f, g, zg, h, e
<1>13. Total(h) = Total(e)
  BY ONLY <1>4, <1>6, <1>7, <1>12, SumCongruent
<1>14. SumFunction(h) = SumFunction(f) + SumFunction(zg)
  BY ONLY <1>2, <1>3, <1>4, <1>8, <1>12, SumPlus
<1>15. SumFunction(zg) = z * SumFunction(g)
  BY ONLY <1>2, <1>3, <1>8, <1>12, SumScale
<1>16. SumFunction(f) \in Int /\ SumFunction(g) \in Int
  BY ONLY <1>2, <1>12, SumInt
<1> DEFINE F == SumFunction(f)
           G == SumFunction(g)
<1>17. F \in Int /\ G \in Int /\ Inner(s, q) = Reduce(F) /\ Inner(t, q) = Reduce(G)
       /\ Inner(Plus(s, z, t), q) = Reduce(F + z * G)
  BY <1>9, <1>10, <1>13, <1>14, <1>15, <1>16 DEF Total
<1> HIDE DEF F, G
<1>18. Reduce(F + z * G) = Reduce(Reduce(F) + z * Reduce(G))
  <2>1. PICK m \in Int, n \in Int : F = P * m + Reduce(F) /\ G = P * n + Reduce(G)
    BY <1>17, ReduceParts
  <2>2. Reduce(F) \in Int /\ Reduce(G) \in Int /\ P \in Int
    BY <1>17, ReduceType, PType
  <2> DEFINE Fr == Reduce(F)
             Gr == Reduce(G)
  <2>3. Fr \in Int /\ Gr \in Int /\ F = P * m + Fr /\ G = P * n + Gr
    BY <2>1, <2>2
  <2> HIDE DEF Fr, Gr
  <2>4. F + z * G = (Fr + z * Gr) + P * (m + z * n)
    BY <2>2, <2>3
  <2>5. Fr + z * Gr \in Int /\ m + z * n \in Int
    BY <2>3
  <2>6. Reduce(F + z * G) = Reduce(Fr + z * Gr)
    BY <2>4, <2>5, ReduceShift
  <2> QED
    BY <2>6 DEF Fr, Gr
<1> QED
  BY <1>6, <1>11, <1>17, <1>18

\* A step of the simulation that goes on.
SimOf(s, t, q) == [x |-> s, r |-> t, p |-> q]

\* The new residual is orthogonal to the old direction, and the direction and
\* the residual have the product that the residual has with itself.
LEMMA SimProducts ==
  ASSUME NEW t \in Vector, NEW q \in Vector, NEW Aq \in Vector, Inner(t, q) = Inner(t, t),
         Inner(q, Aq) # 0,
         NEW st, st = Reduce(Inner(t, t) * Reciprocal[Inner(q, Aq)]),
         NEW newT, newT = Plus(t, -st, Aq), NEW beta \in Field
  PROVE  /\ st \in Field /\ newT \in Vector /\ Plus(newT, beta, q) \in Vector
         /\ Inner(newT, Plus(newT, beta, q)) = Inner(newT, newT)
<1> DEFINE old == Inner(t, t)
           qAq == Inner(q, Aq)
           inv == Reciprocal[qAq]
<1>1. old \in Field /\ qAq \in Field \ {0} /\ Inner(Aq, q) = qAq /\ Inner(t, q) = old
  BY Products
<1> HIDE DEF old, qAq
<1>2. inv \in Field /\ Reduce(qAq * inv) = 1
  BY <1>1, ReciprocalType
<1> HIDE DEF inv
<1>3. old \in Int /\ qAq \in Int /\ inv \in Int /\ beta \in Int
  BY <1>1, <1>2, FieldInt
<1>4. old * inv \in Int /\ st = Reduce(old * inv)
  BY <1>3 DEF old, qAq, inv
<1>5. st \in Field /\ st \in Int /\ -st \in Int
  BY <1>4, ReduceType
<1>6. newT \in Vector
  BY <1>5, PlusType
<1>7. Plus(newT, beta, q) \in Vector
  BY <1>3, <1>6, PlusType
<1>8. Inner(newT, q) = Reduce(old + (-st) * qAq)
  BY <1>1, <1>5, InnerPlus
<1>9. Reduce(st * qAq) = old
  <2>1. Reduce(st * qAq) = Reduce((old * inv) * qAq)
    BY <1>3, <1>4, ReduceMult
  <2>2. (old * inv) * qAq = (qAq * inv) * old /\ qAq * inv \in Int
    BY <1>3
  <2>3. Reduce((qAq * inv) * old) = Reduce(Reduce(qAq * inv) * old)
    BY <1>3, <2>2, ReduceMult
  <2>4. Reduce(qAq * inv) * old = old
    BY <1>2, <1>3
  <2> QED
    BY <1>1, <2>1, <2>2, <2>3, <2>4, ReduceField
<1>10. Inner(newT, q) = 0
  <2> DEFINE e == st * qAq
  <2>1. e \in Int /\ old + (-st) * qAq = old - e /\ Reduce(e) = old
    BY <1>3, <1>5, <1>9
  <2> HIDE DEF e
  <2>2. PICK m \in Int : e = P * m + old
    BY <2>1, ReduceParts
  <2>3. old - e = 0 + P * (-m) /\ -m \in Int /\ 0 \in Int
    BY <1>3, <2>1, <2>2, PType
  <2>4. Reduce(old - e) = Reduce(0)
    BY <2>3, ReduceShift
  <2> QED
    BY <1>8, <2>1, <2>4, ReduceField, PType
<1>11. Inner(newT, Plus(newT, beta, q)) = Reduce(Inner(newT, newT) + beta * Inner(newT, q))
  BY <1>3, <1>6, InnerPlus
<1>12. Inner(newT, newT) \in Field /\ Inner(newT, newT) \in Int
  BY <1>6, Products, FieldInt
<1>13. Inner(newT, newT) + beta * 0 = Inner(newT, newT)
  BY <1>3, <1>12
<1> QED
  BY <1>5, <1>6, <1>7, <1>10, <1>11, <1>12, <1>13, ReduceField

LEMMA ZeroType == ZeroVector \in Vector /\ \A i \in Unknown : ZeroVector[i] = 0
BY PType DEF ZeroVector, Vector

LEMMA InnerZero ==
  ASSUME NEW s \in Vector
  PROVE  Inner(s, ZeroVector) = 0
<1> DEFINE f == [i \in Unknown |-> s[i] * ZeroVector[i]]
<1>1. f \in [Unknown -> Int]
  BY ZeroType, Products
<1>2. \A i \in Unknown : s[i] \in Int
  BY FieldInt DEF Vector
<1>3. \A i \in Unknown : f[i] = 0
  BY <1>2, ZeroType
<1>4. IsFiniteSet(Unknown)
  BY Unknowns
<1> HIDE DEF f
<1>5. Total(f) = 0
  BY ONLY <1>1, <1>3, <1>4, TotalZero
<1> QED
  BY <1>5 DEF Inner, f

LEMMA IsZeroVector ==
  ASSUME NEW s \in Vector, \A i \in Unknown : s[i] = 0
  PROVE  s = ZeroVector
BY ZeroType DEF Vector

LEMMA TimesZero ==
  ASSUME NEW a \in [Unknown -> Vector]
  PROVE  Times(a, ZeroVector) = ZeroVector
<1>1. /\ Times(a, ZeroVector) \in Vector
      /\ \A i \in Unknown : Times(a, ZeroVector)[i] = Inner(a[i], ZeroVector)
  BY ZeroType, TimesType
<1>2. \A i \in Unknown : Inner(a[i], ZeroVector) = 0
  BY InnerZero
<1> QED
  BY <1>1, <1>2, IsZeroVector

\* Adding nothing: the multiple is zero in every slot.
LEMMA PlusZero ==
  ASSUME NEW s \in Vector, NEW t \in Vector
  PROVE  Plus(s, 0, t) = s
<1>1. Plus(s, 0, t) \in Vector /\ \A i \in Unknown : Plus(s, 0, t)[i] = Reduce(s[i] + 0 * t[i])
  BY PlusType
<1>2. \A i \in Unknown : s[i] \in Field /\ s[i] \in Int /\ t[i] \in Int
  BY FieldInt DEF Vector
<1>3. \A i \in Unknown : s[i] + 0 * t[i] = s[i]
  BY <1>2
<1>4. \A i \in Unknown : Plus(s, 0, t)[i] = s[i]
  BY <1>1, <1>2, <1>3, ReduceField
<1> QED
  BY <1>1, <1>4 DEF Vector

\* A product of ciphertexts' slots is that of the vectors in them.
LEMMA InnerPacked ==
  ASSUME NEW s \in Vector, NEW t \in Vector
  PROVE  Inner(Packed(NTrain, s), t) = Inner(s, t)
         /\ Inner(Packed(NTrain, s), Packed(NTrain, t)) = Inner(s, t)
         /\ Inner(t, Packed(NTrain, s)) = Inner(t, s)
<1> DEFINE ps == Packed(NTrain, s)
           pt == Packed(NTrain, t)
<1>1. \A i \in Unknown : ps[i] = s[i] /\ pt[i] = t[i]
  BY PackedSlots
<1> HIDE DEF ps, pt
<1>2. /\ [i \in Unknown |-> ps[i] * t[i]] = [i \in Unknown |-> s[i] * t[i]]
      /\ [i \in Unknown |-> ps[i] * pt[i]] = [i \in Unknown |-> s[i] * t[i]]
      /\ [i \in Unknown |-> t[i] * ps[i]] = [i \in Unknown |-> t[i] * s[i]]
  BY <1>1
<1> QED
  BY <1>2 DEF Inner, ps, pt

LEMMA TimesPacked ==
  ASSUME NEW a \in [Unknown -> Vector], NEW s \in Vector
  PROVE  Times(a, Packed(NTrain, s)) = Times(a, s)
<1>1. \A i \in Unknown : Inner(a[i], Packed(NTrain, s)) = Inner(a[i], s)
  BY InnerPacked
<1>2. /\ Times(a, Packed(NTrain, s)) = [i \in Unknown |-> Inner(a[i], Packed(NTrain, s))]
      /\ Times(a, s) = [i \in Unknown |-> Inner(a[i], s)]
  BY DEF Times, Inner
<1> QED
  BY <1>1, <1>2

\* What the iterate gains, the residual loses.
LEMMA ResidualKept ==
  ASSUME NEW m \in Int, NEW n \in Int, NEW sum \in Int, m + n = sum
  PROVE  Reduce(Reduce(m) + Reduce(n)) = Reduce(sum)
<1>1. P \in Int
  BY PType
<1>2. PICK h \in Int : n = P * h + Reduce(n)
  BY ReduceParts
<1>3. Reduce(n) \in Int
  BY ReduceType
<1> DEFINE j == Reduce(n)
<1>4. j \in Int /\ n = P * h + j
  BY <1>2, <1>3
<1> HIDE DEF j
<1>5. Reduce(Reduce(m) + j) = Reduce(m + j)
  BY <1>4, ReduceAdd
<1>6. m + j = sum + P * (-h) /\ -h \in Int
  BY <1>1, <1>4
<1>7. Reduce(m + j) = Reduce(sum)
  BY <1>6, ReduceShift
<1> QED
  BY <1>5, <1>7 DEF j

\* The simulation: the residual of its iterate, and how residual and direction
\* are related.  That is what makes the two divisors vanish together: a
\* direction of zero has r.p = 0, a residual of zero is the direction.
SimState == [x : Vector, r : Vector, p : Vector]
SimInv ==
  /\ it \in Nat /\ rhs \in Vector /\ sim \in SimState
  /\ Inner(sim.r, sim.p) = RrValue
  /\ RrValue = 0 => sim.p = sim.r
  /\ \A i \in Unknown : Reduce(Inner(rows[i], sim.x) + sim.r[i]) = rhs[i]
LoopInv ==
  pc \in {"u", "v"} =>
    /\ SimInv
    /\ x_ct = Packed(NTrain, sim.x) /\ r_ct = Packed(NTrain, sim.r)
    /\ it < NIter => p_ct = Packed(NTrain, sim.p)
    /\ rr = Scalar(RrValue)

\* A solve starts with the zero vector.
LEMMA SimStarts ==
  ASSUME NEW a \in [Unknown -> Vector], NEW start \in Vector
  PROVE  /\ SimStart(start) \in SimState
         /\ Inner(SimStart(start).r, SimStart(start).p) = Inner(start, start)
         /\ SimStart(start).x = ZeroVector /\ SimStart(start).r = start
         /\ SimStart(start).p = start
         /\ ZeroCt = Packed(NTrain, ZeroVector)
         /\ SquaredNorm(start) = Scalar(Inner(start, start))
         /\ \A i \in Unknown : Reduce(Inner(a[i], ZeroVector) + start[i]) = start[i]
<1>1. /\ SimStart(start).x = ZeroVector /\ SimStart(start).r = start
      /\ SimStart(start).p = start /\ SimStart(start) \in SimState
  <2>1. ZeroVector \in Vector
    BY ZeroType
  <2>2. SimStart(start) = [x |-> ZeroVector, r |-> start, p |-> start]
    BY DEF SimStart, ZeroVector
  <2> HIDE DEF ZeroVector, Vector
  <2> QED
    BY <2>1, <2>2 DEF SimState
<1>2. \A s \in SlotIndex : s < NTrain => ZeroVector[s] = 0
  BY Sizes, SlotsType DEF ZeroVector, Unknown
<1>3. \A s \in SlotIndex : ZeroCt[s] = Packed(NTrain, ZeroVector)[s]
  BY <1>2, ZeroType, PackedSlots DEF ZeroCt
<1>4. ZeroCt = Packed(NTrain, ZeroVector)
  BY <1>3, ZeroType, PackedSlots, ConstantCts, SameCts
<1>5. SquaredNorm(start) = Scalar(Inner(start, start))
  BY InnerProductValue DEF SquaredNorm
<1>6. ASSUME NEW i \in Unknown PROVE Reduce(Inner(a[i], ZeroVector) + start[i]) = start[i]
  <2>1. Inner(a[i], ZeroVector) = 0
    BY InnerZero
  <2>2. start[i] \in Field /\ start[i] \in Int
    BY FieldInt DEF Vector
  <2>3. 0 + start[i] = start[i]
    BY <2>2
  <2> QED
    BY <2>1, <2>2, <2>3, ReduceField
<1> QED
  BY <1>1, <1>4, <1>5, <1>6

\* Before an iteration, and with LoopInv, the guard Definite is about the vectors
\* of the simulation.
InLoop == pc \in {"u", "v"} /\ IterationsLeft /\ Definite

LEMMA LoopFacts ==
  ASSUME CgTypes, LoopInv, InLoop
  PROVE  /\ SimInv /\ it < NIter /\ rows \in [Unknown -> Vector]
         /\ sim.x \in Vector /\ sim.r \in Vector /\ sim.p \in Vector
         /\ x_ct = Packed(NTrain, sim.x) /\ r_ct = Packed(NTrain, sim.r)
         /\ p_ct = Packed(NTrain, sim.p) /\ rr = Scalar(RrValue)
         /\ RrValue = 0 => sim.r = ZeroVector
         /\ PApValue = 0 => sim.p = ZeroVector
         /\ RrValue \in Field /\ PApValue \in Field
<1>1. pc \in {"u", "v"} /\ it < NIter /\ Definite
  BY DEF InLoop, IterationsLeft
<1>2. /\ SimInv
      /\ x_ct = Packed(NTrain, sim.x) /\ r_ct = Packed(NTrain, sim.r)
      /\ p_ct = Packed(NTrain, sim.p) /\ rr = Scalar(RrValue)
  BY <1>1 DEF LoopInv
<1>3. sim.x \in Vector /\ sim.r \in Vector /\ sim.p \in Vector
  BY <1>2 DEF SimInv, SimState
<1>4. rows \in [Unknown -> Vector]
  BY DEF CgTypes, Vector
<1>5. /\ Inner(r_ct, r_ct) = RrValue
      /\ \A i \in Unknown : r_ct[i] = sim.r[i] /\ p_ct[i] = sim.p[i]
  BY <1>2, <1>3, InnerPacked, PackedSlots DEF RrValue
<1>6. Inner(p_ct, Times(rows, p_ct)) = PApValue
  <2>1. Times(rows, p_ct) = Times(rows, sim.p)
    BY <1>2, <1>3, <1>4, TimesPacked
  <2>2. Times(rows, sim.p) \in Vector
    BY <1>3, <1>4, TimesType
  <2> QED
    BY <1>2, <1>3, <2>1, <2>2, InnerPacked DEF PApValue
<1>7. RrValue = 0 => sim.r = ZeroVector
  BY <1>1, <1>3, <1>5, IsZeroVector DEF Definite
<1>8. PApValue = 0 => sim.p = ZeroVector
  BY <1>1, <1>3, <1>5, <1>6, IsZeroVector DEF Definite
<1>9. RrValue \in Field /\ PApValue \in Field
  BY <1>3, <1>4, TimesType, Products DEF RrValue, PApValue
<1> QED
  BY <1>1, <1>2, <1>3, <1>4, <1>7, <1>8, <1>9

\* The two divisors vanish together, when the residual does: a direction of zero
\* has r.p = 0, and a residual of zero is the direction.
LEMMA DivisorsVanishTogether ==
  ASSUME CgTypes, LoopInv, InLoop
  PROVE  /\ (PApValue = 0) <=> (RrValue = 0)
         /\ RrValue = 0 => sim.r = ZeroVector
<1>1. /\ SimInv /\ rows \in [Unknown -> Vector] /\ sim.r \in Vector /\ sim.p \in Vector
      /\ RrValue = 0 => sim.r = ZeroVector
      /\ PApValue = 0 => sim.p = ZeroVector
  BY LoopFacts
<1>2. ASSUME PApValue = 0 PROVE RrValue = 0
  <2>1. Inner(sim.r, sim.p) = 0
    BY <1>1, <1>2, InnerZero
  <2> QED
    BY <1>1, <2>1 DEF SimInv
<1>3. ASSUME RrValue = 0 PROVE PApValue = 0
  <2>1. sim.p = ZeroVector
    BY <1>1, <1>3 DEF SimInv
  <2>2. Times(rows, ZeroVector) = ZeroVector
    BY <1>1, TimesZero
  <2>3. Inner(sim.p, ZeroVector) = 0
    BY <1>1, InnerZero
  <2> QED
    BY <2>1, <2>2, <2>3 DEF PApValue
<1> QED
  BY <1>1, <1>2, <1>3

\* So an iteration that runs divides by neither of two zeros, the last included,
\* which does not ask for r.r.
LEMMA IterateDivides ==
  ASSUME CgTypes, LoopInv, Iterate
  PROVE  InLoop /\ PApValue # 0 /\ RrValue # 0
<1>1. InLoop /\ PApValue # 0
  BY DEF Iterate, InLoop, Divisible
<1> QED
  BY <1>1, DivisorsVanishTogether

\* What an iteration does to the ciphertexts.
LEMMA IterateValues ==
  ASSUME CgTypes, LoopInv, Iterate
  PROVE  LET Ap == Packed(NTrain, Times(rows, sim.p))
             step == ScalarDiv(rr, Scalar(PApValue), PApValue)
         IN  /\ step \in Cts
             /\ x_ct' = AddMultiple(x_ct, step, p_ct)
             /\ r_ct' = SubtractMultiple(r_ct, step, Ap)
             /\ rr' = InnerProduct(r_ct', r_ct') /\ rr' \in Cts
             /\ it < NIter - 1 =>
                  /\ ScalarDiv(rr', rr, RrValue) \in Cts
                  /\ p_ct' = AddMultiple(r_ct', ScalarDiv(rr', rr, RrValue), p_ct)
             /\ it' = it + 1 /\ sim' = SimStep(rows, sim)
             /\ rows' = rows /\ rhs' = rhs /\ pc' = pc
<1> DEFINE a == MatvecRow(rows, p_ct)
           st == ScalarDiv(rr, InnerProduct(p_ct, a), PApValue)
<1>1. /\ x_ct' = AddMultiple(x_ct, st, p_ct)
      /\ r_ct' = SubtractMultiple(r_ct, st, a)
      /\ rr' = InnerProduct(r_ct', r_ct')
      /\ it < NIter - 1 => p_ct' = AddMultiple(r_ct', ScalarDiv(rr', rr, RrValue), p_ct)
      /\ it' = it + 1 /\ sim' = SimStep(rows, sim)
      /\ rows' = rows /\ rhs' = rhs /\ pc' = pc
  BY DEF Iterate
<1>2. /\ rows \in [Unknown -> Vector] /\ sim.p \in Vector
      /\ p_ct = Packed(NTrain, sim.p)
  BY IterateDivides, LoopFacts
<1>3. a = Packed(NTrain, Times(rows, sim.p)) /\ Times(rows, sim.p) \in Vector
  BY <1>2, MatvecValue, TimesType
<1> HIDE DEF a
<1>4. InnerProduct(p_ct, a) = Scalar(PApValue)
  BY <1>2, <1>3, InnerProductValue DEF PApValue
<1>5. PApValue \in Field /\ Scalar(PApValue) \in Cts /\ rr \in Cts
  BY IterateDivides, LoopFacts, ScalarSlots DEF CgTypes
<1>6. st = ScalarDiv(rr, Scalar(PApValue), PApValue)
  BY <1>4
<1>7. ScalarDiv(rr, Scalar(PApValue), PApValue) \in Cts
  BY <1>5, IterateDivides, SeriesType
<1>8. rr' \in Cts
  BY IterateTypes
<1>9. ScalarDiv(rr', rr, RrValue) \in Cts
  BY <1>5, <1>8, IterateDivides, SeriesType
<1> HIDE DEF st
<1> QED
  BY <1>1, <1>3, <1>6, <1>7, <1>8, <1>9

\* One step of the simulation, while there is a residual.
LEMMA SimSteps ==
  ASSUME NEW a \in [Unknown -> Vector], NEW s \in SimState, NEW start \in Vector,
         NEW after, after = SimStep(a, s),
         NEW qAq, qAq = Inner(s.p, Times(a, s.p)), qAq # 0,
         NEW old, old = Inner(s.r, s.r), old # 0,
         Inner(s.r, s.p) = old,
         \A i \in Unknown : Reduce(Inner(a[i], s.x) + s.r[i]) = start[i],
         NEW st, st = Reduce(old * Reciprocal[qAq]),
         NEW new, new = Inner(after.r, after.r),
         NEW beta, beta = Reduce(new * Reciprocal[old])
  PROVE  /\ after \in SimState /\ st \in Field /\ beta \in Field /\ new \in Field
         /\ after.x = Plus(s.x, st, s.p)
         /\ after.r = Plus(s.r, -st, Times(a, s.p))
         /\ after.p = Plus(after.r, beta, s.p)
         /\ Inner(after.r, after.p) = new
         /\ new = 0 => after.p = after.r
         /\ \A i \in Unknown : Reduce(Inner(a[i], after.x) + after.r[i]) = start[i]
<1> DEFINE As == Times(a, s.p)
<1>1. s.x \in Vector /\ s.r \in Vector /\ s.p \in Vector
  BY DEF SimState
<1>2. As \in Vector /\ \A i \in Unknown : As[i] = Inner(a[i], s.p)
  BY <1>1, TimesType
<1>3. /\ after.x = Plus(s.x, st, s.p) /\ after.r = Plus(s.r, -st, As)
      /\ after.p = Plus(after.r, beta, s.p)
      /\ after = [x |-> after.x, r |-> after.r, p |-> after.p]
  BY DEF SimStep
<1> HIDE DEF As
<1>4. qAq = Inner(s.p, As)
  BY DEF As
<1>5. qAq \in Field /\ old \in Field
  BY <1>1, <1>2, <1>4, Products
<1>6. Reciprocal[qAq] \in Field /\ Reciprocal[old] \in Field
  BY <1>5, ReciprocalType
<1>7. st \in Field /\ st \in Int /\ -st \in Int
  <2>1. old \in Int /\ Reciprocal[qAq] \in Int
    BY <1>5, <1>6, FieldInt
  <2>2. old * Reciprocal[qAq] \in Int
    BY <2>1
  <2> QED
    BY <2>2, ReduceType
<1>8. after.r \in Vector /\ after.x \in Vector
  BY <1>1, <1>2, <1>3, <1>7, PlusType
<1>9. new \in Field
  BY <1>8, Products
<1>10. beta \in Field
  <2>1. new \in Int /\ Reciprocal[old] \in Int
    BY <1>6, <1>9, FieldInt
  <2>2. new * Reciprocal[old] \in Int
    BY <2>1
  <2> QED
    BY <2>2, ReduceType
<1>11. after.p \in Vector /\ Inner(after.r, after.p) = new
  <2> DEFINE t == s.r
             q == s.p
             nt == after.r
  <2>1. /\ t \in Vector /\ q \in Vector /\ Inner(t, q) = Inner(t, t)
        /\ Inner(q, As) # 0 /\ st = Reduce(Inner(t, t) * Reciprocal[Inner(q, As)])
        /\ nt = Plus(t, -st, As) /\ after.p = Plus(nt, beta, q) /\ new = Inner(nt, nt)
    BY <1>1, <1>3, <1>4
  <2> HIDE DEF t, q, nt
  <2>2. /\ Plus(nt, beta, q) \in Vector
        /\ Inner(nt, Plus(nt, beta, q)) = Inner(nt, nt)
    BY <1>2, <1>10, <2>1, SimProducts
  <2> QED
    BY <2>1, <2>2 DEF nt
<1>12. after \in SimState
  BY <1>3, <1>8, <1>11 DEF SimState
<1>13. new = 0 => after.p = after.r
  <2> SUFFICES ASSUME new = 0 PROVE after.p = after.r
    OBVIOUS
  <2> DEFINE inv == Reciprocal[old]
  <2>1. inv \in Int /\ beta = Reduce(0 * inv)
    BY <1>6, FieldInt
  <2> HIDE DEF inv
  <2>2. 0 * inv = 0
    BY ONLY <2>1
  <2>3. 0 \in Field
    BY PType DEF Field
  <2>4. beta = 0
    BY ONLY <2>1, <2>2, <2>3, ReduceField
  <2> QED
    BY <1>1, <1>3, <1>8, <2>4, PlusZero
<1>14. ASSUME NEW i \in Unknown
       PROVE  Reduce(Inner(a[i], after.x) + after.r[i]) = start[i]
  <2> DEFINE e == Inner(a[i], s.x)
             f == s.r[i]
             g == As[i]
  <2>1. a[i] \in Vector /\ g = Inner(a[i], s.p)
    BY <1>2
  <2>2. e \in Int /\ f \in Int /\ g \in Int
    BY <1>1, <1>2, <2>1, Products, FieldInt DEF Vector
  <2>3. Inner(a[i], after.x) = Reduce(e + st * g)
    BY <1>1, <1>3, <1>7, <2>1, InnerPlus
  <2>4. after.r[i] = Reduce(f + (-st) * g)
    BY <1>1, <1>2, <1>3, <1>7, PlusType
  <2>5. Reduce(e + f) = start[i]
    OBVIOUS
  <2> HIDE DEF e, f, g
  <2> DEFINE m == e + st * g
             n == f + (-st) * g
             sum == e + f
  <2>6. m \in Int /\ n \in Int /\ sum \in Int /\ m + n = sum
    BY ONLY <1>7, <2>2
  <2> HIDE DEF m, n, sum
  <2>7. Reduce(Reduce(m) + Reduce(n)) = Reduce(sum)
    <3>1. m \in Int
      BY ONLY <2>6
    <3>2. n \in Int
      BY ONLY <2>6
    <3>3. sum \in Int
      BY ONLY <2>6
    <3>4. m + n = sum
      BY ONLY <2>6
    <3> QED
      BY ONLY <3>1, <3>2, <3>3, <3>4, ResidualKept
  <2> QED
    BY <2>3, <2>4, <2>5, <2>7 DEF m, n, sum
<1> QED
  BY <1>3, <1>7, <1>9, <1>10, <1>11, <1>12, <1>13, <1>14 DEF As

LEMMA IterateRuns ==
  ASSUME CgTypes, LoopInv, Iterate
  PROVE  LoopInv'
<1>1. /\ SimInv /\ it < NIter /\ rows \in [Unknown -> Vector]
      /\ sim.x \in Vector /\ sim.r \in Vector /\ sim.p \in Vector
      /\ x_ct = Packed(NTrain, sim.x) /\ r_ct = Packed(NTrain, sim.r)
      /\ p_ct = Packed(NTrain, sim.p) /\ rr = Scalar(RrValue)
      /\ RrValue \in Field \ {0} /\ PApValue \in Field \ {0}
  BY IterateDivides, LoopFacts
<1> DEFINE after == SimStep(rows, sim)
           Ap == Times(rows, sim.p)
           st == Reduce(RrValue * Reciprocal[PApValue])
           new == Inner(after.r, after.r)
           beta == Reduce(new * Reciprocal[RrValue])
           step == ScalarDiv(rr, Scalar(PApValue), PApValue)
<1>2. /\ x_ct' = AddMultiple(x_ct, step, p_ct)
      /\ r_ct' = SubtractMultiple(r_ct, step, Packed(NTrain, Ap))
      /\ rr' = InnerProduct(r_ct', r_ct')
      /\ it < NIter - 1 => p_ct' = AddMultiple(r_ct', ScalarDiv(rr', rr, RrValue), p_ct)
      /\ it' = it + 1 /\ sim' = after /\ rows' = rows /\ rhs' = rhs /\ pc' = pc
  BY IterateValues
<1>3. step = Scalar(st)
  BY <1>1, ScalarDivValue
<1> HIDE DEF step
<1>4. /\ after \in SimState /\ st \in Field /\ beta \in Field /\ new \in Field
      /\ after.x = Plus(sim.x, st, sim.p)
      /\ after.r = Plus(sim.r, -st, Ap)
      /\ after.p = Plus(after.r, beta, sim.p)
      /\ Inner(after.r, after.p) = new
      /\ new = 0 => after.p = after.r
      /\ \A i \in Unknown : Reduce(Inner(rows[i], after.x) + after.r[i]) = rhs[i]
  <2>1. /\ sim \in SimState /\ rhs \in Vector /\ PApValue = Inner(sim.p, Times(rows, sim.p))
        /\ RrValue = Inner(sim.r, sim.r) /\ Inner(sim.r, sim.p) = RrValue
        /\ \A i \in Unknown : Reduce(Inner(rows[i], sim.x) + sim.r[i]) = rhs[i]
    BY <1>1 DEF SimInv, PApValue, RrValue
  <2> DEFINE old == RrValue
             qAq == PApValue
  <2>2. old # 0 /\ qAq # 0 /\ old = Inner(sim.r, sim.r) /\ qAq = Inner(sim.p, Times(rows, sim.p))
        /\ Inner(sim.r, sim.p) = old
        /\ st = Reduce(old * Reciprocal[qAq]) /\ beta = Reduce(new * Reciprocal[old])
    BY <2>1, IterateDivides
  <2>3. after = SimStep(rows, sim) /\ new = Inner(after.r, after.r)
    OBVIOUS
  <2> HIDE DEF old, qAq, after, new, st, beta
  <2> QED
    BY <1>1, <2>1, <2>2, <2>3, SimSteps DEF Ap
<1>5. Ap \in Vector
  BY <1>1, TimesType
<1> HIDE DEF after, Ap, st
<1>6. after.x \in Vector /\ after.r \in Vector /\ after.p \in Vector
  BY <1>4 DEF SimState
<1>7. x_ct' = Packed(NTrain, after.x)
  BY <1>1, <1>2, <1>3, <1>4, AxpyValue
<1>8. r_ct' = Packed(NTrain, after.r)
  BY <1>1, <1>2, <1>3, <1>4, <1>5, AxpyValue
<1>9. rr' = Scalar(new)
  BY <1>2, <1>6, <1>8, InnerProductValue
<1>10. it < NIter - 1 => p_ct' = Packed(NTrain, after.p)
  <2> SUFFICES ASSUME it < NIter - 1 PROVE p_ct' = Packed(NTrain, after.p)
    OBVIOUS
  <2>1. ScalarDiv(Scalar(new), Scalar(RrValue), RrValue) = Scalar(beta)
    <3> HIDE DEF new
    <3> QED
      BY <1>1, <1>4, ScalarDivValue
  <2>2. p_ct' = AddMultiple(r_ct', Scalar(beta), p_ct)
    BY <1>1, <1>2, <1>9, <2>1
  <2> HIDE DEF beta, new
  <2> QED
    BY <1>1, <1>4, <1>6, <1>8, <2>2, AxpyValue
<1>11. it' \in Nat /\ (it' < NIter => it < NIter - 1)
  BY <1>1, <1>2, IterAssumption DEF SimInv
<1>12. RrValue' = new
  BY <1>2 DEF RrValue
<1>13. SimInv'
  BY <1>1, <1>2, <1>4, <1>11, <1>12 DEF SimInv
<1> QED
  BY <1>2, <1>7, <1>8, <1>9, <1>10, <1>11, <1>12, <1>13 DEF LoopInv

LEMMA LoopStarts ==
  ASSUME rows \in [Unknown -> Vector], NEW start \in Vector,
         it = 0, rhs = start, sim = SimStart(start), x_ct = ZeroCt,
         rr = SquaredNorm(start), r_ct = Packed(NTrain, start), p_ct = Packed(NTrain, start)
  PROVE  LoopInv
<1>1. /\ sim \in SimState /\ Inner(sim.r, sim.p) = Inner(start, start)
      /\ sim.x = ZeroVector /\ sim.r = start /\ sim.p = start
      /\ x_ct = Packed(NTrain, ZeroVector) /\ rr = Scalar(Inner(start, start))
      /\ \A i \in Unknown : Reduce(Inner(rows[i], ZeroVector) + start[i]) = start[i]
  BY SimStarts
<1>2. RrValue = Inner(start, start)
  BY <1>1 DEF RrValue
<1>3. SimInv
  BY <1>1, <1>2 DEF SimInv
<1> QED
  BY <1>1, <1>2, <1>3 DEF LoopInv

LEMMA LoopAtTheStart == CgInit => LoopInv
<1> SUFFICES ASSUME CgInit PROVE LoopInv
  OBVIOUS
<1> DEFINE start == CgRhs(train, "u")
<1>1. CgTypes
  BY CgTypesAtTheStart
<1>2. rows \in [Unknown -> Vector] /\ start \in Vector
  BY <1>1, CgSystemTypes DEF CgTypes, Vector
<1>3. /\ it = 0 /\ rhs = start /\ sim = SimStart(start) /\ x_ct = ZeroCt
      /\ rr = SquaredNorm(start) /\ r_ct = Packed(NTrain, start) /\ p_ct = Packed(NTrain, start)
  BY DEF CgInit, Start
<1> HIDE DEF start
<1> QED
  BY <1>2, <1>3, LoopStarts

LEMMA LoopStartsNext ==
  ASSUME rows' \in [Unknown -> Vector], NEW start \in Vector,
         it' = 0, rhs' = start, sim' = SimStart(start), x_ct' = ZeroCt,
         rr' = SquaredNorm(start), r_ct' = Packed(NTrain, start), p_ct' = Packed(NTrain, start)
  PROVE  LoopInv'
<1>1. /\ sim' \in SimState /\ Inner(sim'.r, sim'.p) = Inner(start, start)
      /\ sim'.x = ZeroVector /\ sim'.r = start /\ sim'.p = start
      /\ x_ct' = Packed(NTrain, ZeroVector) /\ rr' = Scalar(Inner(start, start))
      /\ \A i \in Unknown : Reduce(Inner(rows'[i], ZeroVector) + start[i]) = start[i]
  BY SimStarts
<1>2. RrValue' = Inner(start, start)
  BY <1>1 DEF RrValue
<1>3. SimInv'
  BY <1>1, <1>2 DEF SimInv
<1> QED
  BY <1>1, <1>2, <1>3 DEF LoopInv

LEMMA LoopAtEveryStep == CgTypes /\ LoopInv /\ [CgNext]_cgVars => LoopInv'
<1> SUFFICES ASSUME CgTypes, LoopInv, [CgNext]_cgVars PROVE LoopInv'
  OBVIOUS
<1>1. CASE Iterate
  BY <1>1, IterateRuns
<1>2. CASE FirstSolved
  <2> DEFINE start == CgRhs(train, "v")
  <2>1. /\ it' = 0 /\ rhs' = start /\ sim' = SimStart(start) /\ x_ct' = ZeroCt
        /\ rr' = SquaredNorm(start) /\ r_ct' = Packed(NTrain, start)
        /\ p_ct' = Packed(NTrain, start) /\ rows' = rows
    BY <1>2 DEF FirstSolved
  <2>2. rows \in [Unknown -> Vector] /\ start \in Vector
    BY CgSystemTypes DEF CgTypes, Vector
  <2> HIDE DEF start
  <2> QED
    BY <2>1, <2>2, LoopStartsNext
<1>3. CASE InverseRaises \/ SecondSolved \/ Schur \/ WeightsFromAlpha \/ CgPredict
  <2>1. pc' \notin {"u", "v"}
    BY <1>3 DEF InverseRaises, SecondSolved, Schur, WeightsFromAlpha, CgPredict, ScoreBatch
  <2> QED
    BY <2>1 DEF LoopInv
<1>4. CASE UNCHANGED cgVars
  <2>1. /\ pc' = pc /\ it' = it /\ rhs' = rhs /\ rows' = rows /\ sim' = sim
        /\ x_ct' = x_ct /\ r_ct' = r_ct /\ p_ct' = p_ct /\ rr' = rr
    BY <1>4 DEF cgVars, loopVars, systemVars
  <2> QED
    BY <2>1 DEF LoopInv, SimInv, RrValue
<1> QED
  BY <1>1, <1>2, <1>3, <1>4 DEF CgNext

LEMMA CgLoopInvariance == CgSpec => [](CgTypes /\ LoopInv)
<1>1. CgInit => CgTypes /\ LoopInv
  BY CgTypesAtTheStart, LoopAtTheStart
<1>2. CgTypes /\ LoopInv /\ [CgNext]_cgVars => CgTypes' /\ LoopInv'
  BY CgTypesAtEveryStep, LoopAtEveryStep
<1> QED
  BY <1>1, <1>2, PTL DEF CgSpec

(* For every prime, size, number of slots and of iterations: the encrypted  *)
(* iterate, residual, direction and r.r are those that _simulate_cg         *)
(* predicted, so every Chebyshev series gets the argument its interval was  *)
(* chosen for, in every iteration for which there is one.                   *)
THEOREM CgFollowsItsSimulation == CgSpec => []FollowsSimulation
<1>1. LoopInv => FollowsSimulation
  BY DEF LoopInv, FollowsSimulation, Scalar
<1> QED
  BY <1>1, CgLoopInvariance, PTL

LEMMA ResidualOfIterate ==
  ASSUME CgTypes, LoopInv, pc \in {"u", "v"}, NEW i \in Unknown
  PROVE  /\ Reduce(Times(rows, x_ct)[i] + r_ct[i]) = rhs[i]
         /\ r_ct[i] = sim.r[i] /\ Times(rows, x_ct)[i] \in Field
<1>1. /\ sim.x \in Vector /\ sim.r \in Vector
      /\ x_ct = Packed(NTrain, sim.x) /\ r_ct = Packed(NTrain, sim.r)
      /\ Reduce(Inner(rows[i], sim.x) + sim.r[i]) = rhs[i]
  BY DEF LoopInv, SimInv, SimState
<1>2. rows \in [Unknown -> Vector] /\ rows[i] \in Vector
  BY DEF CgTypes, Vector
<1>3. Times(rows, x_ct)[i] = Inner(rows[i], sim.x)
  BY <1>1, <1>2, TimesPacked, TimesType
<1>4. Inner(rows[i], sim.x) \in Field
  BY <1>1, <1>2, Products
<1>5. r_ct[i] = sim.r[i]
  BY <1>1, PackedSlots
<1> QED
  BY <1>1, <1>3, <1>4, <1>5

(* The residual that an iteration updates without looking at the system is  *)
(* the residual of its iterate, at every step of both solves.               *)
THEOREM CgResidualIsTrue == CgSpec => []TrueResidual
<1>1. CgTypes /\ LoopInv => TrueResidual
  BY ResidualOfIterate DEF TrueResidual
<1> QED
  BY <1>1, CgLoopInvariance, PTL

(* For every prime, size, number of slots and of iterations: a solve that   *)
(* meets a zero divisor, on which the program ends in a ZeroDivisionError,  *)
(* has an iterate that solves its system already, and loses it.             *)
THEOREM CgRaisesOnlySolved == CgSpec => []RaisesOnlySolved
<1>1. CgInit => RaisesOnlySolved
  BY DEF CgInit, RaisesOnlySolved
<1>2. CgTypes /\ LoopInv /\ RaisesOnlySolved /\ [CgNext]_cgVars => RaisesOnlySolved'
  <2> SUFFICES ASSUME CgTypes, LoopInv, RaisesOnlySolved, [CgNext]_cgVars, pc' = "raised"
               PROVE  \A i \in Unknown : Times(rows, x_ct)'[i] = rhs'[i]
    BY DEF RaisesOnlySolved
  <2>1. CASE InverseRaises
    <3>1. InLoop /\ ~Divisible /\ x_ct' = x_ct /\ rows' = rows /\ rhs' = rhs
      BY <2>1 DEF InverseRaises, InLoop, loopVars, systemVars
    <3>2. RrValue = 0 /\ sim.r = ZeroVector
      BY <3>1, DivisorsVanishTogether DEF Divisible
    <3>3. ASSUME NEW i \in Unknown PROVE Times(rows, x_ct)[i] = rhs[i]
      <4>1. /\ Reduce(Times(rows, x_ct)[i] + r_ct[i]) = rhs[i]
            /\ r_ct[i] = sim.r[i] /\ Times(rows, x_ct)[i] \in Field
        BY <3>1, ResidualOfIterate DEF InLoop
      <4>2. sim.r[i] = 0
        BY <3>2 DEF ZeroVector
      <4> DEFINE t == Times(rows, x_ct)[i]
      <4>3. t \in Field /\ t \in Int /\ Reduce(t + 0) = rhs[i]
        BY <4>1, <4>2, FieldInt
      <4> HIDE DEF t
      <4>4. t + 0 = t
        BY <4>3
      <4>5. t = rhs[i]
        BY <4>3, <4>4, ReduceField
      <4> QED
        BY <4>5 DEF t
    <3>4. Times(rows, x_ct)' = Times(rows, x_ct)
      BY <3>1 DEF Times
    <3> QED
      BY <3>1, <3>3, <3>4
  <2>2. CASE ~InverseRaises
    <3>1. pc = "raised" /\ x_ct' = x_ct /\ rows' = rows /\ rhs' = rhs
      <4>1. UNCHANGED cgVars
        BY <2>2 DEF CgNext, Iterate, FirstSolved, SecondSolved, Schur, WeightsFromAlpha,
                    CgPredict, ScoreBatch
      <4> QED
        BY <4>1 DEF cgVars, loopVars, systemVars
    <3>2. Times(rows, x_ct)' = Times(rows, x_ct)
      BY <3>1 DEF Times
    <3> QED
      BY <3>1, <3>2 DEF RaisesOnlySolved
  <2> QED
    BY <2>1, <2>2
<1> QED
  BY <1>1, <1>2, CgLoopInvariance, PTL DEF CgSpec

-----------------------------------------------------------------------------
(* After as many iterations as unknowns, CG has the solution. *)

\* A symmetric matrix on either side of a product. *)
Symmetric(a) == \A i, j \in Unknown : a[i][j] = a[j][i]

LEMMA SymmetricTimes ==
  ASSUME NEW a \in [Unknown -> Vector], Symmetric(a), NEW s \in Vector, NEW t \in Vector
  PROVE  Inner(Times(a, s), t) = Inner(Times(a, t), s)
<1> DEFINE left == [j \in Unknown |-> Total([i \in Unknown |-> t[i] * a[i][j]]) * s[j]]
           right == [i \in Unknown |-> t[i] * Total([j \in Unknown |-> a[i][j] * s[j]])]
<1>1. /\ Times(a, s) \in Vector /\ Times(a, t) \in Vector
  BY TimesType
<1>2. /\ Inner(Times(a, t), s) = Inner(s, Times(a, t))
      /\ Inner(Times(a, s), t) = Inner(t, Times(a, s))
  BY <1>1, Products
<1>3. IsFiniteSet(Unknown)
  BY Unknowns
<1>4. s \in [Unknown -> Int]
  BY FieldInt DEF Vector
<1>5. t \in [Unknown -> Int]
  BY FieldInt DEF Vector
<1>6. a \in [Unknown -> [Unknown -> Int]]
  <2>1. \A i \in Unknown : a[i] \in [Unknown -> Int]
    BY FieldInt DEF Vector
  <2> QED
    BY <2>1
<1>7. RowsFirst(Unknown, Unknown, t, a, s) = ColumnsFirst(Unknown, Unknown, t, a, s)
  BY ONLY <1>3, <1>4, <1>5, <1>6, SumBilinear
<1>8. Total(right) = Inner(t, Times(a, s))
  BY DEF Inner, Times
<1>9. Total(left) = Inner(Times(a, t), s)
  <2>1. ASSUME NEW j \in Unknown
        PROVE  Total([i \in Unknown |-> t[i] * a[i][j]]) = Times(a, t)[j]
    <3>1. \A i \in Unknown : t[i] * a[i][j] = a[j][i] * t[i]
      <4>1. \A i \in Unknown : t[i] \in Int /\ a[i][j] \in Int /\ a[i][j] = a[j][i]
        BY <1>5, <1>6 DEF Symmetric
      <4> QED
        BY <4>1
    <3>2. [i \in Unknown |-> t[i] * a[i][j]] = [i \in Unknown |-> a[j][i] * t[i]]
      BY <3>1
    <3>3. Times(a, t)[j] = Total([i \in Unknown |-> a[j][i] * t[i]])
      BY DEF Times
    <3> QED
      BY <3>2, <3>3
  <2>2. left = [j \in Unknown |-> Times(a, t)[j] * s[j]]
    BY <2>1
  <2> HIDE DEF left
  <2> QED
    BY <2>2 DEF Inner
<1>10. Total(left) = Total(right)
  BY <1>7 DEF RowsFirst, ColumnsFirst
<1> QED
  BY <1>2, <1>8, <1>9, <1>10

(* The numbers of one iteration: step times q.Aq is r.r, and the multiple of *)
(* the direction makes up for what the new residual has along A q.           *)
LEMMA StepNotZero ==
  ASSUME NEW old \in Field \ {0}, NEW qAq \in Field \ {0},
         NEW st, st = Reduce(old * Reciprocal[qAq])
  PROVE  st \in Field \ {0} /\ Reduce(st * qAq) = old
<1>1. Reciprocal[qAq] \in Field \ {0}
  BY ReciprocalNotZero
<1>2. st \in Field \ {0}
  BY <1>1, NonzeroProduct
<1> QED
  BY <1>2, Quotient

LEMMA DirectionCancels ==
  ASSUME NEW old \in Field \ {0}, NEW qAq \in Field \ {0}, NEW new \in Field, NEW m \in Field,
         NEW st, st = Reduce(old * Reciprocal[qAq]), new = Reduce(0 + (-st) * m),
         NEW beta, beta = Reduce(new * Reciprocal[old])
  PROVE  beta \in Field /\ Reduce(m + beta * qAq) = 0
<1> DEFINE inv == Reciprocal[old]
<1>0. st \in Field \ {0} /\ Reduce(st * qAq) = old
  BY StepNotZero
<1>1. inv \in Int /\ Reduce(old * inv) = 1 /\ beta = Reduce(new * inv)
  BY ReciprocalType, FieldInt
<1> HIDE DEF inv
<1>2. old \in Int /\ qAq \in Int /\ new \in Int /\ m \in Int /\ st \in Int
  BY <1>0, FieldInt
<1>3. new * inv \in Int /\ old * inv \in Int
  BY <1>1, <1>2
<1>4. beta \in Field /\ beta \in Int
  BY <1>1, <1>3, ReduceType
<1> DEFINE total == m + beta * qAq
           bo == beta * old
<1>5. total \in Int /\ Reduce(total) \in Field
  <2>1. total \in Int
    BY <1>2, <1>4
  <2> QED
    BY <2>1, ReduceType
<1>6. Reduce(bo) = new
  <2>1. (new * inv) * old = (old * inv) * new
    BY <1>1, <1>2
  <2>2. Reduce(Reduce(new * inv) * old) = Reduce((new * inv) * old)
    BY <1>2, <1>3, ReduceMult
  <2>3. Reduce(Reduce(old * inv) * new) = Reduce((old * inv) * new)
    BY <1>2, <1>3, ReduceMult
  <2>4. Reduce(old * inv) * new = new /\ Reduce(new) = new
    BY <1>1, <1>2, ReduceField
  <2> QED
    BY <1>1, <2>1, <2>2, <2>3, <2>4
<1>7. Reduce(0 + (-st) * total) = 0
  <2> DEFINE neg == 0 + (-st) * m
             sq == st * qAq
             bsq == beta * sq
  <2>1. neg \in Int /\ sq \in Int /\ bsq \in Int /\ bo \in Int
    BY <1>2, <1>4
  <2>2. 0 + (-st) * total = neg - bsq
    BY <1>2, <1>4
  <2>3. Reduce(neg) = Reduce(bo)
    BY <1>6
  <2>4. Reduce(bsq) = Reduce(bo)
    <3>1. Reduce(sq) = Reduce(old)
      BY <1>0, ReduceField
    <3>2. sq \in Int
      BY <2>1
    <3>3. old \in Int
      BY <1>2
    <3>4. beta \in Int
      BY <1>4
    <3> HIDE DEF sq
    <3>5. Reduce(sq * beta) = Reduce(old * beta)
      BY ONLY <3>1, <3>2, <3>3, <3>4, CongruentTimes
    <3>6. sq * beta = beta * sq /\ old * beta = beta * old
      BY ONLY <3>2, <3>3, <3>4
    <3> QED
      BY <3>5, <3>6
  <2> HIDE DEF neg, sq, bsq, total, bo
  <2>5. Reduce(neg - bsq) = Reduce(neg - bo)
    BY <2>1, <2>4, CongruentMinus
  <2>6. PICK g \in Int : P * g \in Int /\ neg = bo + P * g
    BY <2>1, <2>3, CongruentShift
  <2>7. neg - bo \in Int /\ neg - bo = P * g
    BY <2>1, <2>6
  <2>8. Reduce(neg - bo) = 0
    BY <2>7, ZeroMultiple
  <2> QED
    BY <2>2, <2>5, <2>8
<1> DEFINE rt == Reduce(total)
<1>8. Reduce(0 + (-st) * rt) = 0
  <2> DEFINE ns == -st
  <2>1. ns \in Int /\ Reduce(0 + ns * total) = 0
    BY <1>2, <1>7
  <2>2. Reduce(rt) = Reduce(total) /\ rt \in Int
    BY <1>5, FieldReduced
  <2> HIDE DEF ns, rt, total
  <2>3. Reduce(ns * rt) = Reduce(ns * total)
    BY <1>5, <2>1, <2>2, Congruent
  <2>4. 0 + ns * rt = ns * rt /\ 0 + ns * total = ns * total
    BY <1>5, <2>1, <2>2
  <2> QED
    BY <2>1, <2>3, <2>4 DEF ns
<1>9. rt \in Field
  BY <1>5
<1> HIDE DEF rt, total
<1>10. rt = 0
  BY <1>0, <1>8, <1>9, FactorZero
<1> QED
  BY <1>4, <1>10 DEF rt, total

(* What an iteration relies on: F are the residuals so far, t is the present *)
(* one and q the direction.  The residuals are orthogonal to each other; the *)
(* direction is conjugate to the earlier ones; and A takes an earlier        *)
(* residual, and the rest of the direction, into the span of the residuals.  *)
ConjugateTo(a, F, t, q) ==
  /\ F \subseteq Vector /\ IsFiniteSet(F)
  /\ \A s \in F : /\ Inner(s, s) # 0
                  /\ Inner(s, t) = 0
                  /\ Inner(Times(a, s), q) = 0
  /\ \A s, z \in F : s # z => Inner(s, z) = 0
  /\ Inner(Times(a, q), q) = Inner(Times(a, q), t)
  /\ \A z \in Vector :
       Inner(t, z) = 0 /\ (\A s \in F : Inner(s, z) = 0) =>
         /\ \A s \in F : Inner(Times(a, s), z) = 0
         /\ Inner(Times(a, q), z) = Inner(Times(a, t), z)

LEMMA ConjugateAtTheStart ==
  ASSUME NEW a, NEW t \in Vector
  PROVE  ConjugateTo(a, {}, t, t)
BY FS_EmptySet DEF ConjugateTo

\* Adding a multiple of zero.
LEMMA NothingAdded ==
  ASSUME NEW m \in Field, NEW z \in Int
  PROVE  Reduce(m + z * 0) = m /\ Reduce(0 + z * 0) = 0
<1>1. m \in Int
  BY FieldInt
<1>2. m + z * 0 = m /\ 0 + z * 0 = 0
  BY <1>1
<1> QED
  BY <1>2, ReduceField, PType

\* The numbers and vectors of one iteration, from residual t and direction q.
Recurrence(a, t, q, old, qAq, st, nt, new, beta, nq) ==
  /\ old = Inner(t, t) /\ old # 0 /\ Inner(t, q) = old
  /\ qAq = Inner(q, Times(a, q)) /\ qAq # 0
  /\ st = Reduce(old * Reciprocal[qAq])
  /\ nt = Plus(t, -st, Times(a, q))
  /\ new = Inner(nt, nt)
  /\ beta = Reduce(new * Reciprocal[old])
  /\ nq = Plus(nt, beta, q)

LEMMA ConjugateGrows ==
  ASSUME NEW a, NEW F, NEW t, NEW q, NEW old, NEW qAq, NEW st, NEW nt, NEW new, NEW beta, NEW nq,
         a \in [Unknown -> Vector], Symmetric(a), t \in Vector, q \in Vector,
         ConjugateTo(a, F, t, q), Recurrence(a, t, q, old, qAq, st, nt, new, beta, nq)
  PROVE  ConjugateTo(a, F \cup {t}, nt, nq) /\ t \notin F /\ nt \in Vector
<1> USE DEF Recurrence
<1> DEFINE Aq == Times(a, q)
<1>1. Aq \in Vector
  BY TimesType
<1>2. qAq = Inner(Aq, q) /\ qAq \in Field \ {0} /\ old \in Field \ {0}
  BY <1>1, Products
<1>3. st \in Field \ {0} /\ st \in Int /\ -st \in Int
  <2>1. st \in Field \ {0}
    BY <1>2, StepNotZero
  <2> QED
    BY <2>1, FieldInt
<1>4. nt \in Vector
  BY <1>1, <1>3, PlusType
<1>5. ASSUME NEW z \in Vector
      PROVE  /\ Inner(nt, z) = Reduce(Inner(t, z) + (-st) * Inner(Aq, z))
             /\ Inner(nt, z) = Inner(z, nt) /\ Inner(t, z) \in Field /\ Inner(Aq, z) \in Field
  BY <1>1, <1>3, <1>4, InnerPlus, Products
<1>6. new \in Field
  BY <1>4, Products
<1> DEFINE m == Inner(Aq, nt)
<1>7. Inner(Aq, t) = qAq
  BY <1>2 DEF ConjugateTo
<1>8. Inner(t, nt) = 0 /\ Inner(nt, t) = 0
  <2>1. Inner(nt, t) = Reduce(old + (-st) * qAq)
    BY <1>5, <1>7
  <2>2. Reduce(old + (-st) * qAq) = 0
    BY <1>2, QuotientCancels
  <2> QED
    BY <1>5, <2>1, <2>2
<1>9. ASSUME NEW s \in F
      PROVE  s \in Vector /\ Inner(s, nt) = 0
  <2>1. s \in Vector /\ Inner(s, t) = 0 /\ Inner(Times(a, s), q) = 0
    BY DEF ConjugateTo
  <2>2. Inner(t, s) = 0
    BY <2>1, Products
  <2>3. Inner(Aq, s) = 0
    BY <2>1, SymmetricTimes
  <2>4. Inner(nt, s) = Reduce(0 + (-st) * 0)
    BY <1>5, <2>1, <2>2, <2>3
  <2>5. Reduce(0 + (-st) * 0) = 0
    BY <1>3, NothingAdded, PType
  <2> QED
    BY <1>5, <2>1, <2>4, <2>5
<1>10. m \in Field /\ new = Reduce(0 + (-st) * m)
  BY <1>4, <1>5, <1>8
<1>11. beta \in Field /\ beta \in Int /\ Reduce(m + beta * qAq) = 0
  <2>1. beta \in Field /\ Reduce(m + beta * qAq) = 0
    <3> HIDE DEF m
    <3> QED
      BY <1>2, <1>6, <1>10, DirectionCancels
  <2> QED
    BY <2>1, FieldInt
<1>12. nq \in Vector
  BY <1>4, <1>11, PlusType
<1> HIDE DEF m
<1>13. ASSUME NEW z \in Vector
       PROVE  Inner(z, nq) = Reduce(Inner(z, nt) + beta * Inner(z, q))
  BY <1>4, <1>11, InnerPlus
<1>14. Inner(Aq, nq) = 0
  BY <1>1, <1>2, <1>11, <1>13 DEF m
<1>15. ASSUME NEW z \in Vector
       PROVE  /\ Times(a, z) \in Vector
              /\ Inner(Times(a, z), nt) \in Field
              /\ Inner(Times(a, z), nt) = Inner(Times(a, nt), z)
              /\ Inner(Times(a, z), nq) = Inner(Times(a, nq), z)
              /\ Inner(Times(a, z), q) = Inner(Aq, z)
              /\ Inner(Times(a, z), t) = Inner(Times(a, t), z)
  BY <1>4, <1>12, TimesType, Products, SymmetricTimes
<1> HIDE DEF Aq
<1>16. Inner(Times(a, nq), nq) = Inner(Times(a, nq), nt)
  <2> DEFINE y == Times(a, nq)
  <2>1. /\ y \in Vector /\ Inner(y, nt) \in Field /\ Inner(y, q) = 0
    BY <1>12, <1>14, <1>15
  <2>2. Inner(y, nq) = Reduce(Inner(y, nt) + beta * Inner(y, q))
    BY <1>13, <2>1
  <2> HIDE DEF y
  <2>3. Reduce(Inner(y, nt) + beta * 0) = Inner(y, nt)
    BY <1>11, <2>1, NothingAdded
  <2> QED
    BY <2>1, <2>2, <2>3 DEF y
<1>17. /\ \A s \in F : Inner(Times(a, s), nt) = 0
       /\ m = Inner(Times(a, t), nt)
  BY <1>4, <1>8, <1>9 DEF ConjugateTo, m, Aq
<1>18. ASSUME NEW s \in F PROVE Inner(Times(a, s), nq) = 0
  <2>1. Inner(Times(a, s), q) = 0 /\ Inner(Times(a, s), nt) = 0
    BY <1>17 DEF ConjugateTo
  <2>2. Inner(Times(a, s), nq) = Reduce(0 + beta * 0)
    BY <1>9, <1>13, <1>15, <2>1
  <2> QED
    BY <1>11, <2>2, NothingAdded, PType
<1>19. Inner(Times(a, t), nq) = 0
  <2>1. Inner(Times(a, t), q) = qAq
    BY <1>7, <1>15
  <2>2. Inner(Times(a, t), nq) = Reduce(m + beta * qAq)
    BY <1>13, <1>15, <1>17, <2>1
  <2> QED
    BY <1>11, <2>2
<1>20. t \notin F
  BY DEF ConjugateTo
<1>21. ASSUME NEW z \in Vector, Inner(nt, z) = 0, \A s \in F \cup {t} : Inner(s, z) = 0
       PROVE  /\ \A s \in F \cup {t} : Inner(Times(a, s), z) = 0
              /\ Inner(Times(a, nq), z) = Inner(Times(a, nt), z)
  <2>1. /\ \A s \in F : Inner(Times(a, s), z) = 0
        /\ Inner(Aq, z) = Inner(Times(a, t), z)
    BY <1>21 DEF ConjugateTo, Aq
  <2>2. Inner(Aq, z) = 0
    <3> DEFINE n == Inner(Aq, z)
    <3>1. n \in Field /\ Reduce(0 + (-st) * n) = 0
      BY <1>5, <1>21
    <3> HIDE DEF n
    <3>2. n = 0
      BY <1>3, <3>1, FactorZero
    <3> QED
      BY <3>2 DEF n
  <2>3. Inner(Times(a, nq), z) = Reduce(Inner(Times(a, z), nt) + beta * 0)
    BY <1>13, <1>15, <2>2
  <2>4. Reduce(Inner(Times(a, z), nt) + beta * 0) = Inner(Times(a, z), nt)
    <3> DEFINE n == Inner(Times(a, z), nt)
    <3>1. n \in Field
      BY <1>15
    <3>2. beta \in Int
      BY <1>11
    <3> HIDE DEF n
    <3>3. Reduce(n + beta * 0) = n
      BY ONLY <3>1, <3>2, NothingAdded
    <3> QED
      BY <3>3 DEF n
  <2> QED
    BY <1>15, <2>1, <2>2, <2>3, <2>4
<1>22. F \cup {t} \subseteq Vector /\ IsFiniteSet(F \cup {t})
  <2>1. F \subseteq Vector /\ IsFiniteSet(F)
    BY DEF ConjugateTo
  <2> QED
    BY <2>1, FS_AddElement
<1>23. \A s \in F \cup {t} : Inner(s, s) # 0 /\ Inner(s, nt) = 0 /\ Inner(Times(a, s), nq) = 0
  BY <1>8, <1>9, <1>18, <1>19 DEF ConjugateTo
<1>24. \A s, z \in F \cup {t} : s # z => Inner(s, z) = 0
  <2>1. /\ \A s, z \in F : s # z => Inner(s, z) = 0
        /\ \A s \in F : s \in Vector /\ Inner(s, t) = 0
    BY DEF ConjugateTo
  <2>2. \A s \in F : Inner(t, s) = 0
    BY <2>1, Products
  <2> QED
    BY <2>1, <2>2
<1> HIDE DEF ConjugateTo
<1>25. ConjugateTo(a, F \cup {t}, nt, nq)
  BY <1>16, <1>21, <1>22, <1>23, <1>24 DEF ConjugateTo
<1> QED
  BY <1>4, <1>20, <1>25

(* There are finitely many vectors, so a map from vectors onto vectors tells *)
(* them apart: as many orthogonal vectors with non-zero squares as unknowns  *)
(* leave nothing but zero orthogonal to them all.                            *)
LEMMA VectorsFinite == IsFiniteSet(Vector)
<1> DEFINE graph == [f \in Vector |-> {<<i, f[i]>> : i \in Unknown}]
           Graphs == SUBSET (Unknown \X Field)
<1>1. IsFiniteSet(Field)
  BY PType, FS_Interval DEF Field
<1>2. IsFiniteSet(Graphs)
  BY <1>1, Unknowns, FS_Product, FS_SUBSET
<1>3. graph \in [Vector -> Graphs]
  <2>1. ASSUME NEW f \in Vector
        PROVE  {<<i, f[i]>> : i \in Unknown} \in Graphs
    BY DEF Vector
  <2> QED
    BY <2>1
<1>4. ASSUME NEW f \in Vector, NEW g \in Vector, graph[f] = graph[g]
      PROVE  f = g
  <2>1. ASSUME NEW i \in Unknown PROVE f[i] = g[i]
    <3>1. <<i, f[i]>> \in graph[g]
      BY <1>4
    <3> QED
      BY <3>1
  <2> QED
    BY <2>1 DEF Vector
<1>5. graph \in Injection(Vector, Graphs)
  <2> HIDE DEF graph, Graphs
  <2>1. DOMAIN graph = Vector
    BY <1>3
  <2> QED
    BY <1>3, <1>4, <2>1 DEF Injection, IsInjective
<1> QED
  BY <1>2, <1>5, FS_Injection

\* The coordinates of a vector along others.
Along(h, y) == [i \in Unknown |-> Inner(h[i], y)]

LEMMA OrthogonalReaches ==
  ASSUME NEW h \in [Unknown -> Vector],
         \A i \in Unknown : Inner(h[i], h[i]) # 0,
         \A i, j \in Unknown : i # j => Inner(h[i], h[j]) = 0,
         NEW g \in Vector
  PROVE  \E y \in Vector : Along(h, y) = g
<1> DEFINE nn(i) == Inner(h[i], h[i])
           cc == [i \in Unknown |-> Reduce(g[i] * Reciprocal[nn(i)])]
           y == [j \in Unknown |-> Total([i \in Unknown |-> cc[i] * h[i][j]])]
<1>1. ASSUME NEW i \in Unknown
      PROVE  /\ nn(i) \in Field \ {0} /\ g[i] \in Field
             /\ cc[i] \in Field /\ Reduce(cc[i] * nn(i)) = g[i]
  <2>1. nn(i) \in Field \ {0} /\ g[i] \in Field
    BY Products DEF Vector
  <2>2. cc[i] = Reduce(g[i] * Reciprocal[nn(i)])
    OBVIOUS
  <2> HIDE DEF nn, cc
  <2> QED
    BY <2>1, <2>2, Quotient
<1>2. cc \in [Unknown -> Int]
  BY <1>1, FieldInt
<1>3. IsFiniteSet(Unknown)
  BY Unknowns
<1>4. h \in [Unknown -> [Unknown -> Int]]
  <2>1. ASSUME NEW i \in Unknown PROVE h[i] \in [Unknown -> Int]
    BY FieldInt DEF Vector
  <2> QED
    BY <2>1
<1> HIDE DEF cc
<1>5. y \in Vector
  <2>1. ASSUME NEW j \in Unknown
        PROVE  Total([i \in Unknown |-> cc[i] * h[i][j]]) \in Field
    <3> DEFINE col == [i \in Unknown |-> cc[i] * h[i][j]]
    <3>1. col \in [Unknown -> Int]
      BY <1>2, <1>4
    <3> HIDE DEF col
    <3>2. Total(col) \in Field
      BY <1>3, <3>1, TotalType
    <3> QED
      BY <3>2 DEF col
  <2> QED
    BY <2>1 DEF Vector
<1>6. ASSUME NEW t \in Unknown
      PROVE  Inner(h[t], y) = g[t]
  <2> DEFINE z == h[t]
             f == [i \in Unknown |-> cc[i] * Total([j \in Unknown |-> h[i][j] * z[j]])]
  <2>1. z \in Vector /\ z \in [Unknown -> Int]
    BY <1>4
  <2>2. Inner(z, y) = Inner(y, z)
    BY <1>5, <2>1, Products
  <2> HIDE DEF z
  <2>3. RowsFirst(Unknown, Unknown, cc, h, z) = ColumnsFirst(Unknown, Unknown, cc, h, z)
    BY <1>2, <1>3, <1>4, <2>1, SumBilinear
  <2>4. Inner(y, z) = RowsFirst(Unknown, Unknown, cc, h, z)
    BY DEF Inner, RowsFirst
  <2>5. Total(f) = ColumnsFirst(Unknown, Unknown, cc, h, z)
    BY DEF ColumnsFirst
  <2>6. ASSUME NEW i \in Unknown
        PROVE  /\ f[i] = cc[i] * Inner(h[i], z)
               /\ cc[i] \in Int /\ Inner(h[i], z) \in Int
    <3>1. Inner(h[i], z) \in Field
      BY <2>1, Products
    <3> QED
      BY <1>2, <3>1, FieldInt DEF Inner
  <2> HIDE DEF f
  <2>7. \A i \in Unknown : f[i] \in Int
    BY <2>6
  <2>8. f \in [Unknown -> Int]
    BY <2>7 DEF f
  <2>9. ASSUME NEW i \in Unknown, i # t PROVE f[i] = 0
    <3>1. Inner(h[i], z) = 0
      BY <2>9 DEF z
    <3> QED
      BY <2>6, <3>1
  <2>10. SumFunction(f) = f[t]
    BY <1>3, <2>8, <2>9, SumSingle
  <2>11. f[t] = cc[t] * nn(t)
    BY <2>6 DEF z
  <2>12. Total(f) = g[t]
    BY <1>1, <2>10, <2>11 DEF Total
  <2> QED
    BY <2>2, <2>3, <2>4, <2>5, <2>12 DEF z
<1>7. Along(h, y) = g
  <2> HIDE DEF y
  <2>1. g = [i \in Unknown |-> g[i]]
    BY DEF Vector
  <2> QED
    BY <1>6, <2>1 DEF Along
<1> QED
  BY <1>5, <1>7

\* What is orthogonal to a whole family of as many as there are unknowns is zero.
LEMMA OrthogonalFamily ==
  ASSUME NEW F \in SUBSET Vector, IsFiniteSet(F), Cardinality(F) = NTrain,
         \A s \in F : Inner(s, s) # 0,
         \A s, t \in F : s # t => Inner(s, t) = 0,
         NEW z \in Vector, \A s \in F : Inner(s, z) = 0
  PROVE  z = ZeroVector
<1>1. Cardinality(Unknown) = NTrain
  <2>1. NTrain \in Int /\ NTrain - 1 \in Int /\ NTrain >= 1
    BY ShapeAssumption
  <2>2. Cardinality(0..(NTrain - 1)) = IF 0 > NTrain - 1 THEN 0 ELSE (NTrain - 1) - 0 + 1
    BY <2>1, FS_Interval
  <2> QED
    BY <2>1, <2>2 DEF Unknown
<1>2. PICK h : h \in Bijection(Unknown, F)
  BY <1>1, Unknowns, FS_SameCardinalityBij DEF ExistsBijection
<1>3. /\ h \in [Unknown -> F]
      /\ \A i, j \in Unknown : i # j => h[i] # h[j]
  BY <1>2, Fun_BijectionProperties DEF Bijection, Injection, IsInjective
<1>4. /\ h \in [Unknown -> Vector]
      /\ \A i \in Unknown : Inner(h[i], h[i]) # 0
      /\ \A i, j \in Unknown : i # j => Inner(h[i], h[j]) = 0
      /\ \A i \in Unknown : Inner(h[i], z) = 0
  BY <1>3
<1> DEFINE phi == [y \in Vector |-> Along(h, y)]
<1>5. phi \in [Vector -> Vector]
  <2>1. ASSUME NEW y \in Vector PROVE Along(h, y) \in Vector
    <3>1. ASSUME NEW i \in Unknown PROVE Inner(h[i], y) \in Field
      BY <1>4, Products
    <3> QED
      BY <3>1 DEF Along, Vector
  <2> QED
    BY <2>1
<1>6. ASSUME NEW g \in Vector PROVE \E y \in Vector : phi[y] = g
  <2>1. \E y \in Vector : Along(h, y) = g
    BY <1>4, OrthogonalReaches
  <2> QED
    BY <2>1
<1>7. phi[z] = phi[ZeroVector]
  <2>1. ASSUME NEW i \in Unknown PROVE Inner(h[i], z) = Inner(h[i], ZeroVector)
    BY <1>4, InnerZero
  <2>2. Along(h, z) = Along(h, ZeroVector)
    BY <2>1 DEF Along
  <2> QED
    BY <2>2, ZeroType
<1> HIDE DEF phi
<1>8. phi \in Surjection(Vector, Vector)
  BY <1>5, <1>6 DEF Surjection
<1>9. phi \in Injection(Vector, Vector)
  BY <1>8, VectorsFinite, FS_SurjSameCardinalityImpliesInj
<1> QED
  BY <1>7, <1>9, ZeroType DEF Injection, IsInjective

\* The kernel is symmetric, and stays so when scaled.
LEMMA SystemSymmetric ==
  ASSUME NEW t \in Clients
  PROVE  \A i, j \in Index : SystemMatrix(t)[i][j] = SystemMatrix(t)[j][i]
<1> SUFFICES ASSUME NEW i \in Index, NEW j \in Index
             PROVE  SystemMatrix(t)[i][j] = SystemMatrix(t)[j][i]
  OBVIOUS
<1>1. CASE i = 0 \/ j = 0
  BY <1>1 DEF SystemMatrix
<1>2. CASE i # 0 /\ j # 0
  <2>1. i \in 1..NTrain /\ j \in 1..NTrain
    BY <1>2, Sizes DEF Index
  <2>2. Dot(t.X[i], t.X[j]) = Dot(t.X[j], t.X[i])
    <3>1. \A f \in 0..(D - 1) : t.X[i][f] * t.X[j][f] = t.X[j][f] * t.X[i][f]
      <4>1. \A f \in 0..(D - 1) : t.X[i][f] \in Int /\ t.X[j][f] \in Int
        BY <2>1, ClientData
      <4> QED
        BY <4>1
    <3> QED
      BY <3>1 DEF Dot
  <2> DEFINE d == Dot(t.X[i], t.X[j])
  <2>3. t.y[i] \in Int /\ t.y[j] \in Int /\ d \in Int
    BY <2>1, ClientData, DotType
  <2> HIDE DEF d
  <2>4. t.y[i] * t.y[j] * d = t.y[j] * t.y[i] * d
    BY <2>3
  <2>5. /\ SystemMatrix(t)[i][j] = Reduce(t.y[i] * t.y[j] * d + IF i = j THEN InvGamma ELSE 0)
        /\ SystemMatrix(t)[j][i] = Reduce(t.y[j] * t.y[i] * d + IF i = j THEN InvGamma ELSE 0)
    BY <1>2, <2>2 DEF SystemMatrix, d
  <2> QED
    BY <2>4, <2>5
<1> QED
  BY <1>1, <1>2

LEMMA KernelSymmetric ==
  ASSUME NEW t \in Clients
  PROVE  KAug(t) \in [Unknown -> Vector] /\ Symmetric(KAug(t))
<1>1. SystemMatrix(t) \in [Index -> [Index -> Field]]
  BY SystemTypes
<1>2. KAug(t) \in [Unknown -> Vector]
  BY <1>1, Unknowns DEF KAug, Vector
<1>3. ASSUME NEW i \in Unknown, NEW j \in Unknown PROVE KAug(t)[i][j] = KAug(t)[j][i]
  <2>1. i + 1 \in Index /\ j + 1 \in Index
    BY Unknowns
  <2>2. /\ KAug(t)[i][j] = SystemMatrix(t)[i + 1][j + 1]
        /\ KAug(t)[j][i] = SystemMatrix(t)[j + 1][i + 1]
    BY DEF KAug
  <2> QED
    BY <2>1, <2>2, SystemSymmetric
<1> QED
  BY <1>2, <1>3 DEF Symmetric

LEMMA CgMatrixSymmetric ==
  ASSUME CgTypes
  PROVE  CgMatrix(train) \in [Unknown -> Vector] /\ Symmetric(CgMatrix(train))
<1>1. train \in Clients /\ Preconditioned
  BY DEF CgTypes
<1>2. CgMatrix(train) \in [Unknown -> Vector]
  BY <1>1, CgSystemTypes DEF Vector
<1>3. /\ Scaling(train) \in [Unknown -> Field]
      /\ KAug(train) \in [Unknown -> Vector] /\ Symmetric(KAug(train))
  BY <1>1, ScalingType, KernelSymmetric
<1>4. ASSUME NEW i \in Unknown, NEW j \in Unknown
      PROVE  CgMatrix(train)[i][j] = CgMatrix(train)[j][i]
  <2> DEFINE e == KAug(train)[i][j]
             m == Scaling(train)[i]
             n == Scaling(train)[j]
  <2>1. e \in Int /\ m \in Int /\ n \in Int /\ e = KAug(train)[j][i]
    BY <1>3, FieldInt DEF Vector, Symmetric
  <2>2. CgMatrix(train)[i][j] = Reduce(e * m * n) /\ CgMatrix(train)[j][i] = Reduce(e * n * m)
    BY <2>1 DEF CgMatrix
  <2> HIDE DEF e, m, n
  <2>3. e * m * n = e * n * m
    BY <2>1
  <2> QED
    BY <2>2, <2>3
<1> QED
  BY <1>2, <1>4 DEF Symmetric

(* The residuals of a running solve: either it has converged, or as many     *)
(* residuals as iterations lie behind it, all orthogonal to each other.      *)
Residuals(n) == {F \in SUBSET Vector : IsFiniteSet(F) /\ Cardinality(F) = n}
History ==
  \/ sim.r = ZeroVector
  \/ it < NTrain /\ \E F \in Residuals(it) : ConjugateTo(rows, F, sim.r, sim.p)
HistoryInv ==
  pc \in {"u", "v"} =>
    /\ rows = CgMatrix(train) /\ rhs = CgRhs(train, pc)
    /\ History

LEMMA ScalingKept ==
  ASSUME train' = train, precond' = precond
  PROVE  Scaling(train)' = Scaling(train) /\ CgMatrix(train)' = CgMatrix(train)
<1>1. Scaling(train)' = Scaling(train)
  BY DEF Scaling
<1> QED
  BY <1>1 DEF CgMatrix

LEMMA HistoryGrows ==
  ASSUME CgTypes, LoopInv, HistoryInv, Iterate
  PROVE  History'
<1>1. /\ SimInv /\ rows \in [Unknown -> Vector]
      /\ sim.x \in Vector /\ sim.r \in Vector /\ sim.p \in Vector
      /\ RrValue \in Field \ {0} /\ PApValue \in Field \ {0}
  BY IterateDivides, LoopFacts
<1>2. pc \in {"u", "v"} /\ it' = it + 1 /\ sim' = SimStep(rows, sim) /\ rows' = rows
  BY DEF Iterate
<1>3. Symmetric(rows)
  BY <1>2, CgMatrixSymmetric DEF HistoryInv
<1>4. sim.r # ZeroVector
  <2>1. SUFFICES ASSUME sim.r = ZeroVector PROVE FALSE
    OBVIOUS
  <2>2. Inner(sim.r, ZeroVector) = 0
    BY <1>1, InnerZero
  <2> QED
    BY <2>1, <2>2, IterateDivides DEF RrValue
<1>5. it < NTrain /\ \E F \in Residuals(it) : ConjugateTo(rows, F, sim.r, sim.p)
  BY <1>2, <1>4 DEF HistoryInv, History
<1>6. PICK F \in Residuals(it) : ConjugateTo(rows, F, sim.r, sim.p)
  BY <1>5
<1> DEFINE after == SimStep(rows, sim)
           old == RrValue
           qAq == PApValue
           st == Reduce(old * Reciprocal[qAq])
           new == Inner(after.r, after.r)
           beta == Reduce(new * Reciprocal[old])
<1>7. /\ sim \in SimState /\ rhs \in Vector /\ old # 0 /\ qAq # 0
      /\ old = Inner(sim.r, sim.r) /\ qAq = Inner(sim.p, Times(rows, sim.p))
      /\ Inner(sim.r, sim.p) = old
      /\ \A i \in Unknown : Reduce(Inner(rows[i], sim.x) + sim.r[i]) = rhs[i]
      /\ st = Reduce(old * Reciprocal[qAq]) /\ beta = Reduce(new * Reciprocal[old])
      /\ after = SimStep(rows, sim) /\ new = Inner(after.r, after.r)
  BY <1>1 DEF SimInv, PApValue, RrValue
<1> HIDE DEF after, old, qAq, st, new, beta
<1>8. /\ after.r = Plus(sim.r, -st, Times(rows, sim.p))
      /\ after.p = Plus(after.r, beta, sim.p)
  BY <1>1, <1>7, SimSteps
<1> DEFINE nt == after.r
           nq == after.p
           t == sim.r
           q == sim.p
<1>9. /\ t \in Vector /\ q \in Vector /\ ConjugateTo(rows, F, t, q)
      /\ old = Inner(t, t) /\ Inner(t, q) = old /\ qAq = Inner(q, Times(rows, q))
      /\ nt = Plus(t, -st, Times(rows, q)) /\ nq = Plus(nt, beta, q) /\ new = Inner(nt, nt)
  BY <1>1, <1>6, <1>7, <1>8
<1> HIDE DEF nt, nq, t, q
<1>10. ConjugateTo(rows, F \cup {t}, nt, nq) /\ t \notin F /\ nt \in Vector
  <2>1. rows \in [Unknown -> Vector]
    BY <1>1
  <2>2. t \in Vector
    BY <1>9
  <2>3. q \in Vector
    BY <1>9
  <2>4. ConjugateTo(rows, F, t, q)
    BY <1>9
  <2>5. Recurrence(rows, t, q, old, qAq, st, nt, new, beta, nq)
    BY <1>7, <1>9 DEF Recurrence
  <2> QED
    BY ONLY <1>3, <2>1, <2>2, <2>3, <2>4, <2>5, ConjugateGrows
<1>11. F \cup {t} \in Residuals(it + 1)
  <2>1. F \subseteq Vector /\ IsFiniteSet(F) /\ Cardinality(F) = it
    BY <1>6 DEF Residuals
  <2>2. IsFiniteSet(F \cup {t}) /\ Cardinality(F \cup {t}) = it + 1
    BY <1>10, <2>1, FS_AddElement
  <2> QED
    BY <1>9, <2>1, <2>2 DEF Residuals
<1>12. it \in Nat /\ NTrain \in Nat /\ it + 1 <= NTrain
  BY <1>1, <1>5, Sizes DEF SimInv
<1>13. CASE it + 1 < NTrain
  BY <1>2, <1>7, <1>10, <1>11, <1>13 DEF History, nt, nq
<1>14. CASE it + 1 = NTrain
  <2> DEFINE G == F \cup {t}
  <2>1. G \in SUBSET Vector /\ IsFiniteSet(G) /\ Cardinality(G) = NTrain
    BY <1>11, <1>14 DEF Residuals
  <2>2. /\ \A s \in G : Inner(s, s) # 0
        /\ \A s, z \in G : s # z => Inner(s, z) = 0
        /\ \A s \in G : Inner(s, nt) = 0
    BY <1>10 DEF ConjugateTo
  <2> HIDE DEF G
  <2>3. nt = ZeroVector
    BY <1>10, <2>1, <2>2, OrthogonalFamily
  <2> QED
    BY <1>2, <1>7, <2>3 DEF History, nt, ZeroVector
<1> QED
  BY <1>12, <1>13, <1>14

LEMMA HistoryAtTheStart == CgInit => HistoryInv
<1> SUFFICES ASSUME CgInit PROVE HistoryInv
  OBVIOUS
<1>1. CgTypes /\ pc = "u"
  BY CgTypesAtTheStart DEF CgInit
<1>2. /\ rows = CgMatrix(train) /\ rhs = CgRhs(train, pc) /\ it = 0 /\ sim = SimStart(rhs)
  BY DEF CgInit, Start
<1>3. rhs \in Vector
  BY <1>1, <1>2, CgSystemTypes DEF CgTypes, Vector
<1>4. sim.r = rhs /\ sim.p = rhs
  BY <1>2 DEF SimStart
<1>5. ConjugateTo(rows, {}, sim.r, sim.p)
  BY <1>3, <1>4, ConjugateAtTheStart
<1>6. {} \in Residuals(0) /\ 0 < NTrain
  BY FS_EmptySet, ShapeAssumption DEF Residuals
<1> QED
  BY <1>2, <1>5, <1>6 DEF HistoryInv, History

LEMMA HistoryAtEveryStep == CgTypes /\ LoopInv /\ HistoryInv /\ [CgNext]_cgVars => HistoryInv'
<1> SUFFICES ASSUME CgTypes, LoopInv, HistoryInv, [CgNext]_cgVars PROVE HistoryInv'
  OBVIOUS
<1>1. CASE Iterate
  <2>1. /\ pc \in {"u", "v"} /\ pc' = pc /\ train' = train /\ precond' = precond
        /\ rows' = rows /\ rhs' = rhs
    BY <1>1 DEF Iterate, cgDataVars
  <2>2. rows' = CgMatrix(train)' /\ rhs' = CgRhs(train, pc)'
    BY <2>1, ScalingKept DEF HistoryInv, CgRhs, RhsOf
  <2>3. History'
    BY <1>1, HistoryGrows
  <2> QED
    BY <2>2, <2>3 DEF HistoryInv
<1>2. CASE FirstSolved
  <2>1. /\ pc = "u" /\ pc' = "v" /\ train' = train /\ precond' = precond /\ rows' = rows
        /\ rhs' = CgRhs(train, "v") /\ sim' = SimStart(rhs') /\ it' = 0
    BY <1>2 DEF FirstSolved, cgDataVars
  <2>2. rows' = CgMatrix(train)' /\ rhs' = CgRhs(train, pc)'
    BY <2>1, ScalingKept DEF HistoryInv, CgRhs, RhsOf
  <2>3. rhs' \in Vector
    BY <2>1, CgSystemTypes DEF CgTypes, Vector
  <2>4. sim'.r = rhs' /\ sim'.p = rhs'
    BY <2>1 DEF SimStart
  <2>5. ConjugateTo(rows', {}, sim'.r, sim'.p)
    BY <2>3, <2>4, ConjugateAtTheStart
  <2>6. {} \in Residuals(0) /\ 0 < NTrain
    BY FS_EmptySet, ShapeAssumption DEF Residuals
  <2>7. History'
    BY <2>1, <2>5, <2>6 DEF History
  <2> QED
    BY <2>2, <2>7 DEF HistoryInv
<1>3. CASE InverseRaises \/ SecondSolved \/ Schur \/ WeightsFromAlpha \/ CgPredict
  <2>1. pc' \notin {"u", "v"}
    BY <1>3 DEF InverseRaises, SecondSolved, Schur, WeightsFromAlpha, CgPredict, ScoreBatch
  <2> QED
    BY <2>1 DEF HistoryInv
<1>4. CASE UNCHANGED cgVars
  <2>1. /\ pc' = pc /\ it' = it /\ rhs' = rhs /\ rows' = rows /\ sim' = sim
        /\ train' = train /\ precond' = precond
    BY <1>4 DEF cgVars, cgDataVars, loopVars, systemVars
  <2>2. pc \in {"u", "v"} => rows' = CgMatrix(train)' /\ rhs' = CgRhs(train, pc)'
    BY <2>1, ScalingKept DEF HistoryInv, CgRhs, RhsOf
  <2>3. pc \in {"u", "v"} => History'
    BY <2>1 DEF HistoryInv, History, ZeroVector
  <2> QED
    BY <2>1, <2>2, <2>3 DEF HistoryInv
<1> QED
  BY <1>1, <1>2, <1>3, <1>4 DEF CgNext

LEMMA ScalingNotZero ==
  ASSUME train \in Clients, Preconditioned
  PROVE  \A i \in Unknown : /\ Scaling(train)[i] \in Field \ {0}
                            /\ ~precond => Scaling(train)[i] = 1
<1> SUFFICES ASSUME NEW i \in Unknown
             PROVE  /\ Scaling(train)[i] \in Field \ {0}
                    /\ ~precond => Scaling(train)[i] = 1
  OBVIOUS
<1>1. CASE precond /\ KAug(train)[i][i] # 0
  <2> DEFINE d == KAug(train)[i][i]
  <2>1. d \in Squares /\ d # 0 /\ Scaling(train)[i] = Reciprocal[Root[d]]
    BY <1>1 DEF Preconditioned, Scaling
  <2> HIDE DEF d
  <2>2. Root[d] \in Field /\ Reduce(Root[d] * Root[d]) = d
    BY <2>1, RootType
  <2>3. Root[d] # 0
    <3>1. SUFFICES ASSUME Root[d] = 0 PROVE FALSE
      OBVIOUS
    <3>2. Reduce(0 * 0) = 0
      BY ReduceField, PType
    <3> QED
      BY <2>1, <2>2, <3>1, <3>2
  <2> QED
    BY <1>1, <2>1, <2>2, <2>3, ReciprocalNotZero
<1>2. CASE ~(precond /\ KAug(train)[i][i] # 0)
  BY <1>2, PType DEF Scaling
<1> QED
  BY <1>1, <1>2

(* A solution of a client's system K s = rhs. *)
SolutionOf(s, which) ==
  /\ s \in Vector
  /\ \A i \in Unknown : Inner(KAug(train)[i], s) = RhsOf(train, which)[i]

\* One row of the scaled system is one of the system's own.
ScaledRow(ar, kr, si, sc) == \A j \in Unknown : ar[j] = Reduce(kr[j] * si * sc[j])
ScaledBack(us, xs, sc) == \A j \in Unknown : us[j] = Reduce(xs[j] * sc[j])

LEMMA RowRescaled ==
  ASSUME NEW ar \in Vector, NEW kr \in Vector, NEW si \in Field, NEW sc \in Vector,
         ScaledRow(ar, kr, si, sc),
         NEW us \in Vector, NEW xs \in Vector, ScaledBack(us, xs, sc)
  PROVE  Inner(ar, xs) = Reduce(si * Inner(kr, us))
<1> DEFINE f == [j \in Unknown |-> ar[j] * xs[j]]
           g == [j \in Unknown |-> kr[j] * us[j]]
           h == [j \in Unknown |-> si * g[j]]
<1>1. IsFiniteSet(Unknown) /\ si \in Int
  BY Unknowns, FieldInt
<1>2. ASSUME NEW j \in Unknown
      PROVE  /\ ar[j] \in Int /\ xs[j] \in Int /\ kr[j] \in Int /\ us[j] \in Int /\ sc[j] \in Int
             /\ f[j] \in Int /\ g[j] \in Int /\ h[j] \in Int
  <2>1. ar[j] \in Int /\ xs[j] \in Int /\ kr[j] \in Int /\ us[j] \in Int /\ sc[j] \in Int
    BY FieldInt DEF Vector
  <2>2. g[j] \in Int
    BY <2>1
  <2> QED
    BY <1>1, <2>1, <2>2
<1>3. f \in [Unknown -> Int] /\ g \in [Unknown -> Int] /\ h \in [Unknown -> Int]
  BY <1>2
<1>4. ASSUME NEW j \in Unknown PROVE Reduce(f[j]) = Reduce(h[j])
  <2> DEFINE m == kr[j] * si * sc[j]
             n == xs[j] * sc[j]
             e == kr[j]
             y == xs[j]
             es == si * e
  <2>1. e \in Int /\ y \in Int /\ sc[j] \in Int
    BY <1>2
  <2>2. m \in Int /\ n \in Int /\ es \in Int /\ m * y = n * es
    BY <1>1, <2>1
  <2>3. f[j] = Reduce(m) * y
    BY DEF ScaledRow
  <2>4. h[j] = si * (e * Reduce(n))
    BY DEF ScaledBack
  <2>5. Reduce(n) \in Int
    BY <2>2, ReduceType
  <2>6. h[j] = Reduce(n) * es
    BY <1>1, <2>1, <2>4, <2>5
  <2> HIDE DEF m, n, e, y, es, f, h
  <2>7. Reduce(Reduce(m) * y) = Reduce(m * y)
    BY <2>1, <2>2, ReduceMult
  <2>8. Reduce(Reduce(n) * es) = Reduce(n * es)
    BY <2>1, <2>2, ReduceMult
  <2> QED
    BY <2>2, <2>3, <2>6, <2>7, <2>8
<1>5. \A j \in Unknown : h[j] = si * g[j]
  OBVIOUS
<1>6. Total(f) = Inner(ar, xs) /\ Total(g) = Inner(kr, us)
  BY DEF Inner
<1> HIDE DEF f, g, h
<1>7. Total(f) = Total(h)
  BY ONLY <1>1, <1>3, <1>4, SumCongruent
<1>8. SumFunction(h) = si * SumFunction(g)
  BY <1>1, <1>3, <1>5, SumScale
<1>9. Reduce(si * Reduce(SumFunction(g))) = Reduce(si * SumFunction(g))
  <2> DEFINE n == SumFunction(g)
  <2>1. n \in Int
    BY <1>1, <1>3, SumInt
  <2> HIDE DEF n
  <2>2. Reduce(Reduce(n) * si) = Reduce(n * si) /\ Reduce(n) \in Int
    BY <1>1, <2>1, ReduceMult, ReduceType
  <2>3. Reduce(n) * si = si * Reduce(n) /\ n * si = si * n
    BY <1>1, <2>1, <2>2
  <2> QED
    BY <2>2, <2>3 DEF n
<1> QED
  BY <1>6, <1>7, <1>8, <1>9 DEF Total

\* What a converged solve hands on.
LEMMA SolveEnds ==
  ASSUME CgTypes, LoopInv, HistoryInv, pc \in {"u", "v"}, it = NIter, NIter >= NTrain
  PROVE  \E s \in Vector : Rescaled = Packed(NTrain, s) /\ SolutionOf(s, pc)
<1> DEFINE S == Scaling(train)
           xs == sim.x
           us == [j \in Unknown |-> Reduce(xs[j] * S[j])]
           K == KAug(train)
           y == RhsOf(train, pc)
<1>1. /\ train \in Clients /\ Preconditioned
      /\ SimInv /\ x_ct = Packed(NTrain, xs) /\ xs \in Vector
      /\ rows = CgMatrix(train) /\ rhs = CgRhs(train, pc)
  BY DEF CgTypes, LoopInv, SimInv, SimState, HistoryInv
<1>2. sim.r = ZeroVector
  <2>1. ~(it < NTrain)
    BY Sizes, IterAssumption
  <2> QED
    BY <2>1 DEF HistoryInv, History
<1>3. /\ S \in Vector /\ K \in [Unknown -> Vector]
      /\ \A i \in Unknown : S[i] \in Field \ {0} /\ (~precond => S[i] = 1)
  BY <1>1, ScalingType, KernelSymmetric, ScalingNotZero DEF Vector
<1>4. y \in Vector
  <2>1. RightHandSide(train) \in [Index -> Field]
    BY <1>1, SystemTypes
  <2> QED
    BY <2>1, Unknowns, PType DEF RhsOf, Vector
<1>5. rows \in [Unknown -> Vector]
  BY <1>1, CgMatrixSymmetric
<1>6. \A i \in Unknown : /\ rows[i] = [j \in Unknown |-> Reduce(K[i][j] * S[i] * S[j])]
                         /\ rhs[i] = Reduce(y[i] * S[i])
  BY <1>1 DEF CgMatrix, CgRhs
<1> HIDE DEF S, xs, K, y
<1>7. ASSUME NEW j \in Unknown PROVE us[j] \in Field
  <2>1. xs[j] \in Int /\ S[j] \in Int
    BY <1>1, <1>3, FieldInt DEF Vector
  <2>2. xs[j] * S[j] \in Int
    BY <2>1
  <2> QED
    BY <2>2, ReduceType
<1>8. us \in Vector
  BY <1>7 DEF Vector
<1>9. ASSUME NEW i \in Unknown PROVE Inner(K[i], us) = y[i]
  <2>1. Inner(rows[i], xs) = rhs[i]
    <3> DEFINE n == Inner(rows[i], xs)
    <3>1. n \in Field
      BY <1>1, <1>5, Products
    <3>2. Reduce(n + sim.r[i]) = rhs[i]
      BY <1>1 DEF SimInv, xs
    <3>3. sim.r[i] = 0
      BY <1>2, ZeroType
    <3> HIDE DEF n
    <3>4. n + 0 = n
      BY <3>1, FieldInt
    <3> QED
      BY <3>1, <3>2, <3>3, <3>4, ReduceField DEF n
  <2>2. Inner(rows[i], xs) = Reduce(S[i] * Inner(K[i], us))
    <3> DEFINE kr == K[i]
               ar == rows[i]
               si == S[i]
    <3>1. kr \in Vector /\ ar \in Vector /\ si \in Field
      BY <1>3, <1>5
    <3>2. ScaledRow(ar, kr, si, S)
      BY <1>6 DEF ScaledRow
    <3>3. ScaledBack(us, xs, S)
      BY DEF ScaledBack
    <3> HIDE DEF kr, ar, si, us
    <3>4. Inner(ar, xs) = Reduce(si * Inner(kr, us))
      BY <1>1, <1>3, <1>8, <3>1, <3>2, <3>3, RowRescaled
    <3> QED
      BY <3>4 DEF kr, ar, si
  <2> DEFINE m == Inner(K[i], us)
             n == y[i]
             s == S[i]
  <2>3. m \in Field /\ n \in Field /\ s \in Field \ {0}
    BY <1>3, <1>4, <1>8, Products DEF Vector
  <2>4. n \in Int /\ s \in Int
    BY <2>3, FieldInt
  <2>5. rhs[i] = Reduce(n * s)
    BY <1>6
  <2> HIDE DEF m, n, s, us
  <2>6. n * s = s * n
    BY <2>4
  <2>7. Reduce(s * m) = Reduce(s * n)
    BY <2>1, <2>2, <2>5, <2>6 DEF s, m
  <2>8. m = n
    BY <2>3, <2>7, FactorCancels
  <2> QED
    BY <2>8 DEF m, n
<1>10. Rescaled = Packed(NTrain, us)
  <2>1. CASE precond
    <3> DEFINE ct == EvalMult(Packed(NTrain, xs), Packed(NTrain, S))
               uct == Packed(NTrain, us)
    <3>1. /\ Packed(NTrain, xs) \in Cts /\ Packed(NTrain, S) \in Cts /\ uct \in Cts
          /\ \A s \in SlotIndex :
               /\ Packed(NTrain, xs)[s] = IF s < NTrain THEN xs[s] ELSE 0
               /\ Packed(NTrain, S)[s] = IF s < NTrain THEN S[s] ELSE 0
               /\ uct[s] = IF s < NTrain THEN us[s] ELSE 0
      BY <1>1, <1>3, <1>8, PackedSlots
    <3>2. ct \in Cts
      BY <3>1, SlotArithmetic
    <3>3. \A s \in SlotIndex : s < NTrain => s \in Unknown
      BY Sizes DEF SlotIndex, Unknown
    <3>4. Reduce(0 * 0) = 0
      BY ReduceField, PType
    <3>5. ASSUME NEW s \in SlotIndex PROVE ct[s] = uct[s]
      BY <3>1, <3>3, <3>4 DEF EvalMult
    <3> HIDE DEF ct, uct
    <3>6. ct = uct
      BY <3>1, <3>2, <3>5, SameCts
    <3> QED
      BY <1>1, <2>1, <3>6 DEF Rescaled, S, ct, uct
  <2>2. CASE ~precond
    <3>1. ASSUME NEW j \in Unknown PROVE us[j] = xs[j]
      <4> DEFINE e == xs[j]
      <4>1. e \in Field /\ us[j] = Reduce(e * 1)
        BY <1>1, <1>3, <2>2 DEF Vector
      <4> HIDE DEF e
      <4>2. e * 1 = e
        BY <4>1, FieldInt
      <4> QED
        BY <4>1, <4>2, ReduceField DEF e
    <3> HIDE DEF us
    <3>2. us = xs
      BY <1>1, <1>8, <3>1 DEF Vector
    <3> QED
      BY <1>1, <2>2, <3>2 DEF Rescaled
  <2> QED
    BY <2>1, <2>2
<1>11. SolutionOf(us, pc)
  BY <1>8, <1>9 DEF SolutionOf, K, y
<1> QED
  BY <1>8, <1>10, <1>11

\* The vector of ones in slots.
Ones == [i \in Unknown |-> 1]

LEMMA OnesSlots ==
  ASSUME NEW s \in Vector
  PROVE  Ones \in Vector /\ InnerSum(Packed(NTrain, s), NTrain) = Scalar(Inner(Ones, s))
<1>1. Ones \in Vector
  BY PType DEF Ones, Vector
<1> DEFINE ct == EvalMult(Packed(NTrain, s), Packed(NTrain, Ones))
           sct == Packed(NTrain, s)
<1>2. /\ sct \in Cts /\ Packed(NTrain, Ones) \in Cts
      /\ \A i \in SlotIndex : /\ sct[i] = IF i < NTrain THEN s[i] ELSE 0
                              /\ Packed(NTrain, Ones)[i] = IF i < NTrain THEN Ones[i] ELSE 0
  BY <1>1, PackedSlots
<1>3. ct \in Cts
  BY <1>2, SlotArithmetic
<1>4. ASSUME NEW i \in SlotIndex PROVE ct[i] = sct[i]
  <2>1. CASE i < NTrain
    <3>1. i \in Unknown
      BY <2>1, Sizes DEF SlotIndex, Unknown
    <3> DEFINE e == s[i]
    <3>2. ct[i] = Reduce(e * 1) /\ sct[i] = e /\ e \in Field
      BY <1>2, <2>1, <3>1 DEF EvalMult, Ones, Vector
    <3> HIDE DEF e, ct, sct
    <3>3. e * 1 = e
      BY <3>2, FieldInt
    <3> QED
      BY <3>2, <3>3, ReduceField
  <2>2. CASE ~(i < NTrain)
    <3>1. ct[i] = Reduce(0 * 0) /\ sct[i] = 0
      BY <1>2, <2>2 DEF EvalMult
    <3> HIDE DEF ct, sct
    <3>2. Reduce(0 * 0) = 0
      BY ReduceField, PType
    <3> QED
      BY <3>1, <3>2
  <2> QED
    BY <2>1, <2>2
<1> HIDE DEF ct
<1>5. ct = sct
  BY <1>2, <1>3, <1>4, SameCts
<1>6. InnerProduct(sct, Packed(NTrain, Ones)) = Scalar(Inner(s, Ones))
  BY <1>1, InnerProductValue
<1>7. InnerProduct(sct, Packed(NTrain, Ones)) = InnerSum(sct, NTrain)
  BY <1>5 DEF InnerProduct, ct
<1>8. Inner(s, Ones) = Inner(Ones, s)
  BY <1>1, Products
<1> QED
  BY <1>1, <1>6, <1>7, <1>8

\* The sum of the solution computed in the clear is that of the encrypted one.
LEMMA SumsOfSolutions ==
  ASSUME train \in Clients, Determined(train), NEW vs, SolutionOf(vs, "v")
  PROVE  Inner(Ones, vs) = SumOfV(train) /\ SumOfV(train) \in Field \ {0}
<1> DEFINE K == KAug(train)
           clear == CHOOSE s \in OnesSolutions(train) : TRUE
<1>1. K \in [Unknown -> Vector] /\ Symmetric(K)
  BY KernelSymmetric
<1>2. clear \in OnesSolutions(train) /\ SumOfV(train) # 0
  BY DEF Determined
<1>3. SumOfV(train) = Inner(Ones, clear)
  BY DEF SumOfV, Ones
<1> HIDE DEF clear
<1>4. clear \in Vector /\ \A i \in Unknown : Inner(K[i], clear) = 1
  BY <1>2 DEF OnesSolutions
<1>5. vs \in Vector /\ \A i \in Unknown : Inner(K[i], vs) = 1
  BY DEF SolutionOf, RhsOf
<1> HIDE DEF K
<1>6. ASSUME NEW s \in Vector, \A i \in Unknown : Inner(K[i], s) = 1
      PROVE  Times(K, s) = Ones
  <2>1. Times(K, s) \in Vector /\ \A i \in Unknown : Times(K, s)[i] = 1
    BY <1>1, <1>6, TimesType
  <2> DEFINE t == Times(K, s)
  <2>2. t \in [Unknown -> Field] /\ \A i \in Unknown : t[i] = 1
    BY <2>1 DEF Vector
  <2> HIDE DEF t
  <2>3. t = Ones
    BY <2>2 DEF Ones
  <2> QED
    BY <2>3 DEF t
<1>7. Times(K, clear) = Ones /\ Times(K, vs) = Ones
  BY <1>4, <1>5, <1>6
<1>8. Inner(Times(K, clear), vs) = Inner(Times(K, vs), clear)
  BY <1>1, <1>4, <1>5, SymmetricTimes
<1>9. Inner(Ones, clear) \in Field
  BY <1>4, OnesSlots, Products
<1> QED
  BY <1>2, <1>3, <1>7, <1>8, <1>9

LEMMA BiasRestored ==
  ASSUME NEW b0 \in Field, NEW y \in Field
  PROVE  Reduce(b0 + Reduce(y + (-b0) * 1)) = y
<1>1. b0 \in Int /\ y \in Int
  BY FieldInt
<1> DEFINE d == y + (-b0) * 1
<1>2. d \in Int /\ d + b0 = y
  BY <1>1
<1> HIDE DEF d
<1>3. Reduce(Reduce(d) + b0) = Reduce(d + b0) /\ Reduce(d) \in Int
  BY <1>1, <1>2, ReduceAdd, ReduceType
<1>4. Reduce(d) + b0 = b0 + Reduce(d) /\ Reduce(y) = y
  BY <1>1, <1>3, ReduceField
<1> QED
  BY <1>2, <1>3, <1>4 DEF d

\* The rows of the whole system, for a bias and multipliers.
LEMMA WholeRow ==
  ASSUME NEW t \in Clients, NEW e \in Field, NEW s \in Vector, NEW a \in Field, NEW row0 \in Vector,
         NEW f \in [Index -> Int], f[0] = a * e,
         \A i \in Unknown : f[i + 1] = row0[i] * s[i]
  PROVE  Total(f) = Reduce(a * e + Inner(row0, s))
<1> DEFINE g == [i \in Unknown |-> row0[i] * s[i]]
<1>1. g \in [Unknown -> Int] /\ Inner(row0, s) = Total(g)
  BY Products DEF Inner
<1>2. \A i \in Unknown : g[i] = f[i + 1]
  OBVIOUS
<1>3. IsFiniteSet(Unknown)
  BY Unknowns
<1> HIDE DEF g
<1>4. SumFunction(f) = f[0] + SumFunction(g)
  BY <1>1, <1>2, FirstAndRest DEF Unknown
<1> DEFINE n == SumFunction(g)
           z == a * e
<1>5. n \in Int /\ z \in Int
  <2>1. a \in Int /\ e \in Int
    BY FieldInt
  <2> QED
    BY <1>1, <1>3, <2>1, SumInt
<1>6. Total(g) = Reduce(n) /\ Total(f) = Reduce(z + n)
  BY <1>4 DEF Total
<1> HIDE DEF n, z
<1>7. Reduce(Reduce(n) + z) = Reduce(n + z) /\ Reduce(n) \in Int
  BY <1>5, ReduceAdd, ReduceType
<1>8. Reduce(n) + z = z + Reduce(n) /\ n + z = z + n
  BY <1>5, <1>7
<1> QED
  BY <1>1, <1>6, <1>7, <1>8 DEF z

\* From the two solutions to that of the whole system.
LEMMA WholeSystemSolved ==
  ASSUME train \in Clients, NEW us, SolutionOf(us, "u"), NEW vs, SolutionOf(vs, "v"),
         NEW sv \in Field \ {0}, Inner(Ones, vs) = sv,
         NEW b0, b0 = Reduce(Inner(Ones, us) * Reciprocal[sv]),
         NEW m, m = Plus(us, -b0, vs),
         NEW s, s = [j \in Index |-> IF j = 0 THEN b0 ELSE m[j - 1]],
         NEW i \in Index
  PROVE  Total([j \in Index |-> SystemMatrix(train)[i][j] * s[j]]) = RightHandSide(train)[i]
<1> DEFINE A == SystemMatrix(train)
           y == RightHandSide(train)
           K == KAug(train)
           f == [j \in Index |-> A[i][j] * s[j]]
           su == Inner(Ones, us)
<1>1. /\ us \in Vector /\ \A n \in Unknown : Inner(K[n], us) = y[n + 1]
      /\ vs \in Vector /\ \A n \in Unknown : Inner(K[n], vs) = 1
      /\ K \in [Unknown -> Vector] /\ Ones \in Vector
  <2>1. us \in Vector /\ vs \in Vector
    BY DEF SolutionOf
  <2>2. /\ \A n \in Unknown : Inner(K[n], us) = y[n + 1]
        /\ \A n \in Unknown : Inner(K[n], vs) = 1
    BY DEF SolutionOf, RhsOf
  <2> QED
    BY <2>1, <2>2, KernelSymmetric, OnesSlots
<1>2. A \in [Index -> [Index -> Field]] /\ y \in [Index -> Field] /\ y[0] = 0
  BY SystemTypes, Indices DEF RightHandSide
<1>3. /\ A[0][0] = 0 /\ \A n \in Unknown : n + 1 \in Index /\ A[0][n + 1] = 1 /\ A[n + 1][0] = 1
      /\ \A n, j \in Unknown : A[n + 1][j + 1] = K[n][j]
  <2>1. \A n \in Unknown : n + 1 \in Index /\ n \in Nat /\ n + 1 # 0
    BY Unknowns
  <2>2. 0 \in Index
    BY Indices
  <2> QED
    BY <2>1, <2>2 DEF SystemMatrix, KAug
<1>4. su \in Field /\ sv \in Field
  BY <1>1, Products
<1>5. b0 \in Field /\ Reduce(su + (-b0) * sv) = 0
  <2> HIDE DEF su
  <2>1. b0 = Reduce(su * Reciprocal[sv])
    BY DEF su
  <2> QED
    BY <1>4, <2>1, QuotientCancels
<1>6. b0 \in Int /\ -b0 \in Int
  <2>1. b0 \in Int
    BY <1>5, FieldInt
  <2> QED
    BY <2>1
<1>7. m \in Vector
  BY <1>1, <1>6, PlusType
<1>8. s[0] = b0 /\ \A n \in Unknown : s[n + 1] = m[n] /\ n + 1 \in Index
  <2>1. \A n \in Unknown : n + 1 \in Index /\ n \in Nat /\ n + 1 # 0 /\ (n + 1) - 1 = n
    BY Unknowns
  <2> QED
    BY <2>1, Indices
<1>9. \A j \in Index : s[j] \in Field
  <2>1. \A j \in Index : j # 0 => j - 1 \in Unknown
    BY Sizes DEF Index, Unknown
  <2> QED
    BY <1>5, <1>7, <2>1 DEF Vector
<1>10. f \in [Index -> Int]
  <2>1. ASSUME NEW j \in Index PROVE A[i][j] * s[j] \in Int
    <3>1. A[i][j] \in Int /\ s[j] \in Int
      BY <1>2, <1>9, FieldInt
    <3> QED
      BY <3>1
  <2> QED
    BY <2>1
<1>11. ASSUME NEW z \in Vector
       PROVE  Inner(z, m) = Reduce(Inner(z, us) + (-b0) * Inner(z, vs))
  BY <1>1, <1>6, InnerPlus
<1> HIDE DEF A, y, K, su
<1>12. CASE i = 0
  <2>1. Inner(Ones, m) = 0
    BY <1>1, <1>5, <1>11 DEF su
  <2>2. f[0] = 0 * b0
    BY <1>3, <1>8, <1>12, Indices
  <2>3. \A n \in Unknown : f[n + 1] = Ones[n] * m[n]
    BY <1>3, <1>8, <1>12 DEF Ones
  <2> HIDE DEF f
  <2>4. 0 \in Field
    BY PType
  <2>5. Total(f) = Reduce(0 * b0 + Inner(Ones, m))
    BY <1>1, <1>5, <1>7, <1>10, <2>2, <2>3, <2>4, WholeRow
  <2>6. 0 * b0 + 0 = 0 /\ Reduce(0) = 0
    BY <1>6, <2>4, ReduceField
  <2> QED
    BY <1>2, <1>12, <2>1, <2>5, <2>6 DEF f, A, y
<1>13. CASE i # 0
  <2> DEFINE n == i - 1
             kr == K[n]
             yi == y[i]
  <2>1. n \in Unknown /\ n + 1 = i
    BY <1>13, Sizes DEF Index, Unknown
  <2>2. kr \in Vector /\ yi \in Field /\ Inner(kr, us) = yi /\ Inner(kr, vs) = 1
    BY <1>1, <1>2, <2>1
  <2>3. f[0] = 1 * b0
    BY <1>3, <1>8, <2>1, Indices
  <2>4. \A j \in Unknown : f[j + 1] = kr[j] * m[j]
    BY <1>3, <1>8, <2>1
  <2> HIDE DEF f, n, kr, yi
  <2>5. Inner(kr, m) = Reduce(yi + (-b0) * 1)
    BY <1>11, <2>2
  <2>6. 1 \in Field
    BY PType
  <2>7. Total(f) = Reduce(1 * b0 + Inner(kr, m))
    BY <1>5, <1>7, <1>10, <2>2, <2>3, <2>4, <2>6, WholeRow
  <2>8. 1 * b0 = b0
    BY <1>6
  <2>9. Reduce(b0 + Reduce(yi + (-b0) * 1)) = yi
    BY <1>5, <2>2, BiasRestored
  <2> QED
    BY <2>5, <2>7, <2>8, <2>9 DEF f, yi, A, y
<1> QED
  BY <1>12, <1>13

(* What the solves have left in u and v, and what bias and multipliers are. *)
SolvesWhole(bias, multipliers) ==
  LET s == [j \in Index |-> IF j = 0 THEN bias[0] ELSE multipliers[j - 1]]
  IN  \A i \in Index :
        Total([j \in Index |-> SystemMatrix(train)[i][j] * s[j]]) = RightHandSide(train)[i]
SolvedBy(ct, which) == \E s \in Vector : ct = Packed(NTrain, s) /\ SolutionOf(s, which)
SolvedInv ==
  NIter >= NTrain =>
    /\ pc \in {"v", "schur"} => SolvedBy(u, "u")
    /\ pc = "schur" => SolvedBy(v, "v")
    /\ pc \in {"weights", "score", "done"} => SolvesWhole(b, alpha)

LEMMA SchurSolves ==
  ASSUME CgTypes, Schur, SolvedBy(u, "u"), SolvedBy(v, "v")
  PROVE  SolvesWhole(b', alpha')
<1>1. PICK us \in Vector : u = Packed(NTrain, us) /\ SolutionOf(us, "u")
  BY DEF SolvedBy
<1>2. PICK vs \in Vector : v = Packed(NTrain, vs) /\ SolutionOf(vs, "v")
  BY DEF SolvedBy
<1>3. train \in Clients /\ Determined(train)
  BY DEF CgTypes, Schur
<1> DEFINE su == Inner(Ones, us)
           sv == SumOfV(train)
           b0 == Reduce(su * Reciprocal[sv])
           m == Plus(us, -b0, vs)
           s == [j \in Index |-> IF j = 0 THEN b0 ELSE m[j - 1]]
<1>4. sv \in Field \ {0} /\ Inner(Ones, vs) = sv
  BY <1>2, <1>3, SumsOfSolutions
<1>5. su \in Field
  BY <1>1, OnesSlots, Products
<1>6. InnerSum(u, NTrain) = Scalar(su) /\ InnerSum(v, NTrain) = Scalar(sv)
  BY <1>1, <1>2, <1>4, OnesSlots
<1>7. b' = ScalarDiv(InnerSum(u, NTrain), InnerSum(v, NTrain), sv)
  BY DEF Schur, ScalarDiv
<1> HIDE DEF su, sv
<1>8. b' = Scalar(b0)
  BY <1>4, <1>5, <1>6, <1>7, ScalarDivValue
<1>9. b0 \in Field /\ b0 \in Int /\ -b0 \in Int
  <2>1. b0 \in Field
    BY <1>4, <1>5, QuotientCancels
  <2>2. b0 \in Int
    BY <2>1, FieldInt
  <2> HIDE DEF b0
  <2> QED
    BY <2>1, <2>2
<1>10. b'[0] = b0
  <2> HIDE DEF b0
  <2> QED
    BY <1>8, <1>9, ScalarSlots, SlotsType
<1>11. alpha' = SubtractMultiple(u, b', v)
  BY DEF Schur, Multipliers, SubtractMultiple
<1>12. m \in Vector /\ alpha' = Packed(NTrain, m)
  <2> HIDE DEF b0
  <2>1. m \in Vector
    BY <1>1, <1>2, <1>9, PlusType
  <2>2. SubtractMultiple(u, Scalar(b0), v) = Packed(NTrain, m)
    BY <1>1, <1>2, <1>9, AxpyValue
  <2> QED
    BY <1>8, <1>11, <2>1, <2>2
<1> DEFINE found == [j \in Index |-> IF j = 0 THEN b'[0] ELSE alpha'[j - 1]]
<1>13. found = s
  <2>1. \A j \in Index : j # 0 => j - 1 \in Unknown
    BY Sizes DEF Index, Unknown
  <2> HIDE DEF b0, m
  <2>2. \A j \in Unknown : alpha'[j] = m[j]
    BY <1>12, PackedSlots
  <2> QED
    BY <1>10, <2>1, <2>2
<1>14. \A i \in Index :
         Total([j \in Index |-> SystemMatrix(train)[i][j] * s[j]]) = RightHandSide(train)[i]
  <2>1. b0 = Reduce(Inner(Ones, us) * Reciprocal[sv]) /\ m = Plus(us, -b0, vs)
        /\ s = [j \in Index |-> IF j = 0 THEN b0 ELSE m[j - 1]]
    BY DEF su
  <2> HIDE DEF b0, m, s
  <2> QED
    BY <1>1, <1>2, <1>3, <1>4, <2>1, WholeSystemSolved
<1> HIDE DEF s
<1>15. \A i \in Index :
         Total([j \in Index |-> SystemMatrix(train)[i][j] * found[j]]) = RightHandSide(train)[i]
  BY <1>13, <1>14
<1> QED
  BY <1>15 DEF SolvesWhole

LEMMA NothingSolvedAtTheStart == CgInit => SolvedInv
BY DEF CgInit, SolvedInv

LEMMA SolvedAtEveryStep ==
  CgTypes /\ LoopInv /\ HistoryInv /\ SolvedInv /\ [CgNext]_cgVars => SolvedInv'
<1> SUFFICES ASSUME CgTypes, LoopInv, HistoryInv, SolvedInv, [CgNext]_cgVars,
                    NIter >= NTrain
             PROVE  /\ pc' \in {"v", "schur"} => SolvedBy(u, "u")'
                    /\ pc' = "schur" => SolvedBy(v, "v")'
                    /\ pc' \in {"weights", "score", "done"} => SolvesWhole(b, alpha)'
  BY DEF SolvedInv
<1>1. /\ pc \in {"v", "schur"} => SolvedBy(u, "u")
      /\ pc = "schur" => SolvedBy(v, "v")
      /\ pc \in {"weights", "score", "done"} => SolvesWhole(b, alpha)
  BY DEF SolvedInv
<1>2. CASE InverseRaises
  BY <1>2 DEF InverseRaises
<1>3. CASE Iterate
  <2>1. /\ pc' = pc /\ u' = u /\ train' = train /\ pc \in {"u", "v"}
    BY <1>3 DEF Iterate, solutionVars, cgDataVars
  <2> QED
    BY <1>1, <2>1 DEF SolvedBy, SolutionOf
<1>4. CASE FirstSolved
  <2>1. /\ pc = "u" /\ pc' = "v" /\ it = NIter /\ u' = Rescaled /\ train' = train
    BY <1>4 DEF FirstSolved, cgDataVars
  <2>2. \E s \in Vector : Rescaled = Packed(NTrain, s) /\ SolutionOf(s, "u")
    BY <2>1, SolveEnds
  <2> QED
    BY <2>1, <2>2 DEF SolvedBy, SolutionOf
<1>5. CASE SecondSolved
  <2>1. /\ pc = "v" /\ pc' = "schur" /\ it = NIter /\ v' = Rescaled /\ u' = u /\ train' = train
    BY <1>5 DEF SecondSolved, cgDataVars
  <2>2. \E s \in Vector : Rescaled = Packed(NTrain, s) /\ SolutionOf(s, "v")
    BY <2>1, SolveEnds
  <2> QED
    BY <1>1, <2>1, <2>2 DEF SolvedBy, SolutionOf
<1>6. CASE Schur
  <2>1. pc = "schur" /\ pc' = "weights" /\ train' = train
    BY <1>6 DEF Schur, cgDataVars
  <2>2. SolvesWhole(b', alpha')
    BY <1>1, <1>6, <2>1, SchurSolves
  <2> QED
    BY <2>1, <2>2 DEF SolvesWhole
<1>7. CASE WeightsFromAlpha \/ CgPredict
  <2>1. /\ pc \in {"weights", "score"} /\ pc' \in {"score", "done"}
        /\ b' = b /\ alpha' = alpha /\ train' = train
    BY <1>7 DEF WeightsFromAlpha, CgPredict, ScoreBatch, modelVars, cgDataVars
  <2> QED
    BY <1>1, <2>1 DEF SolvesWhole
<1>8. CASE UNCHANGED cgVars
  <2>1. pc' = pc /\ b' = b /\ alpha' = alpha /\ train' = train /\ u' = u /\ v' = v
    BY <1>8 DEF cgVars, cgDataVars, solutionVars
  <2> QED
    BY <1>1, <2>1 DEF SolvesWhole, SolvedBy, SolutionOf
<1> QED
  BY <1>2, <1>3, <1>4, <1>5, <1>6, <1>7, <1>8 DEF CgNext

\* With exactly an iteration for every unknown (`NIter = NTrain`), a client whose
\* kernel matrix is positive definite on the directions taken, whose two solves get to
\* their ends and whose Schur complement does not vanish gets the bias and the
\* multipliers that solve its whole system: `solver` of cg_cipher.py, from the two
\* encrypted solves to the reduction.
THEOREM CgSolvesTheSystem == CgSpec => []CgSolves
<1>1. CgInit => HistoryInv /\ SolvedInv
  BY HistoryAtTheStart, NothingSolvedAtTheStart
<1>2. CgTypes /\ LoopInv /\ HistoryInv /\ SolvedInv /\ [CgNext]_cgVars => (HistoryInv /\ SolvedInv)'
  BY HistoryAtEveryStep, SolvedAtEveryStep
<1>3. SolvedInv => CgSolves
  BY Sizes DEF SolvedInv, SolvesWhole, CgSolves
<1> QED
  BY <1>1, <1>2, <1>3, CgLoopInvariance, PTL DEF CgSpec

-----------------------------------------------------------------------------
(* The reflection of PlainQR, for a matrix and a pivot. *)

(* PlainQR computes with the same numbers. *)
LEMMA SameArithmetic ==
  /\ \A f : Plain!Total(f) = Total(f)
  /\ \A m : Plain!Reduce(m) = Reduce(m)
  /\ Plain!Field = Field /\ Plain!Squares = Squares /\ Plain!Index = Index
  /\ Plain!Reciprocal = Reciprocal /\ Plain!Root = Root
<1>1. \A f : Plain!SumFunction(f) = SumFunction(f)
  BY DEF Plain!SumFunction, SumFunction, Plain!SumFunctionOnSet, SumFunctionOnSet,
         Plain!FoldFunctionOnSet, FoldFunctionOnSet, Plain!MapThenFoldSet, MapThenFoldSet
<1>2. \A f : Plain!Total(f) = Total(f)
  BY <1>1 DEF Plain!Total, Total, Plain!Reduce, Reduce
<1>3. /\ \A m : Plain!Reduce(m) = Reduce(m)
      /\ Plain!Field = Field /\ Plain!Squares = Squares /\ Plain!Index = Index
  BY DEF Plain!Reduce, Reduce, Plain!Field, Field, Plain!Squares, Squares, Plain!Index, Index
<1>4. Plain!Reciprocal = Reciprocal
  BY <1>3 DEF Plain!Reciprocal, Reciprocal
<1>5. Plain!Root = Root
  BY <1>3 DEF Plain!Root, Root
<1> QED
  BY <1>2, <1>3, <1>4, <1>5

\* What SignFor asks of a pivot before the step; the products Left and Right of
\* the reflector with the columns of R and the rows of Q; and tau.
Pivotal(a, p, sign) ==
  /\ Plain!NormSquare(a, p) \in Squares \ {0}
  /\ Reduce(a[p][p] + sign * Root[Plain!NormSquare(a, p)]) # 0

Left(a, p, sign) ==
  [j \in Index |-> Total([i \in From(p) |-> Plain!Reflector(a, p, sign)[i] * a[i][j]])]

Right(a, q, p, sign) ==
  [i \in Index |-> Total([j \in From(p) |-> Plain!Reflector(a, p, sign)[j] * q[i][j]])]

\* The operators of PlainQR, with the sums of CkksSlots.
LEMMA PlainMeaning ==
  ASSUME NEW a, NEW p \in Index, NEW sign
  PROVE  /\ Plain!NormSquare(a, p) = Total([i \in From(p) |-> a[i][p] * a[i][p]])
         /\ Plain!Reflector(a, p, sign) =
              [i \in From(p) |->
                 Reduce(a[i][p] + IF i = p THEN sign * Root[Plain!NormSquare(a, p)] ELSE 0)]
         /\ \A g : Plain!Length2(g, p) = Total([i \in From(p) |-> g[i] * g[i]])
BY SameArithmetic DEF Plain!NormSquare, Plain!Reflector, Plain!Length2, From

\* The reflector of PlainQR: the column from the pivot on with the signed norm
\* added to the pivot; tau times its product with that column is one.
LEMMA ReflectorFacts ==
  ASSUME NEW a \in [Index -> [Index -> Field]], NEW p \in Index, NEW sign \in {1, -1},
         Pivotal(a, p, sign),
         NEW g, g = Plain!Reflector(a, p, sign),
         NEW root, root = Root[Plain!NormSquare(a, p)]
  PROVE  /\ g \in [From(p) -> Field] /\ root \in Field \ {0}
         /\ \A i \in From(p) : i # p => g[i] = a[i][p]
         /\ g[p] = Reduce(a[p][p] + sign * root) /\ g[p] \in Field \ {0}
         /\ Plain!Length2(g, p) \in Field \ {0}
         /\ Plain!Length2(g, p) = Reduce(Reduce(root * (2 * sign)) * g[p])
         /\ Reduce(TwoOver(Plain!Length2(g, p)) * Left(a, p, sign)[p]) = 1
<1> DEFINE ns == Plain!NormSquare(a, p)
           e == a[p][p]
           first == g[p]
           z == sign * root
           rest == SumFunction([i \in From(p) \ {p} |-> a[i][p] * a[i][p]])
           l2 == Plain!Length2(g, p)
           lf == Left(a, p, sign)[p]
<1>1. /\ From(p) \subseteq Index /\ IsFiniteSet(From(p)) /\ p \in From(p)
      /\ \A i \in From(p) : a[i][p] \in Field /\ a[i][p] \in Int
  BY FromType, FieldInt
<1>2. ns \in Squares \ {0} /\ Reduce(e + z) # 0
  BY DEF Pivotal
<1>3. /\ root \in Field \ {0} /\ root \in Int /\ z \in Int /\ Reduce(z * z) = ns
  BY <1>2, SignedRoot, FieldInt
<1>4. /\ ns = Total([i \in From(p) |-> a[i][p] * a[i][p]])
      /\ g = [i \in From(p) |-> Reduce(a[i][p] + IF i = p THEN z ELSE 0)]
      /\ l2 = Total([i \in From(p) |-> g[i] * g[i]])
      /\ lf = Total([i \in From(p) |-> g[i] * a[i][p]])
  BY PlainMeaning DEF Left
<1> HIDE DEF z, ns, l2, lf
<1>5. ASSUME NEW i \in From(p), i # p PROVE g[i] = a[i][p]
  <2>1. g[i] = Reduce(a[i][p] + 0) /\ a[i][p] + 0 = a[i][p]
    BY <1>1, <1>4, <1>5
  <2> QED
    BY <1>1, <2>1, ReduceField
<1>6. first = Reduce(e + z) /\ first \in Field \ {0} /\ first \in Int /\ e \in Int
  <2>1. first = Reduce(e + z) /\ e \in Int
    BY <1>1, <1>4
  <2>2. e + z \in Int
    BY <1>3, <2>1
  <2>3. Reduce(e + z) \in Field
    BY <2>2, ReduceType
  <2> QED
    BY <1>2, <2>1, <2>3, FieldInt
<1>7. g \in [From(p) -> Field]
  <2>1. \A i \in From(p) : g[i] \in Field
    BY <1>1, <1>5, <1>6
  <2> QED
    BY <1>4, <2>1
<1>8. rest \in Int /\ ns = Reduce(e * e + rest)
  <2> DEFINE f == [i \in From(p) |-> a[i][p] * a[i][p]]
  <2>1. f \in [From(p) -> Int] /\ f[p] = e * e
        /\ [i \in From(p) \ {p} |-> f[i]] = [i \in From(p) \ {p} |-> a[i][p] * a[i][p]]
    BY <1>1
  <2>2. ns = Total(f)
    BY <1>4
  <2> HIDE DEF f
  <2> QED
    BY <2>1, <2>2, PivotAndRest
<1>9. l2 = Reduce(first * first + rest)
  <2> DEFINE f == [i \in From(p) |-> g[i] * g[i]]
  <2>1. \A i \in From(p) : g[i] * g[i] \in Int
    <3>1. \A i \in From(p) : g[i] \in Int
      BY <1>7, FieldInt
    <3> QED
      BY <3>1
  <2>2. f \in [From(p) -> Int] /\ f[p] = first * first
    BY <1>1, <2>1
  <2>3. [i \in From(p) \ {p} |-> f[i]] = [i \in From(p) \ {p} |-> a[i][p] * a[i][p]]
    BY <1>5
  <2>4. l2 = Total(f)
    BY <1>4
  <2> HIDE DEF f
  <2> QED
    BY <2>2, <2>3, <2>4, PivotAndRest
<1>10. lf = Reduce(first * e + rest)
  <2> DEFINE f == [i \in From(p) |-> g[i] * a[i][p]]
  <2>1. \A i \in From(p) : g[i] * a[i][p] \in Int
    <3>1. \A i \in From(p) : g[i] \in Int /\ a[i][p] \in Int
      BY <1>1, <1>7, FieldInt
    <3> QED
      BY <3>1
  <2>2. f \in [From(p) -> Int] /\ f[p] = first * e
    BY <1>1, <2>1
  <2>3. [i \in From(p) \ {p} |-> f[i]] = [i \in From(p) \ {p} |-> a[i][p] * a[i][p]]
    BY <1>5
  <2>4. lf = Total(f)
    BY <1>4
  <2> HIDE DEF f
  <2> QED
    BY <2>2, <2>3, <2>4, PivotAndRest
<1> HIDE DEF e, first, rest
<1>11. /\ l2 = Reduce((2 * z) * first) /\ l2 = Reduce(2 * (first * e + rest))
  <2>1. Reduce(z * z) = Reduce(e * e + rest)
    BY <1>3, <1>8
  <2> DEFINE length == first * first + rest
             cross == (2 * z) * first
             twice == 2 * (first * e + rest)
  <2>2. length = first * first + rest /\ cross = (2 * z) * first
        /\ twice = 2 * (first * e + rest)
    OBVIOUS
  <2> HIDE DEF length, cross, twice
  <2>3. PivotNumbers(e, rest, z, first, length, cross, twice)
    BY ONLY <1>3, <1>6, <1>8, <2>1, <2>2 DEF PivotNumbers
  <2>4. Reduce(length) = Reduce(cross) /\ Reduce(length) = Reduce(twice)
    BY ONLY <2>3, PivotAlgebra
  <2> QED
    BY <1>9, <2>4 DEF length, cross, twice
<1>12. first * e + rest \in Int
  <2>1. first * e \in Int
    BY <1>6
  <2> QED
    BY <1>8, <2>1
<1>13. l2 = Reduce(Reduce(root * (2 * sign)) * first)
  <2>1. root * (2 * sign) = 2 * z /\ 2 * z \in Int
    <3>1. CASE sign = 1
      BY <1>3, <3>1 DEF z
    <3>2. CASE sign = -1
      BY <1>3, <3>2 DEF z
    <3> QED
      BY <3>1, <3>2
  <2>2. root * (2 * sign) \in Int
    BY <2>1
  <2> QED
    BY <1>6, <1>11, <2>1, <2>2, ReduceMult
<1>14. l2 \in Field \ {0}
  <2>1. Reduce(root * (2 * sign)) \in Field \ {0}
    <3> DEFINE two == Reduce(2 * sign)
    <3>1. sign \in Int /\ 2 * sign \in Int
      OBVIOUS
    <3>2. two \in Field \ {0}
      <4>1. CASE sign = 1
        <5>1. 2 * sign = 2
          BY <4>1
        <5> QED
          BY <5>1, TwoIsNotZero, ReduceField
      <4>2. CASE sign = -1
        <5>1. 2 * sign = (P - 2) + P * (-1) /\ P - 2 \in Int /\ -1 \in Int
              /\ P - 2 \in Field \ {0}
          BY <4>2, PType DEF Field
        <5>2. Reduce((P - 2) + P * (-1)) = Reduce(P - 2)
          BY <5>1, ReduceShift
        <5> QED
          BY <5>1, <5>2, ReduceField
      <4> QED
        BY <4>1, <4>2
    <3>3. Reduce(two) = Reduce(2 * sign) /\ two \in Int
      BY <3>1, FieldReduced
    <3>4. Reduce(two * root) = Reduce((2 * sign) * root)
      BY <1>3, <3>1, ReduceMult
    <3> HIDE DEF two
    <3>5. (2 * sign) * root = root * (2 * sign)
      BY <1>3, <3>1
    <3> QED
      BY <1>3, <3>2, <3>4, <3>5, NonzeroProduct
  <2> QED
    BY <1>6, <1>13, <2>1, NonzeroProduct
<1>15. Reduce(TwoOver(l2) * lf) = 1
  <2> DEFINE inv == Reciprocal[l2]
             m == first * e + rest
  <2>1. inv \in Int /\ Reduce(l2 * inv) = 1 /\ l2 \in Int
    BY <1>14, ReciprocalType, FieldInt
  <2>2. TwoOver(l2) = Reduce(2 * inv) /\ lf = Reduce(m) /\ m \in Int /\ l2 = Reduce(2 * m)
    BY <1>10, <1>11, <1>12 DEF TwoOver
  <2> HIDE DEF inv, m
  <2>3. 2 * inv \in Int /\ 2 * m \in Int /\ lf \in Int
    BY <2>1, <2>2, FieldReduced
  <2>4. Reduce(Reduce(2 * inv) * lf) = Reduce((2 * inv) * lf)
    BY <2>3, ReduceMult
  <2>5. (2 * inv) * lf = lf * (2 * inv)
    BY <2>1, <2>3
  <2>6. Reduce(lf * (2 * inv)) = Reduce(m * (2 * inv))
    BY <2>2, <2>3, ReduceMult
  <2>7. m * (2 * inv) = (2 * m) * inv
    BY <2>1, <2>2
  <2>8. Reduce((2 * m) * inv) = Reduce(l2 * inv)
    BY <2>1, <2>2, <2>3, ReduceMult
  <2> QED
    BY <2>1, <2>2, <2>4, <2>5, <2>6, <2>7, <2>8
<1> QED
  BY <1>3, <1>5, <1>6, <1>7, <1>13, <1>14, <1>15 DEF l2, lf, first, e, z

-----------------------------------------------------------------------------
(* The circuits of a reflection. *)

(* A number in slot 0 and nothing elsewhere; the number in every slot of     *)
(* Index.                                                                    *)
IsScalar(ct, n) == ct \in CleanCts(1) /\ ct[0] = n

IsSpread(ct, n) == ct \in Cts /\ \A s \in Index : ct[s] = n

\* ReplicateSlot0 of a number is the number in every slot.
LEMMA SpreadValue ==
  ASSUME NEW ct, NEW n, IsScalar(ct, n)
  PROVE  IsSpread(ReplicateSlot0(ct, Size), n)
<1> USE Sizes
<1>1. ct \in Cts /\ Clean(ct, 1) /\ ct[0] = n
  BY DEF IsScalar, CleanCts
<1>2. ReplicateSlot0(ct, Size) \in Cts
  BY <1>1, TreesType
<1>3. \A s \in SlotIndex : s < Size => ReplicateSlot0(ct, Size)[s] = n
  BY <1>1, ReplicateValue
<1>4. \A s \in Index : s \in SlotIndex /\ s < Size
  BY Indices DEF Index
<1> QED
  BY <1>2, <1>3, <1>4 DEF IsSpread

\* The unit mask leaves the number in slot 0.
LEMMA MaskedScalar ==
  ASSUME NEW ct \in Cts
  PROVE  IsScalar(EvalMult(ct, Unit(0)), ct[0])
<1>1. EvalMult(ct, Unit(0)) \in CleanCts(1)
  BY CleanMasked, SlotsType DEF SlotIndex
<1> QED
  BY <1>1, Masked, SlotsType DEF IsScalar

\* One slot of a ciphertext, moved to slot 0.
LEMMA ExtractScalar ==
  ASSUME NEW ct \in Cts, NEW j \in Index
  PROVE  IsScalar(Extract(ct, j), ct[j])
<1>1. j \in SlotIndex /\ j \in Int
  BY Indices DEF Index
<1>2. Extract(ct, j) \in CleanCts(1)
  BY <1>1, CleanMasked
<1> QED
  BY <1>1, <1>2, ExtractValue DEF IsScalar

\* InnerSum of a clean ciphertext is the sum of its entries.
LEMMA SumScalar ==
  ASSUME NEW ct \in CleanCts(Size)
  PROVE  IsScalar(InnerSum(ct, Size), Total([s \in Index |-> ct[s]]))
<1> USE Sizes
<1>1. ct \in Cts /\ Clean(ct, Size)
  BY DEF CleanCts
<1>2. InnerSum(ct, Size) \in CleanCts(1) /\ SumSlots(ct, Size) \in Cts
  BY <1>1, CleanMasked, TreesType
<1>3. SumSlots(ct, Size)[0] = Total([s \in Index |-> ct[s]])
  BY <1>1, SumSlotsValue DEF Index
<1>4. InnerSum(ct, Size)[0] = SumSlots(ct, Size)[0]
  BY <1>2, Masked, SlotsType DEF InnerSum
<1> QED
  BY <1>2, <1>3, <1>4 DEF IsScalar

(* The circuits of norm, pivot and tau.                                      *)
LEMMA PackedPivot ==
  ASSUME NEW x0, NEW e \in Field, IsScalar(x0, e),
         NEW normSq \in Cts, NEW ns, ns = normSq[0], ns \in Squares \ {0},
         NEW sign \in {1, -1}, NEW root, root = Root[ns],
         NEW norm, norm = EvalMult(HeSqrt(normSq), Unit(0)),
         NEW v0, v0 = Pivot(x0, norm, sign),
         NEW first, first = Reduce(e + sign * root),
         NEW den, den = Reduce(Reduce(root * (2 * sign)) * first), den # 0
  PROVE  /\ IsScalar(norm, root) /\ IsScalar(v0, first)
         /\ IsScalar(Tau(norm, v0, sign), TwoOver(den))
<1>1. IsScalar(norm, root)
  <2>1. HeSqrt(normSq) \in Cts
    BY ChebyshevTypes
  <2>2. HeSqrt(normSq)[0] = root
    BY SlotsType DEF HeSqrt
  <2> QED
    BY <2>1, <2>2, MaskedScalar
<1>2. /\ norm \in Cts /\ norm[0] = root /\ x0 \in Cts /\ x0[0] = e
      /\ \A s \in SlotIndex : s # 0 => norm[s] = 0 /\ x0[s] = 0
      /\ 0 \in SlotIndex /\ SlotIndex \subseteq Nat
  BY <1>1, SlotsType DEF IsScalar, CleanCts, Clean
<1>3. sign \in Int /\ 2 * sign \in Int /\ root \in Int /\ e \in Int /\ root \in Field
  <2>1. root \in Field
    BY RootType
  <2> QED
    BY <2>1, FieldInt
<1>4. v0 = [s \in SlotIndex |-> Reduce(x0[s] + Reduce(norm[s] * sign))]
  BY DEF Pivot, EvalAdd, EvalScale
<1>5. v0 \in Cts
  <2>1. EvalScale(norm, sign) \in Cts
    BY <1>2, <1>3, SlotArithmetic
  <2> QED
    BY <1>2, <1>3, <2>1, SlotArithmetic DEF Pivot
<1>6. IsScalar(v0, first)
  <2>1. v0[0] = first
    <3>1. v0[0] = Reduce(e + Reduce(root * sign))
      BY <1>2, <1>4
    <3> DEFINE z == sign * root
    <3>2. z \in Int /\ root * sign = z
      BY <1>3
    <3> HIDE DEF z
    <3>3. Reduce(z) \in Int /\ Reduce(Reduce(z)) = Reduce(z)
      BY <3>2, FieldReduced
    <3>4. Reduce(e + Reduce(z)) = Reduce(e + z)
      BY <1>3, <3>2, <3>3, Congruent
    <3> QED
      BY <3>1, <3>2, <3>4 DEF z
  <2>2. ASSUME NEW s \in SlotIndex, s >= 1 PROVE v0[s] = 0
    <3>1. norm[s] = 0 /\ x0[s] = 0
      BY <1>2, <2>2
    <3>2. v0[s] = Reduce(0 + Reduce(0 * sign)) /\ 0 * sign = 0
      BY <1>3, <1>4, <3>1
    <3>3. Reduce(0) = 0 /\ 0 + 0 = 0
      BY PType, ReduceField
    <3> QED
      BY <3>2, <3>3
  <2> QED
    BY <1>5, <2>1, <2>2 DEF IsScalar, CleanCts, Clean
<1>7. IsScalar(Tau(norm, v0, sign), TwoOver(den))
  <2> DEFINE m == EvalMult(EvalScale(norm, 2 * sign), v0)
             inv == HeInv(m)
  <2>1. v0[0] = first /\ EvalScale(norm, 2 * sign) \in Cts
    BY <1>2, <1>3, <1>6, SlotArithmetic DEF IsScalar
  <2>2. m \in Cts
    BY <1>5, <2>1, SlotArithmetic
  <2>3. m[0] = den
    BY <1>2, <2>1 DEF EvalMult, EvalScale
  <2> HIDE DEF m
  <2>4. inv \in Cts /\ inv[0] = Reciprocal[den]
    <3>1. inv \in Cts
      BY <2>2, ChebyshevTypes
    <3> QED
      BY <1>2, <2>3, <3>1 DEF HeInv
  <2> HIDE DEF inv
  <2>5. EvalScale(inv, 2) \in Cts /\ EvalScale(inv, 2)[0] = Reduce(Reciprocal[den] * 2)
    <3>1. EvalScale(inv, 2) \in Cts
      <4>1. 2 \in Int /\ inv \in Cts
        BY <2>4
      <4> QED
        BY ONLY <4>1, SlotArithmetic
    <3>2. EvalScale(inv, 2) = [s \in SlotIndex |-> Reduce(inv[s] * 2)]
      BY DEF EvalScale
    <3> QED
      BY <1>2, <2>4, <3>1, <3>2
  <2>6. IsScalar(EvalMult(EvalScale(inv, 2), Unit(0)), Reduce(Reciprocal[den] * 2))
    BY <2>5, MaskedScalar
  <2>7. Reduce(Reciprocal[den] * 2) = TwoOver(den)
    <3>1. inv[0] \in Int
      BY <1>2, <2>4, FieldInt DEF Cts
    <3>2. inv[0] * 2 = 2 * inv[0]
      BY <3>1
    <3> QED
      BY <2>4, <3>2 DEF TwoOver
  <2> QED
    BY <2>6, <2>7 DEF Tau, m, inv
<1> QED
  BY <1>1, <1>6, <1>7

\* The entries of R and Q after a reflection of PlainQR.
NewLeft(a, p, sign, i, j) ==
  IF i \in From(p)
  THEN Less(a[i][j], TwoOver(Plain!Length2(Plain!Reflector(a, p, sign), p)),
            Plain!Reflector(a, p, sign)[i], Left(a, p, sign)[j])
  ELSE a[i][j]

NewRight(a, q, p, sign, i, j) ==
  IF j \in From(p)
  THEN Less(q[i][j], TwoOver(Plain!Length2(Plain!Reflector(a, p, sign), p)),
            Plain!Reflector(a, p, sign)[j], Right(a, q, p, sign)[i])
  ELSE q[i][j]

(* A reflector times a row of QMatrix. *)
QTimes(g, i) == Total([h \in From(k) |-> g[h] * Q[h][i]])

(* The reflector, replicated; and what a step makes of Q.                    *)
Replicated(vs, g) ==
  g \in [From(k) -> Field] /\ vs \in [Below -> Cts] /\ \A j \in From(k) : IsSpread(vs[j], g[j])

QReflected(t, g) ==
  \A i, j \in Index :
    Q'[j][i] = IF j \in From(k) THEN Less(Q[j][i], t, g[j], QTimes(g, i)) ELSE Q[j][i]

\* Apply, which both packings share: what it does to each entry of Q.
LEMMA ApplyValue ==
  ASSUME SlotInv, k < Size, NEW newR, NEW tau, NEW t, IsSpread(tau, t),
         NEW g, NEW vs, Replicated(vs, g), Apply(newR, tau, vs)
  PROVE  R' = newR /\ QReflected(t, g)
<1> USE DEF Replicated
<1>0. k \in Index /\ Below = From(k) /\ From(k) \subseteq Index /\ IsFiniteSet(From(k))
  <2>1. k \in Index
    BY Sizes DEF SlotInv, Index
  <2> QED
    BY <2>1, FromType DEF Below, From
<1>1. Q \in [Index -> Cts]
  BY DEF SlotInv, CleanCts
<1> DEFINE family == [j \in Below |-> EvalMult(vs[j], Q[j])]
           d == EvalTotal(family)
<1>2. /\ R' = newR
      /\ Q' = [j \in Index |->
                 IF j \in Below
                 THEN EvalSub(Q[j], EvalMult(EvalMult(tau, vs[j]), d)) ELSE Q[j]]
  BY DEF Apply
<1>3. family \in [From(k) -> Cts]
  BY <1>0, <1>1, SlotArithmetic
<1>4. ASSUME NEW i \in Index PROVE d[i] = QTimes(g, i)
  <2> DEFINE z == [h \in From(k) |-> Q[h][i]]
  <2>1. i \in SlotIndex
    BY Indices
  <2>2. z \in [From(k) -> Field]
    BY <1>0, <1>1, <2>1 DEF Cts
  <2>3. \A h \in From(k) : family[h][i] = Reduce(g[h] * z[h])
    BY <1>0, <2>1 DEF IsSpread, EvalMult
  <2>4. [h \in From(k) |-> g[h] * Q[h][i]] = [h \in From(k) |-> g[h] * z[h]]
    OBVIOUS
  <2> HIDE DEF family, z
  <2>5. EvalTotal(family)[i] = Total([h \in From(k) |-> g[h] * z[h]])
    BY <1>0, <1>3, <2>1, <2>2, <2>3, FamilyTotal
  <2> QED
    BY <2>4, <2>5 DEF QTimes
<1> HIDE DEF d
<1>5. ASSUME NEW i \in Index, NEW j \in From(k)
      PROVE  EvalSub(Q[j], EvalMult(EvalMult(tau, vs[j]), d))[i]
               = Less(Q[j][i], t, g[j], QTimes(g, i))
  <2>1. i \in SlotIndex /\ tau[i] = t /\ vs[j][i] = g[j]
    BY Indices DEF IsSpread
  <2> QED
    BY <1>4, <2>1, LessSlot
<1> QED
  BY <1>0, <1>2, <1>5 DEF QReflected

(* The decrypted matrices. *)
LEMMA MatrixTypes ==
  ASSUME SlotInv
  PROVE  /\ RMatrix \in [Index -> [Index -> Field]] /\ QMatrix \in [Index -> [Index -> Field]]
         /\ \A i, j \in Index : /\ R[i][j] \in Field /\ Q[i][j] \in Field
                                /\ QMatrix[i][j] = Q[j][i]
                                /\ RMatrix[i][j] = IF packing = "row" THEN R[i][j] ELSE R[j][i]
<1>1. \A i, j \in Index : R[i][j] \in Field /\ Q[i][j] \in Field
  BY Indices DEF SlotInv, CleanCts, Cts
<1> QED
  BY <1>1 DEF RMatrix, QMatrix

(* One step in terms of the decrypted matrices. *)
Reflected(sign) ==
  /\ Pivotal(RMatrix, k, sign)
  /\ \A i, j \in Index : /\ RMatrix'[i][j] = NewLeft(RMatrix, k, sign, i, j)
                         /\ QMatrix'[i][j] = NewRight(RMatrix, QMatrix, k, sign, i, j)

\* householder_step_fhe: the row packing carries out a reflection of PlainQR,
\* for whichever sign simulate_norms chose.
LEMMA RowReflection ==
  ASSUME SlotInv, packing = "row", packing' = packing, k < Size, ReflectRow
  PROVE  \E sign \in {1, -1} : Reflected(sign)
<1> USE Sizes
<1>1. k \in Index /\ k \in SlotIndex /\ k \in Int /\ Below = From(k) /\ k \in From(k)
      /\ From(k) \subseteq Index /\ IsFiniteSet(From(k)) /\ Index \subseteq SlotIndex
  <2>1. k \in Index
    BY DEF SlotInv, Index
  <2> QED
    BY <2>1, FromType, Indices DEF Below, From
<1>2. R \in [Index -> Cts]
  BY DEF SlotInv, CleanCts
<1> DEFINE a == RMatrix
           q == QMatrix
<1>3. /\ a \in [Index -> [Index -> Field]] /\ q \in [Index -> [Index -> Field]]
      /\ \A i, j \in Index : a[i][j] = R[i][j] /\ q[i][j] = Q[j][i] /\ a[i][j] \in Field
  BY MatrixTypes
<1> DEFINE xm == [j \in Below |-> EvalMult(R[j], Unit(k))]
           squares == [j \in Below |-> EvalMult(xm[j], xm[j])]
           normSq == Extract(EvalTotal(squares), k)
           norm == EvalMult(HeSqrt(normSq), Unit(0))
           x0 == Extract(xm[k], k)
           v0(sign) == Pivot(x0, norm, sign)
           tau(sign) == ReplicateSlot0(Tau(norm, v0(sign), sign), Size)
           vs(sign) == [j \in Below |->
                          ReplicateSlot0(IF j = k THEN v0(sign) ELSE Extract(xm[j], k), Size)]
           family(sign) == [j \in Below |-> EvalMult(vs(sign)[j], R[j])]
           newR(sign) == [j \in Index |->
                            IF j \in Below
                            THEN EvalSub(R[j], EvalMult(EvalMult(tau(sign), vs(sign)[j]),
                                                        EvalTotal(family(sign))))
                            ELSE R[j]]
<1>4. PICK sign \in SignFor(x0[0], normSq[0]) : Apply(newR(sign), tau(sign), vs(sign))
  BY DEF ReflectRow
<1>5. xm \in [From(k) -> Cts] /\ \A j \in From(k) : xm[j][k] = a[j][k]
  <2>1. \A j \in From(k) : EvalMult(R[j], Unit(k)) \in Cts /\ EvalMult(R[j], Unit(k))[k] = R[j][k]
    BY <1>1, <1>2, Masked
  <2>2. \A j \in From(k) : R[j][k] = a[j][k]
    BY <1>1, <1>3
  <2> QED
    BY <1>1, <2>1, <2>2
<1> HIDE DEF xm
<1> DEFINE ns == Plain!NormSquare(a, k)
<1>6. squares \in [From(k) -> Cts]
  BY <1>1, <1>5, SlotArithmetic
<1>7. EvalTotal(squares) \in Cts /\ EvalTotal(squares)[k] = ns
  <2> DEFINE h == [j \in From(k) |-> a[j][k]]
  <2>1. h \in [From(k) -> Field] /\ ns = Total([j \in From(k) |-> h[j] * h[j]])
    <3>1. [j \in From(k) |-> h[j] * h[j]] = [j \in From(k) |-> a[j][k] * a[j][k]]
      OBVIOUS
    <3>2. ns = Total([j \in From(k) |-> a[j][k] * a[j][k]])
      BY <1>1, PlainMeaning
    <3> QED
      BY <1>1, <1>3, <3>1, <3>2
  <2>2. \A j \in From(k) : squares[j][k] = Reduce(h[j] * h[j])
    BY <1>1, <1>5 DEF EvalMult
  <2> HIDE DEF squares, h, ns
  <2> QED
    BY <1>1, <1>6, <2>1, <2>2, FamilyTotal, EvalTotalType
<1> HIDE DEF squares, ns
<1>8. normSq \in Cts /\ normSq[0] = ns
  BY <1>1, <1>7, ExtractScalar DEF IsScalar, CleanCts
<1> HIDE DEF normSq
<1>9. IsScalar(x0, a[k][k]) /\ x0[0] = a[k][k]
  BY <1>1, <1>5, ExtractScalar DEF IsScalar
<1> HIDE DEF x0
<1>10. sign \in {1, -1} /\ Pivotal(a, k, sign) /\ ns \in Squares \ {0}
  BY <1>8, <1>9 DEF SignFor, Pivotal, ns
<1> DEFINE g == Plain!Reflector(a, k, sign)
           root == Root[ns]
           t == TwoOver(Plain!Length2(g, k))
<1>11. /\ g \in [From(k) -> Field] /\ root \in Field \ {0}
       /\ \A i \in From(k) : i # k => g[i] = a[i][k]
       /\ g[k] = Reduce(a[k][k] + sign * root)
       /\ Plain!Length2(g, k) \in Field \ {0}
       /\ Plain!Length2(g, k) = Reduce(Reduce(root * (2 * sign)) * g[k])
  <2> HIDE DEF a
  <2> QED
    BY <1>1, <1>3, <1>10, ReflectorFacts DEF ns
<1>12. IsScalar(v0(sign), g[k]) /\ IsScalar(Tau(norm, v0(sign), sign), t)
  <2> DEFINE l2 == Plain!Length2(g, k)
             first == g[k]
             pivot == v0(sign)
             nm == norm
             e == a[k][k]
  <2>1. /\ l2 = Reduce(Reduce(root * (2 * sign)) * first) /\ l2 # 0
        /\ first = Reduce(e + sign * root) /\ pivot = Pivot(x0, nm, sign)
        /\ nm = EvalMult(HeSqrt(normSq), Unit(0)) /\ e \in Field /\ root = Root[ns]
        /\ IsScalar(x0, e)
    BY <1>1, <1>3, <1>9, <1>11
  <2> HIDE DEF l2, first, pivot, nm, e, root, a, ns
  <2>2. IsScalar(pivot, first) /\ IsScalar(Tau(nm, pivot, sign), TwoOver(l2))
    BY <1>8, <1>10, <2>1, PackedPivot
  <2> QED
    BY <2>2 DEF l2, first, pivot, nm, a, ns
<1> HIDE DEF norm, v0, g, t, root
<1>13. IsSpread(tau(sign), t)
  BY <1>12, SpreadValue
<1>14. ASSUME NEW j \in From(k) PROVE IsSpread(vs(sign)[j], g[j])
  <2>1. CASE j = k
    BY <1>1, <1>12, <2>1, SpreadValue
  <2>2. CASE j # k
    <3>1. IsScalar(Extract(xm[j], k), g[j])
      BY <1>1, <1>5, <1>11, <2>2, ExtractScalar
    <3> QED
      BY <1>1, <2>2, <3>1, SpreadValue
  <2> QED
    BY <2>1, <2>2
<1>15. vs(sign) \in [Below -> Cts]
  BY <1>1, <1>14 DEF IsSpread
<1> HIDE DEF tau, vs
<1>16. ASSUME NEW j \in Index PROVE EvalTotal(family(sign))[j] = Left(a, k, sign)[j]
  <2> DEFINE h == [i \in From(k) |-> a[i][j]]
             cts == family(sign)
  <2>1. h \in [From(k) -> Field] /\ j \in SlotIndex
    BY <1>1, <1>3
  <2>2. cts \in [From(k) -> Cts]
    BY <1>1, <1>2, <1>15, SlotArithmetic
  <2>3. \A i \in From(k) : cts[i][j] = Reduce(g[i] * h[i])
    BY <1>1, <1>3, <1>14, <2>1 DEF IsSpread, EvalMult
  <2>4. Left(a, k, sign)[j] = Total([i \in From(k) |-> g[i] * h[i]])
    <3>1. [i \in From(k) |-> g[i] * h[i]] = [i \in From(k) |-> g[i] * a[i][j]]
      OBVIOUS
    <3> QED
      BY <3>1 DEF Left, g
  <2> HIDE DEF h, cts
  <2>5. EvalTotal(cts)[j] = Total([i \in From(k) |-> g[i] * h[i]])
    <3>1. g \in [From(k) -> Field] /\ IsFiniteSet(From(k))
      BY <1>1, <1>11
    <3>2. h \in [From(k) -> Field] /\ j \in SlotIndex
      BY <2>1
    <3> QED
      BY ONLY <2>2, <2>3, <3>1, <3>2, FamilyTotal
  <2> QED
    BY <2>4, <2>5 DEF cts
<1>17. R' = newR(sign) /\ QReflected(t, g)
  <2> DEFINE new == newR(sign)
             scale == tau(sign)
             spread == vs(sign)
  <2>1. /\ Apply(new, scale, spread) /\ IsSpread(scale, t) /\ Replicated(spread, g)
        /\ SlotInv /\ k < Size
    BY <1>4, <1>11, <1>13, <1>14, <1>15 DEF Replicated
  <2> HIDE DEF new, scale, spread
  <2>2. R' = new /\ QReflected(t, g)
    BY ONLY <2>1, ApplyValue
  <2> QED
    BY <2>2 DEF new
<1> HIDE DEF family
<1>18. ASSUME NEW i \in Index, NEW j \in Index
       PROVE  RMatrix'[i][j] = NewLeft(a, k, sign, i, j)
  <2>1. RMatrix'[i][j] = R'[i][j]
    BY DEF RMatrix
  <2>2. CASE i \in From(k)
    <3>1. R'[i] = EvalSub(R[i], EvalMult(EvalMult(tau(sign), vs(sign)[i]),
                                         EvalTotal(family(sign))))
      BY <1>1, <1>17, <2>2
    <3>2. tau(sign)[j] = t /\ vs(sign)[i][j] = g[i] /\ j \in SlotIndex
      BY <1>1, <1>13, <1>14, <2>2 DEF IsSpread
    <3>3. R'[i][j] = Less(R[i][j], t, g[i], Left(a, k, sign)[j])
      BY <1>16, <3>1, <3>2, LessSlot
    <3> QED
      BY <1>3, <2>1, <2>2, <3>3 DEF NewLeft, g, t
  <2>3. CASE i \notin From(k)
    BY <1>1, <1>3, <1>17, <2>1, <2>3 DEF NewLeft
  <2> QED
    BY <2>2, <2>3
<1>19. ASSUME NEW i \in Index, NEW j \in Index
       PROVE  QMatrix'[i][j] = NewRight(a, q, k, sign, i, j)
  <2>1. QMatrix'[i][j] = Q'[j][i]
    BY DEF QMatrix
  <2>2. Right(a, q, k, sign)[i] = QTimes(g, i)
    <3>1. [h \in From(k) |-> g[h] * Q[h][i]] = [h \in From(k) |-> g[h] * q[i][h]]
      BY <1>1, <1>3
    <3> QED
      BY <3>1 DEF Right, g, QTimes
  <2> QED
    BY <1>3, <1>17, <2>1, <2>2 DEF NewRight, QReflected, g, t
<1> QED
  BY <1>10, <1>18, <1>19 DEF Reflected

\* The packed sum of the products of two ciphertexts, one of them zero above
\* the pivot.
LEMMA ProductsFrom ==
  ASSUME NEW p \in Index, NEW ct \in CleanCts(Size), NEW other \in Cts,
         NEW g \in [From(p) -> Field], NEW h \in [From(p) -> Field],
         \A s \in Index : ct[s] = IF s \in From(p) THEN g[s] ELSE 0,
         \A s \in From(p) : other[s] = h[s]
  PROVE  IsScalar(InnerSum(EvalMult(ct, other), Size), Total([i \in From(p) |-> g[i] * h[i]]))
<1> USE Sizes
<1> DEFINE m == EvalMult(ct, other)
           f == [s \in Index |-> m[s]]
<1>1. ct \in Cts /\ m \in CleanCts(Size) /\ m \in Cts
  <2>1. ct \in Cts
    BY DEF CleanCts
  <2>2. m \in CleanCts(Size)
    BY <2>1, CleanOperations
  <2> QED
    BY <2>1, <2>2 DEF CleanCts
<1>2. \A s \in Index : s \in SlotIndex /\ m[s] = Reduce(ct[s] * other[s])
  BY Indices DEF EvalMult
<1>3. ASSUME NEW s \in Index
      PROVE  f[s] \in Field /\ f[s] = IF s \in From(p) THEN Reduce(g[s] * h[s]) ELSE 0
  <2>1. f[s] = m[s] /\ f[s] \in Field
    BY <1>1, <1>2 DEF Cts
  <2>2. s \in From(p) => f[s] = Reduce(g[s] * h[s])
    BY <1>2, <2>1
  <2>3. s \notin From(p) => f[s] = 0
    <3>1. other[s] \in Int /\ Reduce(0) = 0
      BY <1>2, FieldInt, PType, ReduceField DEF Cts
    <3>2. 0 * other[s] = 0
      BY <3>1
    <3> QED
      BY <1>2, <2>1, <3>1, <3>2
  <2> QED
    BY <2>1, <2>2, <2>3
<1>4. f \in [Index -> Field]
  BY <1>3
<1> HIDE DEF f
<1>5. Total(f) = Total([i \in From(p) |-> g[i] * h[i]])
  BY <1>3, <1>4, TotalFrom
<1> HIDE DEF m
<1>6. IsScalar(InnerSum(m, Size), Total(f))
  BY <1>1, SumScalar DEF f
<1> QED
  BY <1>5, <1>6 DEF m

\* x + ||x|| e_k: the pivot of the norm in slot k, the entries of x elsewhere.
LEMMA ShiftedOnto ==
  ASSUME NEW p \in Index, NEW xs \in Cts, NEW norm, NEW root \in Field, IsScalar(norm, root),
         NEW s \in SlotIndex
  PROVE  EvalAdd(xs, EvalRotate(norm, -p))[s] = IF s = p THEN Reduce(xs[s] + root) ELSE xs[s]
<1>1. norm \in Cts /\ Clean(norm, 1) /\ norm[0] = root /\ p \in SlotIndex
  BY Indices DEF IsScalar, CleanCts
<1>2. EvalRotate(norm, -p)[s] = IF s = p THEN root ELSE 0
  BY <1>1, Placed
<1>3. xs[s] \in Field
  BY DEF Cts
<1>4. xs[s] \in Int /\ Reduce(xs[s]) = xs[s]
  BY <1>3, FieldInt, ReduceField
<1>5. xs[s] + 0 = xs[s]
  BY <1>4
<1> QED
  BY <1>2, <1>4, <1>5 DEF EvalAdd

\* householder_step_fhe_col: so does the column packing, for positive signs.
LEMMA ColReflection ==
  ASSUME SlotInv, packing = "col", packing' = packing, ~negative', k < Size, ReflectCol
  PROVE  \E sign \in {1, -1} : Reflected(sign)
<1> USE Sizes
<1>1. /\ k \in Index /\ k \in SlotIndex /\ k \in Int /\ Below = From(k) /\ k \in From(k)
      /\ From(k) \subseteq Index /\ IsFiniteSet(From(k)) /\ Index \subseteq SlotIndex
      /\ \A s \in SlotIndex : s >= Size => s \notin From(k)
  <2>1. k \in Index
    BY DEF SlotInv, Index
  <2>2. \A s \in SlotIndex : s >= Size => s \notin From(k)
    BY SlotsType DEF From
  <2> QED
    BY <2>1, <2>2, FromType, Indices DEF Below, From
<1>2. R \in [Index -> CleanCts(Size)] /\ R \in [Index -> Cts]
  BY DEF SlotInv, CleanCts
<1> DEFINE a == RMatrix
           q == QMatrix
<1>3. /\ a \in [Index -> [Index -> Field]] /\ q \in [Index -> [Index -> Field]]
      /\ \A i, j \in Index : a[i][j] = R[j][i] /\ q[i][j] = Q[j][i] /\ a[i][j] \in Field
  BY MatrixTypes
<1> DEFINE xk == [s \in SlotIndex |-> IF s \in Below THEN R[k][s] ELSE 0]
           normSq == InnerSum(EvalMult(xk, xk), Size)
           norm == EvalMult(HeSqrt(normSq), Unit(0))
           x0 == Extract(xk, k)
           vk == EvalAdd(xk, EvalRotate(norm, -k))
           v0(sign) == Pivot(x0, norm, sign)
           tau(sign) == ReplicateSlot0(Tau(norm, v0(sign), sign), Size)
           Dots(j) == ReplicateSlot0(InnerSum(EvalMult(vk, R[j]), Size), Size)
           newR(sign) == [j \in Index |-> EvalSub(R[j], EvalMult(EvalMult(tau(sign), vk), Dots(j)))]
           vs == [j \in Below |-> ReplicateSlot0(Extract(vk, j), Size)]
<1>4. PICK sign \in SignFor(x0[0], normSq[0]) :
        Apply(newR(sign), tau(sign), vs) /\ negative' = (negative \/ sign = -1)
  BY DEF ReflectCol
<1>5. /\ xk \in CleanCts(Size) /\ xk \in Cts
      /\ \A s \in Index : xk[s] = IF s \in From(k) THEN a[s][k] ELSE 0
  <2>1. R[k] \in Cts
    BY <1>1, <1>2
  <2>2. xk \in Cts
    BY <2>1, PType DEF Cts
  <2>3. Clean(xk, Size)
    BY <1>1 DEF Clean
  <2>4. \A s \in Index : xk[s] = IF s \in From(k) THEN a[s][k] ELSE 0
    BY <1>1, <1>3
  <2> QED
    BY <2>2, <2>3, <2>4 DEF CleanCts
<1> HIDE DEF xk
<1> DEFINE ns == Plain!NormSquare(a, k)
<1>6. normSq \in Cts /\ normSq[0] = ns
  <2> DEFINE h == [i \in From(k) |-> a[i][k]]
             z == xk
  <2>1. h \in [From(k) -> Field]
    BY <1>1, <1>3
  <2>2. ns = Total([i \in From(k) |-> h[i] * h[i]])
    <3>1. [j \in From(k) |-> h[j] * h[j]] = [j \in From(k) |-> a[j][k] * a[j][k]]
      OBVIOUS
    <3>2. ns = Total([j \in From(k) |-> a[j][k] * a[j][k]])
      BY <1>1, PlainMeaning
    <3> QED
      BY <3>1, <3>2
  <2>3. \A s \in Index : z[s] = IF s \in From(k) THEN h[s] ELSE 0
    BY <1>1, <1>5
  <2>4. \A s \in From(k) : z[s] = h[s]
    BY <1>1, <2>3
  <2>5. z \in CleanCts(Size) /\ z \in Cts
    BY <1>5
  <2>6. normSq = InnerSum(EvalMult(z, z), Size)
    OBVIOUS
  <2> HIDE DEF normSq, h, ns, z
  <2>7. IsScalar(InnerSum(EvalMult(z, z), Size), Total([i \in From(k) |-> h[i] * h[i]]))
    BY ONLY <1>1, <2>1, <2>3, <2>4, <2>5, ProductsFrom
  <2> QED
    BY <2>2, <2>6, <2>7 DEF IsScalar, CleanCts
<1> HIDE DEF normSq, ns
<1>7. IsScalar(x0, a[k][k]) /\ x0[0] = a[k][k]
  BY <1>1, <1>5, ExtractScalar DEF IsScalar
<1> HIDE DEF x0
<1>8. sign \in {1, -1} /\ sign = 1 /\ Pivotal(a, k, sign) /\ ns \in Squares \ {0}
  <2>1. sign # -1
    BY ONLY <1>4, ~negative', Zenon
  <2> QED
    BY <1>6, <1>7, <2>1 DEF SignFor, Pivotal, ns
<1> DEFINE g == Plain!Reflector(a, k, sign)
           root == Root[ns]
           t == TwoOver(Plain!Length2(g, k))
<1>9. /\ g \in [From(k) -> Field] /\ root \in Field \ {0}
      /\ \A i \in From(k) : i # k => g[i] = a[i][k]
      /\ g[k] = Reduce(a[k][k] + sign * root)
      /\ Plain!Length2(g, k) \in Field \ {0}
      /\ Plain!Length2(g, k) = Reduce(Reduce(root * (2 * sign)) * g[k])
  <2> HIDE DEF a
  <2> QED
    BY <1>1, <1>3, <1>8, ReflectorFacts DEF ns
<1>10. IsScalar(norm, root) /\ IsScalar(Tau(norm, v0(sign), sign), t) /\ t \in Field
  <2> DEFINE l2 == Plain!Length2(g, k)
             first == g[k]
             pivot == v0(sign)
             nm == norm
             e == a[k][k]
  <2>1. /\ l2 = Reduce(Reduce(root * (2 * sign)) * first) /\ l2 \in Field \ {0}
        /\ first = Reduce(e + sign * root) /\ pivot = Pivot(x0, nm, sign)
        /\ nm = EvalMult(HeSqrt(normSq), Unit(0)) /\ e \in Field /\ root = Root[ns]
        /\ IsScalar(x0, e)
    BY <1>1, <1>3, <1>7, <1>9
  <2> HIDE DEF l2, first, pivot, nm, e, root, a, ns
  <2>2. IsScalar(nm, root) /\ IsScalar(Tau(nm, pivot, sign), TwoOver(l2))
    BY <1>6, <1>8, <2>1, PackedPivot
  <2>3. TwoOver(l2) \in Field
    BY <2>1, TwoOverType
  <2> QED
    BY <2>2, <2>3 DEF l2, first, pivot, nm, a, ns
<1> HIDE DEF norm, v0, t
<1>11. IsSpread(tau(sign), t)
  BY <1>10, SpreadValue
<1> HIDE DEF tau
<1>12. /\ vk \in CleanCts(Size) /\ vk \in Cts
       /\ \A s \in Index : vk[s] = IF s \in From(k) THEN g[s] ELSE 0
  <2>1. norm \in Cts /\ norm \in CleanCts(1) /\ Clean(norm, 1) /\ root \in Field
    BY <1>9, <1>10 DEF IsScalar, CleanCts
  <2>2. EvalRotate(norm, -k) \in CleanCts(Size)
    BY <1>1, <2>1, CleanPlaced
  <2>3. EvalRotate(norm, -k) \in Cts
    BY <2>2 DEF CleanCts
  <2>4. vk \in CleanCts(Size)
    BY <1>5, <2>2, <2>3, CleanOperations
  <2>5. ASSUME NEW s \in Index PROVE vk[s] = IF s \in From(k) THEN g[s] ELSE 0
    <3>1. vk[s] = IF s = k THEN Reduce(xk[s] + root) ELSE xk[s]
      <4> HIDE DEF root
      <4> QED
        BY <1>1, <1>5, <1>10, <2>1, ShiftedOnto
    <3>2. CASE s = k
      <4>1. root \in Int
        BY <2>1, FieldInt
      <4>2. sign * root = root
        <5> HIDE DEF root
        <5> QED
          BY <1>8, <4>1
      <4> QED
        BY <1>1, <1>5, <1>9, <3>1, <3>2, <4>2
    <3>3. CASE s # k
      BY <1>1, <1>5, <1>9, <3>1, <3>3
    <3> QED
      BY <3>2, <3>3
  <2> QED
    BY <2>4, <2>5 DEF CleanCts
<1> HIDE DEF vk, g, root
<1>13. ASSUME NEW j \in From(k) PROVE IsSpread(vs[j], g[j])
  <2>1. vk[j] = g[j] /\ j \in Index /\ j \in Below
    BY <1>1, <1>12
  <2>2. IsScalar(Extract(vk, j), vk[j])
    BY <1>12, <2>1, ExtractScalar
  <2> QED
    BY <2>1, <2>2, SpreadValue
<1>14. vs \in [Below -> Cts]
  BY <1>1, <1>13 DEF IsSpread
<1> HIDE DEF vs
<1>15. ASSUME NEW j \in Index
       PROVE  IsSpread(Dots(j), Left(a, k, sign)[j]) /\ Left(a, k, sign)[j] \in Field
  <2> DEFINE h == [i \in From(k) |-> a[i][j]]
             column == R[j]
  <2>1. h \in [From(k) -> Field] /\ column \in Cts /\ \A s \in From(k) : column[s] = h[s]
    BY <1>1, <1>2, <1>3
  <2>2. Left(a, k, sign)[j] = Total([i \in From(k) |-> g[i] * h[i]])
    <3>1. [i \in From(k) |-> g[i] * h[i]] = [i \in From(k) |-> g[i] * a[i][j]]
      OBVIOUS
    <3> QED
      BY <3>1 DEF Left, g
  <2> HIDE DEF h, column
  <2>3. IsScalar(InnerSum(EvalMult(vk, column), Size), Total([i \in From(k) |-> g[i] * h[i]]))
    BY ONLY <1>1, <1>9, <1>12, <2>1, ProductsFrom
  <2>4. IsScalar(InnerSum(EvalMult(vk, R[j]), Size), Left(a, k, sign)[j])
    BY <2>2, <2>3 DEF column
  <2>5. Left(a, k, sign)[j] \in Field
    BY <2>4, SlotsType DEF IsScalar, CleanCts, Cts
  <2> QED
    BY <2>4, <2>5, SpreadValue
<1> HIDE DEF Dots
<1>16. R' = newR(sign) /\ QReflected(t, g)
  <2> DEFINE new == newR(sign)
             scale == tau(sign)
             spread == vs
  <2>1. /\ Apply(new, scale, spread) /\ IsSpread(scale, t) /\ Replicated(spread, g)
        /\ SlotInv /\ k < Size
    BY <1>4, <1>9, <1>11, <1>13, <1>14 DEF Replicated
  <2> HIDE DEF new, scale, spread
  <2>2. R' = new /\ QReflected(t, g)
    BY ONLY <2>1, ApplyValue
  <2> QED
    BY <2>2 DEF new
<1>17. ASSUME NEW i \in Index, NEW j \in Index
       PROVE  RMatrix'[i][j] = NewLeft(a, k, sign, i, j)
  <2>1. RMatrix'[i][j] = R'[j][i]
    BY DEF RMatrix
  <2>2. R'[j] = EvalSub(R[j], EvalMult(EvalMult(tau(sign), vk), Dots(j)))
    BY <1>16
  <2> DEFINE m == IF i \in From(k) THEN g[i] ELSE 0
             y == Left(a, k, sign)[j]
  <2>3. tau(sign)[i] = t /\ vk[i] = m /\ Dots(j)[i] = y /\ i \in SlotIndex
    BY <1>1, <1>11, <1>12, <1>15 DEF IsSpread
  <2>4. R'[j][i] = Less(R[j][i], t, m, y)
    <3> HIDE DEF m, y
    <3> QED
      BY <2>2, <2>3, LessSlot
  <2>5. CASE i \in From(k)
    BY <1>3, <2>1, <2>4, <2>5 DEF NewLeft, g, t
  <2>6. CASE i \notin From(k)
    <3>1. R[j][i] \in Field /\ R[j][i] = a[i][j] /\ y \in Field /\ m = 0
      BY <1>3, <1>15, <2>6
    <3>2. Less(R[j][i], t, 0, y) = R[j][i]
      BY <1>10, <3>1, LessNothing
    <3> QED
      BY <2>1, <2>4, <2>6, <3>1, <3>2 DEF NewLeft
  <2> QED
    BY <2>5, <2>6
<1>18. ASSUME NEW i \in Index, NEW j \in Index
       PROVE  QMatrix'[i][j] = NewRight(a, q, k, sign, i, j)
  <2>1. QMatrix'[i][j] = Q'[j][i]
    BY DEF QMatrix
  <2>2. Right(a, q, k, sign)[i] = QTimes(g, i)
    <3>1. [h \in From(k) |-> g[h] * Q[h][i]] = [h \in From(k) |-> g[h] * q[i][h]]
      BY <1>1, <1>3
    <3> QED
      BY <3>1 DEF Right, g, QTimes
  <2> QED
    BY <1>3, <1>16, <2>1, <2>2 DEF NewRight, QReflected, g, t
<1> QED
  BY <1>8, <1>17, <1>18 DEF Reflected

-----------------------------------------------------------------------------
(* The encrypted reflections are those of PlainQR. *)

\* The columns left of the pivot are zero below the diagonal.
Triangular ==
  \A j \in 0..(k - 1) : \A i \in (j + 1)..(Size - 1) : RMatrix[i][j] = 0

\* A column that is zero from the pivot on is not changed.
LEMMA LeftFacts ==
  ASSUME NEW a \in [Index -> [Index -> Field]], NEW p \in Index, NEW sign,
         NEW g \in [From(p) -> Field], g = Plain!Reflector(a, p, sign),
         NEW j \in Index
  PROVE  /\ Left(a, p, sign)[j] \in Field
         /\ (\A i \in From(p) : a[i][j] = 0) => Left(a, p, sign)[j] = 0
<1> DEFINE f == [i \in From(p) |-> g[i] * a[i][j]]
<1>1. \A i \in From(p) : g[i] \in Int /\ a[i][j] \in Int
  BY FromType, FieldInt
<1>2. f \in [From(p) -> Int]
  BY <1>1
<1>3. Left(a, p, sign)[j] = Total(f)
  BY DEF Left
<1>4. Total(f) \in Field
  BY <1>2, FromType, TotalType
<1>5. ASSUME \A i \in From(p) : a[i][j] = 0 PROVE Total(f) = 0
  <2>1. \A i \in From(p) : f[i] = 0
    BY <1>1, <1>5
  <2> HIDE DEF f
  <2> QED
    BY <1>2, <2>1, FromType, TotalZero
<1> QED
  BY <1>3, <1>4, <1>5

LEMMA RightType ==
  ASSUME NEW a, NEW q \in [Index -> [Index -> Field]], NEW p \in Index, NEW sign,
         NEW g \in [From(p) -> Field], g = Plain!Reflector(a, p, sign),
         NEW i \in Index
  PROVE  Right(a, q, p, sign)[i] \in Field
<1> DEFINE f == [j \in From(p) |-> g[j] * q[i][j]]
<1>1. \A j \in From(p) : g[j] \in Int /\ q[i][j] \in Int
  BY FromType, FieldInt
<1>2. f \in [From(p) -> Int]
  BY <1>1
<1>3. Right(a, q, p, sign)[i] = Total(f)
  BY DEF Right
<1> QED
  BY <1>2, <1>3, FromType, TotalType

\* A reflection clears its column below the pivot, leaves a pivot that is not
\* zero, and does not touch the columns to the left.
LEMMA TriangularReflected ==
  ASSUME SlotInv, Triangular, k < Size, k' = k + 1, NEW sign \in {1, -1}, Reflected(sign)
  PROVE  /\ Triangular'
         /\ \A i, j \in Index : j \notin From(k) => RMatrix'[i][j] = RMatrix[i][j]
         /\ RMatrix'[k][k] # 0
<1> USE Sizes
<1>1. /\ k \in Index /\ k \in Nat /\ k \in From(k) /\ From(k) \subseteq Index
      /\ IsFiniteSet(From(k))
  <2>1. k \in Index
    BY DEF SlotInv, Index
  <2> QED
    BY <2>1, FromType
<1> DEFINE a == RMatrix
<1>2. a \in [Index -> [Index -> Field]]
  BY MatrixTypes
<1>3. Pivotal(a, k, sign) /\ \A i, j \in Index : RMatrix'[i][j] = NewLeft(a, k, sign, i, j)
  BY DEF Reflected
<1>4. \A j \in 0..(k - 1) : \A i \in (j + 1)..(Size - 1) : a[i][j] = 0
  BY DEF Triangular
<1> HIDE DEF a
<1> DEFINE g == Plain!Reflector(a, k, sign)
           root == Root[Plain!NormSquare(a, k)]
           l2 == Plain!Length2(g, k)
           left == Left(a, k, sign)
           t == TwoOver(l2)
<1>5. /\ g \in [From(k) -> Field] /\ root \in Field \ {0}
      /\ \A i \in From(k) : i # k => g[i] = a[i][k]
      /\ g[k] = Reduce(a[k][k] + sign * root)
      /\ l2 \in Field \ {0}
      /\ Reduce(t * left[k]) = 1
  BY <1>1, <1>2, <1>3, ReflectorFacts
<1>6. t \in Field
  BY <1>5, TwoOverType
<1>7. \A j \in Index : left[j] \in Field /\ ((\A i \in From(k) : a[i][j] = 0) => left[j] = 0)
  <2> HIDE DEF left
  <2> SUFFICES ASSUME NEW j \in Index
               PROVE  left[j] \in Field /\ ((\A i \in From(k) : a[i][j] = 0) => left[j] = 0)
    OBVIOUS
  <2> DEFINE z == g
  <2>1. z \in [From(k) -> Field] /\ z = Plain!Reflector(a, k, sign)
    BY <1>5
  <2> HIDE DEF z
  <2> QED
    BY <1>1, <1>2, <2>1, LeftFacts DEF left
<1>8. \A i, j \in Index :
        RMatrix'[i][j] = IF i \in From(k) THEN Less(a[i][j], t, g[i], left[j]) ELSE a[i][j]
  BY <1>3 DEF NewLeft
<1> HIDE DEF g, l2, left, t
<1>9. ASSUME NEW i \in Index, NEW j \in Index, j \notin From(k)
      PROVE  RMatrix'[i][j] = a[i][j]
  <2>1. j \in Nat /\ j < k
    BY <1>1, <1>9 DEF Index, From
  <2>2. CASE i \in From(k)
    <3>1. \A h \in From(k) : a[h][j] = 0
      <4>1. \A h \in From(k) : h \in (j + 1)..(Size - 1)
        BY <1>1, <2>1 DEF From
      <4>2. j \in 0..(k - 1)
        BY <1>1, <2>1
      <4> QED
        BY <1>4, <4>1, <4>2
    <3>2. left[j] = 0
      BY <1>7, <3>1
    <3>3. a[i][j] \in Field /\ g[i] \in Field
      BY <1>2, <1>5, <2>2
    <3>4. Less(a[i][j], t, g[i], 0) = a[i][j]
      BY <1>6, <3>3, LessZero
    <3> QED
      BY <1>8, <2>2, <3>2, <3>4
  <2>3. CASE i \notin From(k)
    BY <1>8, <2>3
  <2> QED
    BY <2>2, <2>3
<1>10. ASSUME NEW i \in From(k), i # k PROVE RMatrix'[i][k] = 0
  <2>1. i \in Index /\ a[i][k] \in Field /\ g[i] = a[i][k] /\ left[k] \in Field
    BY <1>1, <1>2, <1>5, <1>7, <1>10
  <2>2. Less(a[i][k], t, a[i][k], left[k]) = 0
    <3> DEFINE e == a[i][k]
               y == left[k]
    <3>1. e \in Field /\ y \in Field /\ t \in Field /\ Reduce(t * y) = 1
      BY <1>5, <1>6, <2>1 DEF t, left
    <3> HIDE DEF e, y
    <3>2. Less(e, t, e, y) = 0
      BY <3>1, LessItself
    <3> QED
      BY <3>2 DEF e, y
  <2> QED
    BY <1>1, <1>8, <2>1, <2>2
<1>11. Triangular'
  <2> SUFFICES ASSUME NEW j \in 0..(k' - 1), NEW i \in (j + 1)..(Size - 1)
               PROVE  RMatrix'[i][j] = 0
    BY DEF Triangular
  <2>1. j \in Nat /\ j <= k /\ i \in Index /\ j \in Index /\ j < i
    BY <1>1 DEF Index
  <2>2. CASE j = k
    <3>1. i \in From(k) /\ i # k
      BY <1>1, <2>1, <2>2 DEF From, Index
    <3> QED
      BY <1>10, <2>2, <3>1
  <2>3. CASE j # k
    <3>1. j \in 0..(k - 1) /\ j \notin From(k)
      BY <1>1, <2>1, <2>3 DEF From
    <3> QED
      BY <1>4, <1>9, <2>1, <3>1
  <2> QED
    BY <2>2, <2>3
<1>12. RMatrix'[k][k] # 0
  <2> DEFINE e == a[k][k]
             y == left[k]
             first == g[k]
             z == sign * root
  <2>1. /\ e \in Field /\ e \in Int /\ root \in Int /\ y \in Field /\ y \in Int /\ t \in Int
        /\ first \in Field /\ first \in Int
    BY <1>1, <1>2, <1>5, <1>6, <1>7, FieldInt
  <2>2. RMatrix'[k][k] = Less(e, t, first, y)
    BY <1>1, <1>8
  <2>3. Reduce(t * y) = 1
    BY <1>5 DEF t, left
  <2>4. z \in Int /\ first = Reduce(e + z)
    <3>1. z \in Int
      <4> HIDE DEF root
      <4> QED
        BY <2>1
    <3> QED
      BY <1>5, <3>1
  <2> HIDE DEF e, y, first
  <2>5. Less(first, t, first, y) = 0
    BY <1>6, <2>1, <2>3, LessItself
  <2> DEFINE m == Reduce(Reduce(t * first) * y)
  <2>6. m \in Field /\ m \in Int
    <3>1. t * first \in Int
      BY <2>1
    <3>2. Reduce(t * first) \in Int
      BY <3>1, ReduceType
    <3>3. Reduce(t * first) * y \in Int
      BY <2>1, <3>2
    <3> QED
      BY <3>3, ReduceType
  <2>7. Reduce(first - m) = 0 /\ Less(e, t, first, y) = Reduce(e - m)
    BY <2>5 DEF Less
  <2> HIDE DEF m, z
  <2>8. ASSUME Reduce(e - m) = 0 PROVE FALSE
    <3>6. Reduce(z) = 0
      BY ONLY <2>1, <2>4, <2>6, <2>7, <2>8, NewPivot
    <3>7. Reduce(sign * root) # 0
      <4> DEFINE ns == Plain!NormSquare(a, k)
      <4>1. ns \in Squares \ {0}
        BY <1>3 DEF Pivotal
      <4>2. Reduce((sign * Root[ns]) * (sign * Root[ns])) = ns /\ sign * Root[ns] \in Int
        BY <4>1, SignedRoot
      <4> HIDE DEF ns
      <4> DEFINE u1 == sign * Root[ns]
      <4>3. Reduce(u1 * u1) = ns /\ u1 \in Int /\ ns # 0
        BY <4>1, <4>2
      <4> HIDE DEF u1
      <4>5. Reduce(u1) # 0
        BY <4>3, SquareZero
      <4> QED
        BY <4>5 DEF u1, ns
    <3> QED
      BY <3>6, <3>7 DEF z
  <2> QED
    BY <2>2, <2>7, <2>8
<1> QED
  BY <1>9, <1>11, <1>12 DEF a

\* No pivot of a column done is zero.
Pivots == \A j \in 0..(k - 1) : RMatrix[j][j] # 0

\* Both packings at once.
LEMMA ReflectedReflects ==
  ASSUME SlotInv, Reflect, SignHonoured'
  PROVE  /\ \E sign \in {1, -1} : Reflected(sign)
         /\ k < Size /\ k' = k + 1 /\ k \in Index /\ packing' = packing
<1>1. k < Size /\ k' = k + 1 /\ packing' = packing
  BY DEF Reflect, dataVars
<1>2. k \in Index
  BY <1>1, Sizes DEF SlotInv, Index
<1>3. (packing = "row" /\ ReflectRow) \/ (packing = "col" /\ ReflectCol)
  BY DEF Reflect
<1>4. \E sign \in {1, -1} : Reflected(sign)
  BY <1>1, <1>3, RowReflection, ColReflection DEF SignHonoured
<1> QED
  BY <1>1, <1>2, <1>4

\* The step on the decrypted matrices is that of PlainQR.
LEMMA PlainReflection ==
  ASSUME SlotInv, Triangular, k < Size, k' = k + 1, NEW sign \in {1, -1}, Reflected(sign)
  PROVE  Plain!Reflect(sign)
<1> USE Sizes
<1>1. k \in Index /\ k \in From(k) /\ From(k) \subseteq Index
  <2>1. k \in Index
    BY DEF SlotInv, Index
  <2> QED
    BY <2>1, FromType
<1>2. RMatrix \in [Index -> [Index -> Field]] /\ QMatrix \in [Index -> [Index -> Field]]
  BY MatrixTypes
<1>3. /\ Pivotal(RMatrix, k, sign)
      /\ \A i, j \in Index : /\ RMatrix'[i][j] = NewLeft(RMatrix, k, sign, i, j)
                             /\ QMatrix'[i][j] = NewRight(RMatrix, QMatrix, k, sign, i, j)
  BY DEF Reflected
<1>4. \A i, j \in Index : j \notin From(k) => RMatrix'[i][j] = RMatrix[i][j]
  BY TriangularReflected
<1> DEFINE a == RMatrix
           q == QMatrix
           g == Plain!Reflector(a, k, sign)
           l2 == Plain!Length2(g, k)
           left == Left(a, k, sign)
           right == Right(a, q, k, sign)
           less(entry, y) == Reduce(entry - 2 * Reciprocal[l2] * y)
           nr(i, j) == IF i \in From(k) /\ j \in From(k)
                       THEN less(a[i][j], g[i] * left[j]) ELSE a[i][j]
           nq(i, j) == IF j \in From(k) THEN less(q[i][j], right[i] * g[j]) ELSE q[i][j]
<1>5. /\ g \in [From(k) -> Field]
      /\ l2 \in Field \ {0}
  <2> DEFINE a0 == a
             z == Plain!Reflector(a0, k, sign)
             root == Root[Plain!NormSquare(a0, k)]
  <2>1. /\ z = Plain!Reflector(a0, k, sign) /\ root = Root[Plain!NormSquare(a0, k)]
        /\ a0 \in [Index -> [Index -> Field]] /\ Pivotal(a0, k, sign)
    BY <1>2, <1>3
  <2> HIDE DEF a0, z, root
  <2>2. z \in [From(k) -> Field] /\ Plain!Length2(z, k) \in Field \ {0}
    BY <1>1, <2>1, ReflectorFacts
  <2> QED
    BY <2>2 DEF a0, z
<1>6. \A j \in Index : left[j] \in Field /\ right[j] \in Field
  <2> SUFFICES ASSUME NEW j \in Index PROVE left[j] \in Field /\ right[j] \in Field
    OBVIOUS
  <2> DEFINE z == g
             a0 == a
             q0 == q
  <2>1. /\ z \in [From(k) -> Field] /\ z = Plain!Reflector(a0, k, sign)
        /\ a0 \in [Index -> [Index -> Field]] /\ q0 \in [Index -> [Index -> Field]]
    BY <1>2, <1>5
  <2> HIDE DEF z, a0, q0
  <2>2. Left(a0, k, sign)[j] \in Field /\ Right(a0, q0, k, sign)[j] \in Field
    BY <1>1, <2>1, LeftFacts, RightType
  <2> QED
    BY <2>2 DEF a0, q0
<1>7. ASSUME NEW i \in Index, NEW j \in Index PROVE RMatrix'[i][j] = nr(i, j)
  <2>1. CASE i \in From(k) /\ j \in From(k)
    <3> DEFINE e == a[i][j]
               m == g[i]
               y == left[j]
    <3>1. e \in Field /\ m \in Field /\ y \in Field
      BY <1>2, <1>5, <1>6, <2>1
    <3>2. RMatrix'[i][j] = Less(e, TwoOver(l2), m, y)
      BY <1>3, <2>1 DEF NewLeft
    <3> HIDE DEF e, m, y, l2
    <3>3. Less(e, TwoOver(l2), m, y) = Reduce(e - 2 * Reciprocal[l2] * (m * y))
      BY <1>5, <3>1, LessPlain
    <3> QED
      BY <2>1, <3>2, <3>3 DEF e, m, y, l2
  <2>2. CASE i \notin From(k)
    BY <1>3, <2>2 DEF NewLeft
  <2>3. CASE j \notin From(k)
    BY <1>4, <2>3
  <2> QED
    BY <2>1, <2>2, <2>3
<1>8. ASSUME NEW i \in Index, NEW j \in Index PROVE QMatrix'[i][j] = nq(i, j)
  <2>1. CASE j \in From(k)
    <3> DEFINE e == q[i][j]
               m == g[j]
               y == right[i]
    <3>1. e \in Field /\ m \in Field /\ y \in Field
      BY <1>2, <1>5, <1>6, <2>1
    <3>2. QMatrix'[i][j] = Less(e, TwoOver(l2), m, y)
      BY <1>3, <2>1 DEF NewRight
    <3> HIDE DEF e, m, y, l2
    <3>3. Less(e, TwoOver(l2), m, y) = Reduce(e - 2 * Reciprocal[l2] * (y * m))
      BY <1>5, <3>1, LessPlain
    <3> QED
      BY <2>1, <3>2, <3>3 DEF e, m, y, l2
  <2>2. CASE j \notin From(k)
    BY <1>3, <2>2 DEF NewRight
  <2> QED
    BY <2>1, <2>2
<1>9. RMatrix' = [i \in Index |-> [j \in Index |-> nr(i, j)]]
  <2> HIDE DEF nr
  <2>1. RMatrix' = [i \in Index |-> [j \in Index |-> RMatrix'[i][j]]]
    BY DEF RMatrix
  <2> QED
    BY <1>7, <2>1
<1>10. QMatrix' = [i \in Index |-> [j \in Index |-> nq(i, j)]]
  <2> HIDE DEF nq
  <2>1. QMatrix' = [i \in Index |-> [j \in Index |-> QMatrix'[i][j]]]
    BY DEF QMatrix
  <2> QED
    BY <1>8, <2>1
<1>11. /\ Plain!NormSquare(a, k) \in Squares \ {0}
       /\ left = [j \in Index |-> Total([i \in From(k) |-> g[i] * a[i][j]])]
       /\ right = [i \in Index |-> Total([j \in From(k) |-> g[j] * q[i][j]])]
  BY <1>3 DEF Pivotal, Left, Right
<1> HIDE DEF g, l2, left, right
<1>12. /\ RMatrix' = [i \in Plain!Index |-> [j \in Plain!Index |->
                       IF i \in From(k) /\ j \in From(k)
                       THEN less(a[i][j], g[i] * left[j]) ELSE a[i][j]]]
       /\ QMatrix' = [i \in Plain!Index |-> [j \in Plain!Index |->
                       IF j \in From(k) THEN less(q[i][j], right[i] * g[j]) ELSE q[i][j]]]
       /\ left = [j \in Plain!Index |-> Plain!Total([i \in From(k) |-> g[i] * a[i][j]])]
       /\ right = [i \in Plain!Index |-> Plain!Total([j \in From(k) |-> g[j] * q[i][j]])]
       /\ Plain!NormSquare(a, k) \in Plain!Squares \ {0}
       /\ \A entry, y : less(entry, y) = Plain!Reduce(entry - 2 * Plain!Reciprocal[l2] * y)
  BY <1>9, <1>10, <1>11, SameArithmetic
<1> HIDE DEF less
<1> QED
  BY <1>5, <1>12 DEF Plain!Reflect, g, l2, From, less

\* The other steps leave R and Q alone.
LEMMA MatricesKept ==
  ASSUME packing' = packing, R' = R, Q' = Q
  PROVE  RMatrix' = RMatrix /\ QMatrix' = QMatrix
BY DEF RMatrix, QMatrix

LEMMA OtherStepsKeepMatrices ==
  ASSUME [Next]_vars
  PROVE  \/ Reflect
         \/ packing' = packing /\ k' = k /\ RMatrix' = RMatrix /\ QMatrix' = QMatrix
<1>1. CASE ~Reflect
  <2>1. packing' = packing /\ k' = k /\ R' = R /\ Q' = Q
    BY <1>1 DEF Next, MatmulTVec, BackSubstituteRow, Weights, Predict, vars, dataVars, qrVars
  <2> QED
    BY <2>1, MatricesKept
<1> QED
  BY <1>1

\* A sign that is not honoured is never made good.
LEMMA HonouredBefore ==
  ASSUME [Next]_vars, SignHonoured'
  PROVE  SignHonoured
<1>1. packing' = packing
  BY DEF Next, Reflect, MatmulTVec, BackSubstituteRow, Weights, Predict, vars, dataVars
<1>2. negative => negative'
  <2>1. CASE Reflect
    <3>1. ReflectRow \/ ReflectCol
      BY <2>1 DEF Reflect
    <3>2. \E sign : negative' = (negative \/ sign = -1)
      BY <3>1 DEF ReflectRow, ReflectCol
    <3> QED
      BY ONLY <3>2, Zenon
  <2>2. CASE ~Reflect
    BY <2>2 DEF Next, MatmulTVec, BackSubstituteRow, Weights, Predict, vars, qrVars
  <2> QED
    BY <2>1, <2>2
<1> QED
  BY <1>1, <1>2 DEF SignHonoured

\* What the reflections keep, as long as every sign is honoured.
QrInv == SlotInv /\ Triangular /\ Pivots

LEMMA QrAtTheStart == Init => QrInv
<1> SUFFICES ASSUME Init PROVE QrInv
  OBVIOUS
<1>1. k = 0
  BY DEF Init
<1> QED
  BY <1>1, SlotsAtTheStart DEF QrInv, Triangular, Pivots

LEMMA QrAtEveryStep ==
  ASSUME QrInv, [Next]_vars, SignHonoured'
  PROVE  QrInv' /\ [Plain!PlainNext]_(Plain!plainVars)
<1>1. SlotInv'
  BY SlotsAtEveryStep DEF QrInv
<1>2. CASE Reflect
  <2>1. /\ k < Size /\ k' = k + 1 /\ k \in Index /\ packing' = packing
        /\ SlotInv /\ Triangular /\ Pivots
    BY <1>2, ReflectedReflects DEF QrInv
  <2>2. PICK sign \in {1, -1} : Reflected(sign)
    BY <1>2, <2>1, ReflectedReflects
  <2>3. /\ Triangular' /\ RMatrix'[k][k] # 0
        /\ \A i, j \in Index : j \notin From(k) => RMatrix'[i][j] = RMatrix[i][j]
    BY <2>1, <2>2, TriangularReflected
  <2>4. Pivots'
    <3> SUFFICES ASSUME NEW j \in 0..(k' - 1) PROVE RMatrix'[j][j] # 0
      BY DEF Pivots
    <3>1. CASE j = k
      BY <2>3, <3>1
    <3>2. CASE j # k
      <4>1. j \in 0..(k - 1) /\ j \in Index /\ j \notin From(k)
        BY <2>1, <3>2, Sizes DEF Index, From
      <4> QED
        BY <2>1, <2>3, <4>1 DEF Pivots
    <3> QED
      BY <3>1, <3>2
  <2>5. Plain!Reflect(sign)
    BY <2>1, <2>2, PlainReflection
  <2>6. Plain!PlainNext
    BY <2>5 DEF Plain!PlainNext
  <2> QED
    BY <1>1, <2>3, <2>4, <2>6 DEF QrInv
<1>3. CASE ~Reflect
  <2>1. packing' = packing /\ k' = k /\ RMatrix' = RMatrix /\ QMatrix' = QMatrix
    BY <1>3, OtherStepsKeepMatrices
  <2>2. Triangular' /\ Pivots'
    BY <2>1 DEF QrInv, Triangular, Pivots
  <2> QED
    BY <1>1, <2>1, <2>2 DEF QrInv, Plain!plainVars
<1> QED
  BY <1>2, <1>3

LEMMA PlainAtTheStart == Init => Plain!PlainInit
<1> SUFFICES ASSUME Init PROVE Plain!PlainInit
  OBVIOUS
<1>1. SlotInv /\ k = 0 /\ Q = [j \in Index |-> Unit(j)]
  BY SlotsAtTheStart DEF Init
<1>2. RMatrix \in [Index -> [Index -> Field]]
  BY <1>1, MatrixTypes
<1>3. QMatrix = [i \in Index |-> [j \in Index |-> IF i = j THEN 1 ELSE 0]]
  <2>1. \A i, j \in Index : Q[j][i] = IF i = j THEN 1 ELSE 0
    BY <1>1, Indices DEF Unit
  <2> QED
    BY <2>1 DEF QMatrix
<1> QED
  BY <1>1, <1>2, <1>3, SameArithmetic DEF Plain!PlainInit, Plain!Matrix, Plain!Identity

(* For every prime, size and number of slots: what qr_decompose_row and     *)
(* qr_decompose_col do to their ciphertexts is, on the decrypted matrices,  *)
(* the Householder reflections of the plaintext qr_householder.py, with no  *)
(* trace of rotations, masks, replications or of the junk that the          *)
(* Chebyshev series leave in unused slots.  The row solver with either sign *)
(* of each pivot; the column solver, which adds the norm whatever the sign,  *)
(* up to its first negative pivot.                                          *)
THEOREM ReflectionsArePlain == Spec => ImplementsPlain
<1> DEFINE HonouredQr == SignHonoured => QrInv
<1>1. HonouredQr /\ [Next]_vars
        => HonouredQr' /\ [SignHonoured' => Plain!PlainNext]_(Plain!plainVars)
  <2> SUFFICES ASSUME HonouredQr, [Next]_vars, SignHonoured'
               PROVE  QrInv' /\ [Plain!PlainNext]_(Plain!plainVars)
    OBVIOUS
  <2>1. SignHonoured
    BY HonouredBefore
  <2> QED
    BY <2>1, QrAtEveryStep
<1>2. Init => HonouredQr
  BY QrAtTheStart
<1> HIDE DEF HonouredQr
<1> QED
  BY <1>1, <1>2, PlainAtTheStart, PTL DEF Spec, ImplementsPlain

-----------------------------------------------------------------------------
(* The reflections factor the matrix of the client. *)

\* A reflection with its reflector extended by zeros above the pivot.
Householder(m, t) ==
  /\ m \in Line /\ t \in Field /\ Reduce(t * DotProduct(m, m)) = 2
  /\ \A i, j \in Index :
       /\ RMatrix'[i][j] = Less(RMatrix[i][j], t, m[i], DotProduct(Column(RMatrix, j), m))
       /\ QMatrix'[i][j] = Less(QMatrix[i][j], t, m[j], DotProduct(QMatrix[i], m))

\* Every reflection of a step is one of these.
LEMMA ReflectedIsHouseholder ==
  ASSUME SlotInv, k < Size, NEW sign \in {1, -1}, Reflected(sign)
  PROVE  \E m, t : Householder(m, t)
<1>1. k \in Index /\ k \in From(k) /\ From(k) \subseteq Index
  <2>1. k \in Index
    BY Sizes DEF SlotInv, Index
  <2> QED
    BY <2>1, FromType
<1> DEFINE a == RMatrix
           q == QMatrix
<1>2. a \in [Index -> [Index -> Field]] /\ q \in [Index -> [Index -> Field]]
  BY MatrixTypes
<1>3. /\ Pivotal(a, k, sign)
      /\ \A i, j \in Index : /\ RMatrix'[i][j] = NewLeft(a, k, sign, i, j)
                             /\ QMatrix'[i][j] = NewRight(a, q, k, sign, i, j)
  BY DEF Reflected
<1> DEFINE g == Plain!Reflector(a, k, sign)
           root == Root[Plain!NormSquare(a, k)]
           l2 == Plain!Length2(g, k)
           t == TwoOver(l2)
           m == [i \in Index |-> IF i \in From(k) THEN g[i] ELSE 0]
           left == Left(a, k, sign)
           right == Right(a, q, k, sign)
<1>4. \A i, j \in Index :
        /\ RMatrix'[i][j] = IF i \in From(k) THEN Less(a[i][j], t, g[i], left[j]) ELSE a[i][j]
        /\ QMatrix'[i][j] = IF j \in From(k) THEN Less(q[i][j], t, g[j], right[i]) ELSE q[i][j]
  BY <1>3 DEF NewLeft, NewRight
<1>5. /\ \A j \in Index : left[j] = Total([i \in From(k) |-> g[i] * a[i][j]])
      /\ \A i \in Index : right[i] = Total([j \in From(k) |-> g[j] * q[i][j]])
      /\ l2 = Total([i \in From(k) |-> g[i] * g[i]])
  <2> HIDE DEF a
  <2> QED
    BY <1>1, PlainMeaning DEF Left, Right
<1>6. g \in [From(k) -> Field] /\ l2 \in Field \ {0}
  <2> DEFINE z == g
  <2>1. z = Plain!Reflector(a, k, sign) /\ root = Root[Plain!NormSquare(a, k)]
    OBVIOUS
  <2> HIDE DEF z, root, a
  <2>2. z \in [From(k) -> Field] /\ Plain!Length2(z, k) \in Field \ {0}
    BY <1>1, <1>2, <1>3, <2>1, ReflectorFacts
  <2> QED
    BY <2>2 DEF z
<1> HIDE DEF a, q, g, l2, left, right
<1>7. t \in Field /\ Reduce(t * l2) = 2
  BY <1>6, TwoOverType, TwoOverTimes
<1> HIDE DEF t
<1>8. m \in Line /\ \A i \in Index : m[i] = IF i \in From(k) THEN g[i] ELSE 0
  BY <1>6, PType DEF Line
<1> HIDE DEF m
<1>9. ASSUME NEW j \in Index PROVE Column(a, j) \in Line /\ q[j] \in Line
  BY <1>2 DEF Column, Line
<1>10. ASSUME NEW j \in Index
       PROVE  left[j] = DotProduct(Column(a, j), m) /\ right[j] = DotProduct(q[j], m)
  <2>1. DotProduct(Column(a, j), m) = Total([i \in From(k) |-> g[i] * Column(a, j)[i]])
    BY <1>1, <1>6, <1>8, <1>9, DotFrom
  <2>2. DotProduct(q[j], m) = Total([i \in From(k) |-> g[i] * q[j][i]])
    BY <1>1, <1>6, <1>8, <1>9, DotFrom
  <2>3. [i \in From(k) |-> g[i] * Column(a, j)[i]] = [i \in From(k) |-> g[i] * a[i][j]]
    BY <1>1 DEF Column
  <2> QED
    BY <1>5, <2>1, <2>2, <2>3
<1>11. l2 = DotProduct(m, m)
  <2>1. DotProduct(m, m) = Total([i \in From(k) |-> g[i] * m[i]])
    BY <1>1, <1>6, <1>8, DotFrom
  <2>2. [i \in From(k) |-> g[i] * m[i]] = [i \in From(k) |-> g[i] * g[i]]
    BY <1>1, <1>8
  <2> QED
    BY <1>5, <2>1, <2>2
<1>12. ASSUME NEW i \in Index, NEW j \in Index
       PROVE  /\ RMatrix'[i][j] = Less(a[i][j], t, m[i], left[j])
              /\ QMatrix'[i][j] = Less(q[i][j], t, m[j], right[i])
  <2>1. left[j] \in Field /\ right[i] \in Field
    BY <1>8, <1>9, <1>10, DotProducts
  <2>2. a[i][j] \in Field /\ q[i][j] \in Field
    BY <1>2
  <2>3. Less(a[i][j], t, 0, left[j]) = a[i][j] /\ Less(q[i][j], t, 0, right[i]) = q[i][j]
    BY <1>7, <2>1, <2>2, LessNothing
  <2>4. RMatrix'[i][j] = Less(a[i][j], t, m[i], left[j])
    BY <1>4, <1>8, <2>3
  <2>5. QMatrix'[i][j] = Less(q[i][j], t, m[j], right[i])
    BY <1>4, <1>8, <2>3
  <2> QED
    BY <2>4, <2>5
<1>13. Householder(m, t)
  <2>1. Reduce(t * DotProduct(m, m)) = 2
    BY <1>7, <1>11
  <2> QED
    BY <1>7, <1>8, <1>10, <1>12, <2>1 DEF Householder, a, q
<1> QED
  BY <1>13

\* Q R is the matrix of the client.
Factored ==
  \A i, j \in Index :
    DotProduct(QMatrix[i], Column(RMatrix, j)) = SystemMatrix(train)[i][j]

\* Encrypted packs the matrix of the client, and Q is the identity.
LEMMA FactoredAtTheStart ==
  ASSUME Init
  PROVE  Factored /\ Orthonormal(QMatrix) /\ Orthonormal(Columns(QMatrix))
<1>1. SlotInv /\ train \in Clients /\ Q = [j \in Index |-> Unit(j)]
      /\ R = Encrypted(SystemMatrix(train), packing) /\ packing \in {"row", "col"}
  BY SlotsAtTheStart DEF Init, SlotInv
<1>2. RMatrix \in [Index -> [Index -> Field]] /\ QMatrix \in [Index -> [Index -> Field]]
  BY <1>1, MatrixTypes
<1>3. ASSUME NEW i \in Index
      PROVE  QMatrix[i] = UnitLine(i) /\ Columns(QMatrix)[i] = UnitLine(i)
  <2>1. \A j \in Index : QMatrix[i][j] = UnitLine(i)[j] /\ QMatrix[j][i] = UnitLine(i)[j]
    <3>1. \A j, h \in Index : Q[j][h] = IF h = j THEN 1 ELSE 0
      BY <1>1, Indices DEF Unit
    <3> QED
      BY <3>1 DEF QMatrix, UnitLine
  <2>2. UnitLine(i) = [j \in Index |-> UnitLine(i)[j]] /\ QMatrix[i] = [j \in Index |-> QMatrix[i][j]]
    BY DEF UnitLine, QMatrix
  <2>3. Columns(QMatrix)[i] = [j \in Index |-> QMatrix[j][i]]
    BY DEF Columns, Column
  <2> QED
    BY <2>1, <2>2, <2>3
<1>4. ASSUME NEW i \in Index, NEW j \in Index
      PROVE  RMatrix[i][j] = SystemMatrix(train)[i][j]
  <2> DEFINE a == SystemMatrix(train)
  <2>1. a[i][j] \in Field /\ Reduce(a[i][j]) = a[i][j]
    BY <1>1, SystemTypes, ReduceField
  <2> HIDE DEF a
  <2>2. i \in SlotIndex /\ j \in SlotIndex /\ i < Size /\ j < Size
    BY Indices, Sizes DEF Index
  <2>3. CASE packing = "row"
    <3>1. RMatrix[i][j] = R[i][j]
      BY <2>3 DEF RMatrix
    <3>2. R[i] = Packed(Size, a[i])
      BY <1>1, <2>3 DEF Encrypted, a
    <3> QED
      BY <2>1, <2>2, <3>1, <3>2 DEF Packed, a
  <2>4. CASE packing = "col"
    <3>1. RMatrix[i][j] = R[j][i]
      BY <2>4 DEF RMatrix
    <3>2. R[j] = Packed(Size, [s \in Index |-> a[s][j]])
      BY <1>1, <2>4 DEF Encrypted, a
    <3> QED
      BY <2>1, <2>2, <3>1, <3>2 DEF Packed, a
  <2> QED
    BY <1>1, <2>3, <2>4
<1>5. Factored
  <2> SUFFICES ASSUME NEW i \in Index, NEW j \in Index
               PROVE  DotProduct(QMatrix[i], Column(RMatrix, j)) = SystemMatrix(train)[i][j]
    BY DEF Factored
  <2>1. Column(RMatrix, j) \in Line /\ Column(RMatrix, j)[i] = RMatrix[i][j]
    BY <1>2, LinesOf
  <2>2. DotProduct(UnitLine(i), Column(RMatrix, j)) = RMatrix[i][j]
    BY <2>1, UnitLines
  <2> QED
    BY <1>3, <1>4, <2>2
<1>6. ASSUME NEW i \in Index, NEW j \in Index
      PROVE  DotProduct(UnitLine(i), UnitLine(j)) = UnitLine(i)[j]
  <2>1. UnitLine(i) \in Line
    BY PType DEF UnitLine, Line
  <2> QED
    BY <2>1, UnitLines
<1> QED
  BY <1>3, <1>5, <1>6 DEF Orthonormal

\* Reflecting the columns of R and the rows of Q keeps their products: with
\* orthonormal columns, Q reflects its own rows along the same reflector.
LEMMA HouseholderKeeps ==
  ASSUME SlotInv, Factored, Orthonormal(QMatrix), Orthonormal(Columns(QMatrix)),
         SlotInv', train' = train, NEW m, NEW t, Householder(m, t)
  PROVE  Factored' /\ Orthonormal(QMatrix)' /\ Orthonormal(Columns(QMatrix))'
<1> DEFINE a == RMatrix
           q == QMatrix
           a2 == RMatrix'
           q2 == QMatrix'
<1>1. /\ a \in [Index -> [Index -> Field]] /\ q \in [Index -> [Index -> Field]]
      /\ a2 \in [Index -> [Index -> Field]] /\ q2 \in [Index -> [Index -> Field]]
  <2>1. SlotInv => RMatrix \in [Index -> [Index -> Field]] /\ QMatrix \in [Index -> [Index -> Field]]
    BY MatrixTypes
  <2>2. SlotInv' => RMatrix' \in [Index -> [Index -> Field]] /\ QMatrix' \in [Index -> [Index -> Field]]
    <3>1. SlotInv' => \A i, j \in Index : R'[i][j] \in Field /\ Q'[i][j] \in Field
      BY Indices DEF SlotInv, CleanCts, Cts
    <3> QED
      BY <3>1 DEF RMatrix, QMatrix
  <2> QED
    BY <2>1, <2>2
<1>2. /\ m \in Line /\ t \in Field /\ Reduce(t * DotProduct(m, m)) = 2
      /\ \A i, j \in Index :
           /\ a2[i][j] = Less(a[i][j], t, m[i], DotProduct(Column(a, j), m))
           /\ q2[i][j] = Less(q[i][j], t, m[j], DotProduct(q[i], m))
  BY DEF Householder
<1>3. /\ \A i, j \in Index : DotProduct(q[i], Column(a, j)) = SystemMatrix(train)[i][j]
      /\ \A i, j \in Index : DotProduct(q[i], q[j]) = UnitLine(i)[j]
      /\ \A i, j \in Index : DotProduct(Column(q, i), Column(q, j)) = UnitLine(i)[j]
  BY DEF Factored, Orthonormal, Columns
<1> HIDE DEF a, q, a2, q2
<1>4. ASSUME NEW i \in Index, NEW j \in Index
      PROVE  /\ DotProduct(q2[i], Column(a2, j)) = DotProduct(q[i], Column(a, j))
             /\ DotProduct(q2[i], q2[j]) = DotProduct(q[i], q[j])
  <2> DEFINE u1 == q[i]
             u2 == q2[i]
             v1 == Column(a, j)
             v2 == Column(a2, j)
             w1 == q[j]
             w2 == q2[j]
             y == DotProduct(u1, m)
             z == DotProduct(v1, m)
             y2 == DotProduct(w1, m)
  <2>1. u1 \in Line /\ u2 \in Line /\ v1 \in Line /\ v2 \in Line /\ w1 \in Line /\ w2 \in Line
    BY <1>1, LinesOf
  <2>2. /\ \A h \in Index : u2[h] = Less(u1[h], t, m[h], y)
        /\ \A h \in Index : v2[h] = Less(v1[h], t, m[h], z)
        /\ \A h \in Index : w2[h] = Less(w1[h], t, m[h], y2)
    <3>1. \A h \in Index : v1[h] = a[h][j] /\ v2[h] = a2[h][j]
      BY DEF Column
    <3>2. \A h \in Index : v2[h] = Less(v1[h], t, m[h], z)
      BY <1>2, <3>1
    <3>3. /\ \A h \in Index : u2[h] = Less(u1[h], t, m[h], y)
          /\ \A h \in Index : w2[h] = Less(w1[h], t, m[h], y2)
      BY <1>2
    <3> QED
      BY <3>2, <3>3
  <2>3. y = DotProduct(u1, m) /\ z = DotProduct(v1, m) /\ y2 = DotProduct(w1, m)
    OBVIOUS
  <2> HIDE DEF u1, u2, v1, v2, w1, w2
  <2>4. y \in Field /\ z \in Field /\ y2 \in Field
    BY <1>2, <2>1, DotProducts
  <2> HIDE DEF y, z, y2
  <2>5. DotProduct(u2, v2) = DotProduct(u1, v1)
    BY ONLY <1>2, <2>1, <2>2, <2>3, <2>4, ReflectionKeepsProducts
  <2>6. DotProduct(u2, w2) = DotProduct(u1, w1)
    BY ONLY <1>2, <2>1, <2>2, <2>3, <2>4, ReflectionKeepsProducts
  <2> QED
    BY <2>5, <2>6 DEF u1, u2, v1, v2, w1, w2
<1> DEFINE rho == [i \in Index |-> DotProduct(q[i], m)]
<1>5. rho \in Line /\ \A i \in Index : rho[i] = DotProduct(q[i], m)
  <2>1. \A i \in Index : DotProduct(q[i], m) \in Field
    BY <1>1, <1>2, LinesOf, DotProducts
  <2> QED
    BY <2>1 DEF Line
<1> HIDE DEF rho
<1>6. ASSUME NEW e \in Line
      PROVE  DotProduct(e, rho) = DotProduct([h \in Index |-> DotProduct(e, Column(q, h))], m)
  <2>1. m \in Line
    BY <1>2
  <2>2. q \in [Index -> [Index -> Field]]
    BY <1>1
  <2> QED
    BY ONLY <1>5, <1>6, <2>1, <2>2, ThroughMatrix
<1>7. ASSUME NEW j \in Index PROVE DotProduct(Column(q, j), rho) = m[j]
  <2>1. Column(q, j) \in Line
    BY <1>1, LinesOf
  <2>2. [h \in Index |-> DotProduct(Column(q, j), Column(q, h))] = UnitLine(j)
    <3>1. \A h \in Index : DotProduct(Column(q, j), Column(q, h)) = UnitLine(j)[h]
      BY <1>3
    <3>2. UnitLine(j) = [h \in Index |-> UnitLine(j)[h]]
      BY DEF UnitLine
    <3> QED
      BY <3>1, <3>2
  <2> QED
    BY <1>2, <1>6, <2>1, <2>2, UnitLines
<1>8. DotProduct(rho, rho) = DotProduct(m, m)
  <2>1. [h \in Index |-> DotProduct(rho, Column(q, h))] = m
    <3>1. \A h \in Index : DotProduct(rho, Column(q, h)) = m[h]
      BY <1>1, <1>5, <1>7, LinesOf, DotProducts
    <3> QED
      BY <1>2, <3>1 DEF Line
  <2> QED
    BY <1>5, <1>6, <2>1
<1>9. ASSUME NEW i \in Index, NEW j \in Index
      PROVE  DotProduct(Column(q2, i), Column(q2, j)) = DotProduct(Column(q, i), Column(q, j))
  <2> DEFINE u1 == Column(q, i)
             u2 == Column(q2, i)
             v1 == Column(q, j)
             v2 == Column(q2, j)
             y == m[i]
             z == m[j]
  <2>1. u1 \in Line /\ u2 \in Line /\ v1 \in Line /\ v2 \in Line
    BY <1>1, LinesOf
  <2>2. y \in Field /\ z \in Field /\ y = DotProduct(u1, rho) /\ z = DotProduct(v1, rho)
    BY <1>2, <1>7 DEF Line
  <2>3. ASSUME NEW h \in Index
        PROVE  u2[h] = Less(u1[h], t, rho[h], y) /\ v2[h] = Less(v1[h], t, rho[h], z)
    <3>1. u2[h] = Less(u1[h], t, y, rho[h]) /\ v2[h] = Less(v1[h], t, z, rho[h])
      <4>1. u2[h] = q2[h][i] /\ v2[h] = q2[h][j] /\ u1[h] = q[h][i] /\ v1[h] = q[h][j]
        BY DEF Column
      <4> QED
        BY <1>2, <1>5, <4>1
    <3> DEFINE e1 == u1[h]
               e2 == v1[h]
               rh == rho[h]
    <3>2. e1 \in Field /\ e2 \in Field /\ rh \in Field /\ t \in Field
      BY <1>2, <1>5, <2>1 DEF Line
    <3> HIDE DEF e1, e2, rh, y, z
    <3>3. Less(e1, t, y, rh) = Less(e1, t, rh, y) /\ Less(e2, t, z, rh) = Less(e2, t, rh, z)
      BY ONLY <2>2, <3>2, LessSwap
    <3> QED
      BY <3>1, <3>3 DEF e1, e2, rh, y, z
  <2> HIDE DEF u1, u2, v1, v2, y, z
  <2>4. Reduce(t * DotProduct(rho, rho)) = 2 /\ t \in Field /\ rho \in Line
    BY <1>2, <1>5, <1>8
  <2>5. DotProduct(u2, v2) = DotProduct(u1, v1)
    BY ONLY <2>1, <2>2, <2>3, <2>4, ReflectionKeepsProducts
  <2> QED
    BY <2>5 DEF u1, u2, v1, v2
<1>10. Factored'
  BY <1>3, <1>4 DEF Factored, a2, q2
<1>11. Orthonormal(QMatrix)'
  BY <1>3, <1>4 DEF Orthonormal, q2
<1>12. Orthonormal(Columns(QMatrix))'
  BY <1>3, <1>9 DEF Orthonormal, Columns, q2
<1> QED
  BY <1>10, <1>11, <1>12

\* The decomposition: what the reflections keep, and that they triangulate.
DecompositionInv ==
  QrInv /\ Factored /\ Orthonormal(QMatrix) /\ Orthonormal(Columns(QMatrix))

LEMMA DecompositionAtEveryStep ==
  ASSUME DecompositionInv, [Next]_vars, SignHonoured'
  PROVE  DecompositionInv'
<1>1. QrInv' /\ SlotInv' /\ SlotInv
  BY QrAtEveryStep DEF DecompositionInv, QrInv
<1>2. train' = train
  BY DEF Next, Reflect, MatmulTVec, BackSubstituteRow, Weights, Predict, ScoreBatch,
         vars, dataVars
<1>3. CASE Reflect
  <2>1. k < Size /\ \E sign \in {1, -1} : Reflected(sign)
    BY <1>1, <1>3, ReflectedReflects
  <2>2. PICK m, t : Householder(m, t)
    BY <1>1, <2>1, ReflectedIsHouseholder
  <2>3. Factored' /\ Orthonormal(QMatrix)' /\ Orthonormal(Columns(QMatrix))'
    BY <1>1, <1>2, <2>2, HouseholderKeeps DEF DecompositionInv
  <2> QED
    BY <1>1, <2>3 DEF DecompositionInv
<1>4. CASE ~Reflect
  <2>1. RMatrix' = RMatrix /\ QMatrix' = QMatrix
    BY <1>4, OtherStepsKeepMatrices
  <2>2. Factored' /\ Orthonormal(QMatrix)' /\ Orthonormal(Columns(QMatrix))'
    BY <1>2, <2>1 DEF DecompositionInv, Factored, Orthonormal
  <2> QED
    BY <1>1, <2>2 DEF DecompositionInv
<1> QED
  BY <1>3, <1>4

LEMMA DecompositionDecomposes == (SignHonoured => DecompositionInv) => Decomposes
<1> SUFFICES ASSUME DecompositionInv
             PROVE  /\ Plain!Times(QMatrix, RMatrix) = SystemMatrix(train)
                    /\ Plain!Times(Plain!Transposed(QMatrix), QMatrix) = Plain!Identity
                    /\ Triangular
  BY DEF Decomposes, Triangular
<1>1. /\ QMatrix \in [Index -> [Index -> Field]] /\ Triangular
      /\ Factored /\ Orthonormal(Columns(QMatrix)) /\ train \in Clients
  BY MatrixTypes DEF DecompositionInv, QrInv, SlotInv
<1>2. SystemMatrix(train) \in [Index -> [Index -> Field]]
  BY <1>1, SystemTypes
<1>3. Plain!Times(QMatrix, RMatrix) = SystemMatrix(train)
  <2>1. \A i, j \in Index :
          Total([t \in Index |-> QMatrix[i][t] * RMatrix[t][j]]) = SystemMatrix(train)[i][j]
    <3> SUFFICES ASSUME NEW i \in Index, NEW j \in Index
                 PROVE  Total([t \in Index |-> QMatrix[i][t] * RMatrix[t][j]])
                          = SystemMatrix(train)[i][j]
      OBVIOUS
    <3>1. [t \in Index |-> QMatrix[i][t] * RMatrix[t][j]]
            = [t \in Index |-> QMatrix[i][t] * Column(RMatrix, j)[t]]
      BY DEF Column
    <3> QED
      BY <1>1, <3>1 DEF Factored, DotProduct
  <2>2. Plain!Times(QMatrix, RMatrix)
          = [i \in Index |-> [j \in Index |-> SystemMatrix(train)[i][j]]]
    BY <2>1, SameArithmetic DEF Plain!Times
  <2> QED
    BY <1>2, <2>2
<1>4. Plain!Times(Plain!Transposed(QMatrix), QMatrix) = Plain!Identity
  <2> DEFINE qt == Plain!Transposed(QMatrix)
  <2>1. \A i, j \in Index :
          Total([t \in Index |-> qt[i][t] * QMatrix[t][j]]) = IF i = j THEN 1 ELSE 0
    <3> SUFFICES ASSUME NEW i \in Index, NEW j \in Index
                 PROVE  Total([t \in Index |-> qt[i][t] * QMatrix[t][j]])
                          = IF i = j THEN 1 ELSE 0
      OBVIOUS
    <3>1. [t \in Index |-> qt[i][t] * QMatrix[t][j]]
            = [t \in Index |-> Column(QMatrix, i)[t] * Column(QMatrix, j)[t]]
      BY SameArithmetic DEF Column, Plain!Transposed
    <3>2. DotProduct(Column(QMatrix, i), Column(QMatrix, j)) = IF i = j THEN 1 ELSE 0
      BY <1>1 DEF Orthonormal, Columns, UnitLine
    <3> QED
      BY <3>1, <3>2 DEF DotProduct
  <2> HIDE DEF qt
  <2>2. Plain!Times(qt, QMatrix) = [i \in Index |-> [j \in Index |-> IF i = j THEN 1 ELSE 0]]
    BY <2>1, SameArithmetic DEF Plain!Times
  <2> QED
    BY <2>2, SameArithmetic DEF Plain!Identity, qt
<1> QED
  BY <1>1, <1>3, <1>4

(* For every prime, size and number of slots: after every step of either    *)
(* decomposition, R_cts and Q_cols decrypt to an orthogonal Q and an R that *)
(* is triangular as far as the pivot has come, with Q R the matrix of the   *)
(* client; the circuits after it leave them so.  For the column solver only  *)
(* up to its first negative pivot.                                          *)
THEOREM FactorsOfTheSystem == Spec => []Decomposes
<1> DEFINE HonouredFactors == SignHonoured => DecompositionInv
<1>1. Init => HonouredFactors
  BY QrAtTheStart, FactoredAtTheStart DEF DecompositionInv
<1>2. HonouredFactors /\ [Next]_vars => HonouredFactors'
  BY HonouredBefore, DecompositionAtEveryStep
<1>3. HonouredFactors => Decomposes
  BY DecompositionDecomposes
<1> HIDE DEF HonouredFactors
<1> QED
  BY <1>1, <1>2, <1>3, PTL DEF Spec

-----------------------------------------------------------------------------
(* The linear algebra after the decomposition. *)

\* The product of two ciphertexts, summed, is the product of their lines.
LEMMA InnerSumDot ==
  ASSUME NEW ct \in CleanCts(Size), NEW other \in Cts
  PROVE  IsScalar(InnerSum(EvalMult(ct, other), Size), DotProduct(OnIndex(ct), OnIndex(other)))
<1> DEFINE g == OnIndex(ct)
           h == OnIndex(other)
<1>1. From(0) = Index /\ 0 \in Index
  BY Indices DEF From, Index
<1>2. g \in Line /\ h \in Line /\ \A s \in Index : ct[s] = g[s] /\ other[s] = h[s]
  BY OnIndexType DEF CleanCts
<1> HIDE DEF g, h
<1>3. g \in [From(0) -> Field] /\ h \in [From(0) -> Field]
      /\ (\A s \in Index : ct[s] = IF s \in From(0) THEN g[s] ELSE 0)
      /\ (\A s \in From(0) : other[s] = h[s])
  BY <1>1, <1>2 DEF Line
<1>4. IsScalar(InnerSum(EvalMult(ct, other), Size), Total([i \in From(0) |-> g[i] * h[i]]))
  BY <1>1, <1>3, ProductsFrom
<1> QED
  BY <1>1, <1>4 DEF DotProduct, g, h

\* Slot j of c is column j of Q times the right-hand side.
Rotated == \A i \in Index : c[i] = DotProduct(Column(QMatrix, i), RightHandSide(train))

\* he_matmul_T_vec: each rotated sum lands in the slot of its own column.
LEMMA MatmulRotates ==
  ASSUME SlotInv, MatmulTVec
  PROVE  Rotated'
<1> USE Sizes
<1> DEFINE z == RightHandSide(train)
           side == Packed(Size, z)
           family == [j \in Index |-> EvalRotate(InnerSum(EvalMult(Q[j], side), Size), -j)]
<1>1. c' = EvalTotal(family) /\ train' = train /\ QMatrix' = QMatrix
  BY MatricesKept DEF MatmulTVec, dataVars, qrVars
<1>2. z \in Line
  BY SystemTypes DEF SlotInv, Line
<1> HIDE DEF z
<1>3. side \in Cts /\ \A s \in Index : side[s] = z[s]
  <2>1. \A s \in Index : z[s] \in Int /\ Reduce(z[s]) = z[s] /\ s \in SlotIndex /\ s < Size
    <3>1. \A s \in Index : z[s] \in Field /\ s \in SlotIndex
      BY <1>2, Indices DEF Line
    <3>2. \A s \in Index : z[s] \in Int /\ Reduce(z[s]) = z[s]
      BY <3>1, FieldInt, ReduceField
    <3>3. \A s \in Index : s < Size
      BY DEF Index
    <3> QED
      BY <3>1, <3>2, <3>3
  <2>2. \A s \in 0..(Size - 1) : z[s] \in Int
    BY <2>1 DEF Index
  <2>3. side \in Cts
    BY <2>2, PackedType
  <2> QED
    BY <2>1, <2>3 DEF Packed
<1> HIDE DEF side
<1> DEFINE val(j) == DotProduct(Column(QMatrix, j), z)
<1>4. ASSUME NEW j \in Index
      PROVE  /\ family[j] \in Cts /\ val(j) \in Field
             /\ \A i \in Index : family[j][i] = IF i = j THEN val(j) ELSE 0
  <2> DEFINE ct == InnerSum(EvalMult(Q[j], side), Size)
  <2>1. Q[j] \in CleanCts(Size) /\ Q[j] \in Cts
    BY DEF SlotInv, CleanCts
  <2>2. OnIndex(Q[j]) = Column(QMatrix, j) /\ OnIndex(side) = z
    <3>1. OnIndex(Q[j]) = Column(QMatrix, j)
      BY DEF OnIndex, Column, QMatrix
    <3> QED
      BY <1>2, <1>3, <3>1 DEF OnIndex, Line
  <2>3. IsScalar(ct, val(j))
    BY <1>3, <2>1, <2>2, InnerSumDot
  <2>4. val(j) \in Field
    <3>1. Column(QMatrix, j) \in Line
      BY MatrixTypes, LinesOf
    <3> QED
      BY <1>2, <3>1, DotProducts
  <2> HIDE DEF ct
  <2>5. ct \in Cts /\ Clean(ct, 1) /\ ct[0] = val(j) /\ j \in SlotIndex /\ j \in Int /\ -j \in Int
    BY <2>3, Indices DEF IsScalar, CleanCts, Index
  <2>6. EvalRotate(ct, -j) \in Cts
    BY <2>5, RotateType
  <2>7. \A s \in SlotIndex : EvalRotate(ct, -j)[s] = IF s = j THEN ct[0] ELSE 0
    BY <2>5, Placed
  <2> QED
    BY <2>4, <2>5, <2>6, <2>7, Indices DEF ct
<1>5. family \in [Index -> Cts]
  BY <1>4
<1> HIDE DEF family, val
<1>6. ASSUME NEW i \in Index PROVE EvalTotal(family)[i] = val(i)
  <2> DEFINE f == [j \in Index |-> family[j][i]]
  <2>1. f \in [Index -> Int] /\ f[i] = val(i) /\ \A j \in Index : j # i => f[j] = 0
    <3>1. \A j \in Index : f[j] = IF i = j THEN val(j) ELSE 0
      BY <1>4
    <3>2. \A j \in Index : val(j) \in Int
      <4>1. \A j \in Index : val(j) \in Field
        BY <1>4
      <4> QED
        BY <4>1, FieldInt
    <3>3. f \in [Index -> Int]
      BY <3>1, <3>2
    <3> QED
      BY <3>1, <3>3
  <2>2. EvalTotal(family)[i] = Total(f)
    BY <1>5, Indices DEF EvalTotal
  <2> HIDE DEF f
  <2>3. SumFunction(f) = val(i)
    BY <2>1, Indices, SumSingle
  <2> QED
    BY <1>4, <2>2, <2>3, ReduceField DEF Total
<1> QED
  BY <1>1, <1>6 DEF Rotated, val, z

\* How far the back-substitution has come.
RowsSolved(after) ==
  \A i \in Index : i > after => DotProduct(R[i], x) = c[i]

\* One row of he_back_substitute: slot row of x, and no other, gets the value that
\* solves row row; the rows below stay solved, R being triangular.
LEMMA RowSubstituted ==
  ASSUME SlotInv, packing = "row", k = Size, Triangular, Pivots, BackSubstituteRow,
         RowsSolved(row), \A i \in Index : i <= row => x[i] = 0
  PROVE  /\ \A i \in Index : i >= row => DotProduct(R[i], x') = c[i]
         /\ \A i \in Index : i < row => x'[i] = 0
<1> USE Sizes
<1>0. row \in Index /\ row \in Int /\ row \in SlotIndex /\ 0 \in SlotIndex
  BY Indices, SlotsType DEF SlotInv, BackSubstituteRow, Index
<1>1. /\ R[row] \in Cts /\ R[row] \in CleanCts(Size) /\ c \in Cts /\ x \in Cts /\ x \in CleanCts(Size)
      /\ \A i \in Index : R[i] \in Cts
  BY <1>0 DEF SlotInv, CleanCts
<1> DEFINE z == OnIndex(x)
           line(i) == OnIndex(R[i])
           d(i) == DotProduct(line(i), z)
           n == R[row][row]
           e == c[row]
           num == Numerator(row)
           m == Reduce(Reduce(e - d(row)) * Reciprocal[n])
           xi == EvalMult(num, HeInv(Extract(R[row], row)))
<1>2. /\ z \in Line /\ (\A i \in Index : z[i] = x[i])
      /\ \A i \in Index : line(i) \in Line /\ d(i) \in Field
      /\ \A i \in Index : DotProduct(R[i], x) = d(i)
  <2>1. z \in Line /\ (\A i \in Index : z[i] = x[i])
    BY <1>1, OnIndexType
  <2>2. \A i \in Index : line(i) \in Line /\ \A j \in Index : line(i)[j] = R[i][j]
    BY <1>1, OnIndexType
  <2>3. \A i \in Index : d(i) \in Field
    BY <2>1, <2>2, DotProducts
  <2>4. ASSUME NEW i \in Index PROVE DotProduct(R[i], x) = d(i)
    <3>1. [j \in Index |-> R[i][j] * x[j]] = [j \in Index |-> line(i)[j] * z[j]]
      BY <2>1, <2>2
    <3> QED
      BY <3>1 DEF DotProduct
  <2> QED
    BY <2>1, <2>2, <2>3, <2>4
<1>3. n \in Field \ {0} /\ e \in Field
  <2>1. n \in Field /\ e \in Field
    BY <1>0, <1>1 DEF Cts
  <2>2. RMatrix[row][row] = n
    BY <1>0 DEF RMatrix
  <2>3. row \in 0..(k - 1)
    BY <1>0 DEF Index
  <2> QED
    BY <2>1, <2>2, <2>3 DEF Pivots
<1>4. IsScalar(num, Reduce(e - d(row)))
  <2>1. IsScalar(Extract(c, row), e)
    BY <1>0, <1>1, ExtractScalar
  <2> DEFINE sum == IF row < LastRow THEN InnerSum(EvalMult(R[row], x), Size) ELSE ZeroCt
  <2>2. IsScalar(sum, d(row))
    <3>1. CASE row < LastRow
      BY <1>1, <3>1, InnerSumDot
    <3>2. CASE ~(row < LastRow)
      <4>1. \A i \in Index : z[i] = 0
        BY <1>0, <1>2, <3>2 DEF LastRow, Index
      <4>2. d(row) = 0
        <5> DEFINE f == [j \in Index |-> line(row)[j] * z[j]]
        <5>1. \A j \in Index : line(row)[j] \in Int
          BY <1>0, <1>2, FieldInt DEF Line
        <5>2. \A j \in Index : line(row)[j] * 0 = 0
          BY <5>1
        <5>3. f \in [Index -> Int] /\ \A j \in Index : f[j] = 0
          BY <4>1, <5>2
        <5>4. d(row) = Total(f)
          BY DEF DotProduct
        <5> HIDE DEF f
        <5> QED
          BY <5>3, <5>4, Indices, TotalZero
      <4>3. sum = ZeroCt
        BY <3>2
      <4>4. ZeroCt \in CleanCts(1)
        <5>1. 1 \in Int
          OBVIOUS
        <5> QED
          BY <5>1, CleanZero
      <4>5. ZeroCt[0] = 0
        BY <1>0 DEF ZeroCt
      <4> HIDE DEF sum, d
      <4> QED
        BY <4>2, <4>3, <4>4, <4>5 DEF IsScalar
    <3> QED
      BY <3>1, <3>2
  <2>3. num = EvalSub(Extract(c, row), sum)
    BY DEF Numerator
  <2> HIDE DEF sum, d, e, num
  <2>4. Extract(c, row) \in CleanCts(1) /\ Extract(c, row)[0] = e /\ Extract(c, row) \in Cts
        /\ sum \in CleanCts(1) /\ sum[0] = d(row) /\ sum \in Cts
    BY <2>1, <2>2 DEF IsScalar, CleanCts
  <2>5. num \in CleanCts(1)
    <3>1. 1 \in Int
      OBVIOUS
    <3> QED
      BY <2>3, <2>4, <3>1, CleanOperations
  <2>6. num[0] = Reduce(e - d(row))
    BY <1>0, <2>3, <2>4 DEF EvalSub
  <2> QED
    BY <2>5, <2>6 DEF IsScalar
<1> HIDE DEF num
<1>5. IsScalar(xi, m)
  <2> DEFINE diagonal == Extract(R[row], row)
  <2>1. diagonal \in Cts /\ diagonal[0] = n
    BY <1>0, <1>1, ExtractScalar DEF IsScalar, CleanCts
  <2> HIDE DEF diagonal
  <2>2. HeInv(diagonal) \in Cts /\ HeInv(diagonal)[0] = Reciprocal[n]
    BY <1>0, <1>3, <2>1, ChebyshevTypes DEF HeInv
  <2>3. num \in CleanCts(1) /\ num[0] = Reduce(e - d(row)) /\ num \in Cts /\ 1 \in Int
    BY <1>4 DEF IsScalar, CleanCts
  <2> HIDE DEF n, e, d
  <2>4. EvalMult(num, HeInv(diagonal)) \in CleanCts(1)
    BY <2>2, <2>3, CleanOperations
  <2>5. EvalMult(num, HeInv(diagonal))[0] = m
    BY <1>0, <2>2, <2>3 DEF EvalMult
  <2> QED
    BY <2>4, <2>5 DEF IsScalar, diagonal
<1>6. x' = EvalAdd(x, EvalRotate(xi, -row))
  BY DEF BackSubstituteRow, num
<1>7. m \in Field /\ Reduce(d(row) + m * n) = e
  <2> DEFINE dr == d(row)
  <2>1. dr \in Field
    BY <1>0, <1>2
  <2> HIDE DEF dr, n, e
  <2>2. m = Reduce(Reduce(e - dr) * Reciprocal[n])
    BY DEF dr
  <2> HIDE DEF m
  <2>3. m \in Field /\ Reduce(dr + m * n) = e
    BY <1>3, <2>1, <2>2, RowValue
  <2> QED
    BY <2>3 DEF dr
<1> HIDE DEF xi, m
<1>8. \A s \in SlotIndex : x'[s] = IF s = row THEN Reduce(x[s] + m) ELSE x[s]
  BY <1>0, <1>1, <1>5, <1>6, <1>7, ShiftedOnto
<1> DEFINE z2 == OnIndex(x')
<1>9. z2 \in Line /\ \A i \in Index : z2[i] = Reduce(z[i] + m * UnitLine(row)[i])
  <2>1. \A i \in Index : z2[i] = Reduce(z[i] + m * UnitLine(row)[i])
    <3> SUFFICES ASSUME NEW i \in Index
                 PROVE  z2[i] = Reduce(z[i] + m * UnitLine(row)[i])
      OBVIOUS
    <3>1. z2[i] = x'[i] /\ i \in SlotIndex
      BY Indices DEF OnIndex
    <3>2. z[i] \in Int /\ m \in Int /\ z[i] = x[i] /\ Reduce(z[i]) = z[i]
      BY <1>2, <1>7, FieldInt, ReduceField DEF Line
    <3>3. CASE i = row
      <4>1. m * UnitLine(row)[i] = m
        BY <3>2, <3>3 DEF UnitLine
      <4> QED
        BY <1>8, <3>1, <3>2, <3>3, <4>1
    <3>4. CASE i # row
      <4>1. UnitLine(row)[i] = 0
        BY <3>4 DEF UnitLine
      <4>2. m * UnitLine(row)[i] = 0 /\ z[i] + 0 = z[i]
        BY <3>2, <4>1
      <4> QED
        BY <1>8, <3>1, <3>2, <3>4, <4>2
    <3> QED
      BY <3>3, <3>4
  <2>2. x' \in Cts
    BY BackSubstituteClean DEF CleanCts
  <2> QED
    BY <2>1, <2>2, OnIndexType
<1>10. ASSUME NEW i \in Index
       PROVE  DotProduct(R[i], x') = Reduce(d(i) + m * R[i][row])
  <2>1. UnitLine(row) \in Line /\ line(i) \in Line /\ m \in Int /\ line(i)[row] = R[i][row]
    <3>1. UnitLine(row) \in Line
      BY <1>0, PType DEF UnitLine, Line
    <3> QED
      BY <1>0, <1>1, <1>2, <1>7, <3>1, FieldInt, OnIndexType
  <2>2. DotProduct(z2, line(i))
          = Reduce(DotProduct(z, line(i)) + m * DotProduct(UnitLine(row), line(i)))
    <3> DEFINE li == line(i)
               unit == UnitLine(row)
    <3>1. z \in Line
      BY <1>2
    <3>2. z2 \in Line
      BY <1>9
    <3>3. unit \in Line
      BY <2>1
    <3>4. li \in Line
      BY <2>1
    <3>5. m \in Int
      BY <2>1
    <3>6. \A j \in Index : z2[j] = Reduce(z[j] + m * unit[j])
      BY <1>9
    <3> HIDE DEF li, unit, z, z2
    <3>7. DotProduct(z2, li) = Reduce(DotProduct(z, li) + m * DotProduct(unit, li))
      BY ONLY <3>1, <3>2, <3>3, <3>4, <3>5, <3>6, DotShift
    <3> QED
      BY <3>7 DEF li, unit
  <2>3. DotProduct(z2, line(i)) = DotProduct(line(i), z2) /\ DotProduct(z, line(i)) = d(i)
    BY <1>2, <1>9, <2>1, DotProducts
  <2>4. DotProduct(UnitLine(row), line(i)) = R[i][row]
    BY <1>0, <2>1, UnitLines
  <2>5. DotProduct(R[i], x') = DotProduct(line(i), z2)
    <3>1. [j \in Index |-> R[i][j] * x'[j]] = [j \in Index |-> line(i)[j] * z2[j]]
      BY DEF OnIndex
    <3> QED
      BY <3>1 DEF DotProduct
  <2> QED
    BY <2>2, <2>3, <2>4, <2>5
<1>11. ASSUME NEW i \in Index, i >= row PROVE DotProduct(R[i], x') = c[i]
  <2>1. CASE i = row
    BY <1>7, <1>10, <2>1
  <2>2. CASE i # row
    <3>1. i > row
      BY <1>0, <1>11, <2>2 DEF Index
    <3>2. R[i][row] = 0
      <4>1. row \in 0..(k - 1) /\ i \in (row + 1)..(Size - 1)
        BY <1>0, <3>1 DEF Index
      <4>2. RMatrix[i][row] = R[i][row]
        BY <1>0 DEF RMatrix
      <4> QED
        BY <4>1, <4>2 DEF Triangular
    <3>3. d(i) = c[i]
      BY <1>2, <3>1 DEF RowsSolved
    <3>4. d(i) \in Field /\ d(i) \in Int /\ m \in Int /\ Reduce(d(i)) = d(i)
      BY <1>2, <1>7, FieldInt, ReduceField
    <3> HIDE DEF d
    <3>5. d(i) + m * 0 = d(i)
      BY <3>4
    <3> QED
      BY <1>10, <3>2, <3>3, <3>4, <3>5
  <2> QED
    BY <2>1, <2>2
<1>12. ASSUME NEW i \in Index, i < row PROVE x'[i] = 0
  BY <1>0, <1>8, <1>12, Indices DEF Index
<1> QED
  BY <1>11, <1>12

\* Substituting back through a triangular factor solves the whole system.
LEMMA SolvedRowsSolve ==
  ASSUME SlotInv, packing = "row", Factored, Orthonormal(QMatrix), Rotated, RowsSolved(-1)
  PROVE  \A i \in Index :
           Total([j \in Index |-> SystemMatrix(train)[i][j] * x[j]]) = RightHandSide(train)[i]
<1> USE Sizes
<1> DEFINE a == RMatrix
           q == QMatrix
           qt == Columns(q)
           z == OnIndex(x)
           side == RightHandSide(train)
           top == [h \in Index |-> DotProduct(a[h], z)]
<1>1. a \in [Index -> [Index -> Field]] /\ q \in [Index -> [Index -> Field]] /\ side \in Line
  BY MatrixTypes, SystemTypes DEF SlotInv, Line
<1>2. z \in Line /\ \A i \in Index : z[i] = x[i]
  BY OnIndexType DEF SlotInv, CleanCts
<1>3. \A i, j \in Index : DotProduct(q[i], Column(a, j)) = SystemMatrix(train)[i][j]
  BY DEF Factored
<1>4. \A i, j \in Index : DotProduct(q[i], q[j]) = UnitLine(i)[j]
  BY DEF Orthonormal
<1>5. ASSUME NEW h \in Index
      PROVE  /\ DotProduct(a[h], z) \in Field
             /\ DotProduct(a[h], z) = DotProduct(Column(q, h), side)
  <2>1. DotProduct(a[h], z) = DotProduct(R[h], x)
    <3>1. [j \in Index |-> a[h][j] * z[j]] = [j \in Index |-> R[h][j] * x[j]]
      <4>1. \A j \in Index : a[h][j] = R[h][j] /\ z[j] = x[j]
        BY <1>2 DEF RMatrix
      <4> QED
        BY <4>1
    <3> QED
      BY <3>1 DEF DotProduct
  <2>2. DotProduct(R[h], x) = c[h]
    BY DEF RowsSolved, Index
  <2>3. c[h] = DotProduct(Column(q, h), side)
    BY DEF Rotated
  <2>4. DotProduct(a[h], z) \in Field
    BY <1>1, <1>2, LinesOf, DotProducts
  <2> QED
    BY <2>1, <2>2, <2>3, <2>4
<1> HIDE DEF a, q, side, z
<1>6. top \in Line /\ \A h \in Index : top[h] = DotProduct(a[h], z)
  BY <1>5 DEF Line
<1>7. /\ qt \in [Index -> [Index -> Field]]
      /\ \A h \in Index : qt[h] = Column(q, h)
      /\ \A h \in Index : Column(qt, h) = q[h]
  <2>1. \A h \in Index : qt[h] = Column(q, h) /\ Column(q, h) \in [Index -> Field]
    BY <1>1, LinesOf DEF Line
  <2>2. qt \in [Index -> [Index -> Field]]
    BY <2>1 DEF Columns
  <2>3. ASSUME NEW h \in Index PROVE Column(qt, h) = q[h]
    <3>1. \A i \in Index : qt[i][h] = q[h][i]
      BY <2>1 DEF Column
    <3>2. q[h] = [i \in Index |-> q[h][i]]
      BY <1>1
    <3> QED
      BY <3>1, <3>2 DEF Column
  <2> QED
    BY <2>1, <2>2, <2>3
<1>8. \A h \in Index : top[h] = DotProduct(qt[h], side)
  BY <1>5, <1>6, <1>7
<1> HIDE DEF top, qt
<1>9. ASSUME NEW i \in Index
      PROVE  Total([j \in Index |-> SystemMatrix(train)[i][j] * x[j]]) = side[i]
  <2> DEFINE e == q[i]
  <2>1. e \in Line
    BY <1>1, LinesOf
  <2>2. [h \in Index |-> DotProduct(e, Column(a, h))] = [h \in Index |-> SystemMatrix(train)[i][h]]
    BY <1>3
  <2>3. [h \in Index |-> DotProduct(e, Column(qt, h))] = UnitLine(i)
    <3>1. \A h \in Index : DotProduct(e, Column(qt, h)) = UnitLine(i)[h]
      BY <1>4, <1>7
    <3>2. UnitLine(i) = [h \in Index |-> UnitLine(i)[h]]
      BY DEF UnitLine
    <3> QED
      BY <3>1, <3>2
  <2> HIDE DEF e
  <2>4. DotProduct(e, top) = DotProduct([h \in Index |-> DotProduct(e, Column(a, h))], z)
    <3>1. a \in [Index -> [Index -> Field]]
      BY ONLY <1>1
    <3>2. z \in Line
      BY ONLY <1>2
    <3> QED
      BY ONLY <1>6, <2>1, <3>1, <3>2, ThroughMatrix
  <2>5. DotProduct(e, top) = DotProduct([h \in Index |-> DotProduct(e, Column(qt, h))], side)
    <3>1. qt \in [Index -> [Index -> Field]]
      BY ONLY <1>7
    <3>2. side \in Line
      BY ONLY <1>1
    <3>3. top \in Line
      BY ONLY <1>6
    <3> QED
      BY ONLY <1>8, <2>1, <3>1, <3>2, <3>3, ThroughMatrix
  <2>6. DotProduct(UnitLine(i), side) = side[i]
    BY <1>1, UnitLines
  <2>7. DotProduct([h \in Index |-> SystemMatrix(train)[i][h]], z)
          = Total([j \in Index |-> SystemMatrix(train)[i][j] * x[j]])
    <3>1. [j \in Index |-> [h \in Index |-> SystemMatrix(train)[i][h]][j] * z[j]]
            = [j \in Index |-> SystemMatrix(train)[i][j] * x[j]]
      BY <1>2
    <3> QED
      BY <3>1 DEF DotProduct
  <2> QED
    BY <2>2, <2>3, <2>4, <2>5, <2>6, <2>7
<1> QED
  BY <1>9 DEF side

\* How far the solve of a row-packed matrix has come, call by call.
SolveInv ==
  packing = "row" =>
    /\ DecompositionInv
    /\ pc \in {"qr", "matmul", "backsub", "weights", "score", "done"}
    /\ pc # "qr" => k = Size
    /\ pc \notin {"qr", "matmul"} => Rotated
    /\ pc = "backsub" => RowsSolved(row) /\ \A i \in Index : i <= row => x[i] = 0
    /\ pc \in {"weights", "score", "done"} => RowsSolved(-1)

LEMMA SolveAtTheStart == Init => SolveInv
<1> SUFFICES ASSUME Init PROVE SolveInv
  OBVIOUS
<1>1. DecompositionInv
  BY QrAtTheStart, FactoredAtTheStart DEF DecompositionInv
<1>2. pc = "qr"
  BY DEF Init
<1> QED
  BY <1>1, <1>2 DEF SolveInv

LEMMA SolveAtEveryStep == SolveInv /\ [Next]_vars => SolveInv'
<1> SUFFICES ASSUME SolveInv, [Next]_vars PROVE SolveInv'
  OBVIOUS
<1> USE Sizes
<1>0. packing' = packing
  BY DEF Next, Reflect, MatmulTVec, BackSubstituteRow, Weights, Predict, vars, dataVars
<1> SUFFICES ASSUME packing = "row"
             PROVE  SolveInv'
  BY <1>0 DEF SolveInv
<1>1. /\ DecompositionInv /\ DecompositionInv' /\ SlotInv /\ SlotInv'
      /\ Triangular /\ Pivots
  <2>1. DecompositionInv /\ SignHonoured'
    BY <1>0 DEF SolveInv, SignHonoured
  <2>2. DecompositionInv'
    BY <2>1, DecompositionAtEveryStep
  <2> QED
    BY <2>1, <2>2 DEF DecompositionInv, QrInv
<1>2. CASE Reflect
  <2>1. (pc' = "matmul" /\ k' = Size) \/ pc' = "qr"
    BY <1>2 DEF Reflect
  <2> QED
    BY <1>1, <2>1 DEF SolveInv
<1>3. CASE MatmulTVec
  <2>1. /\ pc = "matmul" /\ pc' = "backsub" /\ k' = k /\ x' = ZeroCt /\ row' = LastRow
    BY <1>3 DEF MatmulTVec, qrVars
  <2>2. Rotated'
    BY <1>1, <1>3, MatmulRotates
  <2>3. RowsSolved(row)' /\ \A i \in Index : x'[i] = 0
    <3>1. \A i \in Index : ~(i > row')
      BY <2>1 DEF LastRow, Index
    <3> QED
      BY <2>1, <3>1, Indices DEF RowsSolved, ZeroCt
  <2> QED
    BY <1>1, <2>1, <2>2, <2>3 DEF SolveInv
<1>4. CASE BackSubstituteRow
  <2>1. /\ pc = "backsub" /\ row' = row - 1 /\ pc' = IF row = 0 THEN "weights" ELSE "backsub"
        /\ k' = k /\ R' = R /\ Q' = Q /\ c' = c /\ train' = train
    BY <1>4 DEF BackSubstituteRow, qrVars, dataVars
  <2>2. k = Size /\ Rotated /\ RowsSolved(row) /\ (\A i \in Index : i <= row => x[i] = 0)
        /\ row \in Index
    BY <1>1, <2>1 DEF SolveInv, SlotInv
  <2>3. /\ \A i \in Index : i >= row => DotProduct(R[i], x') = c[i]
        /\ \A i \in Index : i < row => x'[i] = 0
    BY <1>1, <1>4, <2>2, RowSubstituted
  <2>4. Rotated'
    <3>1. QMatrix' = QMatrix
      BY <1>0, <2>1, MatricesKept
    <3> QED
      BY <2>1, <2>2, <3>1 DEF Rotated
  <2>5. RowsSolved(row)' /\ \A i \in Index : i <= row' => x'[i] = 0
    <3>1. \A i \in Index : (i > row - 1 <=> i >= row) /\ (i <= row - 1 <=> i < row)
      BY <2>2 DEF Index
    <3> QED
      BY <2>1, <2>3, <3>1 DEF RowsSolved
  <2>6. CASE row = 0
    <3>1. pc' = "weights" /\ row' = -1
      BY <2>1, <2>6
    <3>2. RowsSolved(-1)'
      BY <2>5, <3>1 DEF RowsSolved
    <3> QED
      BY <1>1, <2>1, <2>2, <2>4, <3>1, <3>2 DEF SolveInv
  <2>7. CASE row # 0
    BY <1>1, <2>1, <2>2, <2>4, <2>5, <2>7 DEF SolveInv
  <2> QED
    BY <2>6, <2>7
<1>5. CASE Weights \/ Predict \/ UNCHANGED vars
  <2>1. k' = k /\ R' = R /\ Q' = Q /\ c' = c /\ x' = x /\ row' = row /\ train' = train
    BY <1>5 DEF Weights, Predict, ScoreBatch, vars, qrVars, solveVars, dataVars
  <2>2. (Rotated => Rotated') /\ (RowsSolved(row) => RowsSolved(row)')
        /\ (RowsSolved(-1) => RowsSolved(-1)')
    <3>1. QMatrix' = QMatrix
      BY <1>0, <2>1, MatricesKept
    <3> QED
      BY <2>1, <3>1 DEF Rotated, RowsSolved
  <2>3. \/ pc' = pc
        \/ pc \in {"weights", "score"} /\ pc' \in {"score", "done"}
    BY <1>5 DEF Weights, Predict, ScoreBatch, vars
  <2> QED
    BY <1>1, <2>1, <2>2, <2>3 DEF SolveInv
<1> QED
  BY <1>2, <1>3, <1>4, <1>5 DEF Next

(* For every prime, size and number of slots, and for either sign of each   *)
(* pivot: when he_back_substitute of the row solver has ended, the slots of *)
(* x_ct hold the bias and the multipliers that solve the client's system.   *)
(* The reflections factor the matrix into Q R, the product with the columns *)
(* of Q rotates the right-hand side, and the substitution through the       *)
(* triangular R inverts what is left.                                       *)
THEOREM RowSolverSolves == Spec => []RowSolves
<1>1. SolveInv => RowSolves
  <2> SUFFICES ASSUME SolveInv, packing = "row", pc \in {"weights", "score", "done"}
               PROVE  \A i \in Index :
                        Total([j \in Index |-> SystemMatrix(train)[i][j] * x[j]])
                          = RightHandSide(train)[i]
    BY DEF RowSolves, Solves
  <2>1. /\ SlotInv /\ Factored /\ Orthonormal(QMatrix) /\ Rotated /\ RowsSolved(-1)
    BY DEF SolveInv, DecompositionInv, QrInv
  <2> QED
    BY <2>1, SolvedRowsSolve
<1> QED
  BY <1>1, SolveAtTheStart, SolveAtEveryStep, PTL DEF Spec
=============================================================================
