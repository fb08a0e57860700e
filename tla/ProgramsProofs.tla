--------------------------- MODULE ProgramsProofs ---------------------------
(***************************************************************************)
(* Proofs about module Programs.  No ciphertext of any program is deeper   *)
(* than its context, whatever the size of the clients' systems.  With      *)
(* bootstrapping, as long as the usable depth holds one Householder step:  *)
(* that step starts with ciphertexts no deeper than a refreshed one, and   *)
(* all that follows the decomposition, up to the scores, is shallower.     *)
(* Without, levels grow by a constant with every step, row and iteration,  *)
(* and the planned depth grows faster.                                     *)
(* And every model is served as it was trained.                            *)
(***************************************************************************)
EXTENDS Programs, WellFoundedInduction, TLAPS

Fits == 0 .. BootDepth                    \* the levels of refreshed ciphertexts

-----------------------------------------------------------------------------
(* Levels. *)

LEMMA Naturals == UsableDepth \in Nat /\ BootDepth \in Nat
BY DepthAssumption

(* The deepest of several levels is one of them. *)
LEMMA DeepestBound ==
  ASSUME NEW M \in Nat, NEW S \in SUBSET (0 .. M), S # {}
  PROVE  Deepest(S) \in 0 .. M
<1> DEFINE T == {M - y : y \in S}
<1>1. T \subseteq Nat /\ T # {}
  OBVIOUS
<1>2. PICK t \in T : \A u \in T : ~(<<u, t>> \in OpToRel(<, Nat))
  <2> HIDE DEF T
  <2>1. QED BY <1>1, WFMin, NatLessThanWellFounded
<1>3. \A u \in T : ~(u < t)
  BY <1>1, <1>2 DEF OpToRel
<1>4. PICK x \in S : t = M - x
  OBVIOUS
<1>5. ASSUME NEW y \in S PROVE x >= y
  <2>1. M - y \in T
    OBVIOUS
  <2>2. ~(M - y < M - x)
    BY <1>3, <1>4, <2>1
  <2>3. QED BY <2>2
<1>6. \E z \in S : \A y \in S : z >= y
  BY <1>5
<1>7. Deepest(S) \in S
  BY <1>6 DEF Deepest, Max
<1>8. QED BY <1>7

(* Raising the peak by bounded levels keeps it bounded. *)
LEMMA RiseBound ==
  ASSUME NEW M \in Nat, peak \in 0 .. M, NEW S \in SUBSET (0 .. M), Rise(S)
  PROVE  peak' \in 0 .. M
<1>1. {peak} \cup S \in SUBSET (0 .. M) /\ {peak} \cup S # {}
  OBVIOUS
<1>2. QED BY <1>1, DeepestBound DEF Rise

(* A reflection by a vector of levels up to b with a factor tau of level t  *)
(* leaves levels up to t + 2.                                               *)
LEMMA ReflectedBound ==
  ASSUME NEW f \in Nat, NEW n \in Nat, NEW cts \in [Rows(n) -> 0 .. f], NEW i \in Rows(n),
         NEW b \in Nat, NEW v \in [Rows(n) -> 0 .. b], f <= b,
         NEW t \in Nat, b < t, NEW tau \in 0 .. t
  PROVE  Reflected(cts, i, tau, v) \in [Rows(n) -> 0 .. (t + 2)]
<1> DEFINE tail == {j \in DOMAIN cts : j >= i}
           S == {Larger(v[j], cts[j]) + 1 : j \in tail}
           w == Deepest(S)
<1>1. \A j \in Rows(n) : v[j] \in Nat /\ v[j] <= b /\ cts[j] \in Nat /\ cts[j] <= b
  OBVIOUS
<1>2. \A j \in Rows(n) : Larger(v[j], cts[j]) \in 0 .. b
  BY <1>1 DEF Larger
<1>3. S \in SUBSET (0 .. (b + 1)) /\ S # {}
  <2>1. i \in tail
    BY DEF Rows
  <2>2. QED BY <1>2, <2>1
<1>4. w \in 0 .. (b + 1)
  <2> HIDE DEF S
  <2>1. QED BY <1>3, DeepestBound
<1>5. Reflected(cts, i, tau, v) =
        [j \in Rows(n) |->
           IF j \in tail THEN Larger(cts[j], Larger(Larger(tau, v[j]) + 1, w) + 1)
           ELSE cts[j]]
  BY DEF Reflected
<1> HIDE DEF w, tail
<1>6. ASSUME NEW j \in Rows(n)
      PROVE  Larger(cts[j], Larger(Larger(tau, v[j]) + 1, w) + 1) \in 0 .. (t + 2)
  <2>1. Larger(tau, v[j]) \in 0 .. t
    BY <1>1 DEF Larger
  <2>2. Larger(Larger(tau, v[j]) + 1, w) \in 0 .. (t + 1)
    BY <1>4, <2>1 DEF Larger
  <2>3. QED BY <1>1, <2>2 DEF Larger
<1>7. \A j \in Rows(n) : cts[j] \in 0 .. (t + 2)
  BY <1>1
<1>8. QED BY <1>5, <1>6, <1>7

(* One step of the row solver, with the costs sqrt and inv of its series.   *)
LEMMA RowStepBound ==
  ASSUME NEW f \in Nat, NEW n \in Nat,
         NEW rs \in [Rows(n) -> 0 .. f], NEW qs \in [Rows(n) -> 0 .. f], NEW i \in Rows(n),
         NEW sqrt \in Nat, NEW inv \in Nat
  PROVE  /\ RowStep(rs, qs, i, sqrt, inv).R \in [Rows(n) -> 0 .. (f + sqrt + inv + 10)]
         /\ RowStep(rs, qs, i, sqrt, inv).Q \in [Rows(n) -> 0 .. (f + sqrt + inv + 10)]
<1> DEFINE x == [j \in DOMAIN rs |-> rs[j] + 1]
           S == {x[j] : j \in {h \in DOMAIN rs : h >= i}}
           norm == Deepest(S) + 2 + sqrt + 1
           v0 == Larger(x[i] + 1, norm)
           v == [j \in DOMAIN rs |-> IF j = i THEN v0 ELSE x[j] + 1]
           tau == Tau(norm, v0, inv)
           b == f + 4 + sqrt
           t == f + sqrt + inv + 8
<1>1. \A j \in Rows(n) : x[j] \in 0 .. (f + 1)
  OBVIOUS
<1>2. S \in SUBSET (0 .. (f + 1)) /\ S # {}
  <2>1. i \in {h \in DOMAIN rs : h >= i}
    BY DEF Rows
  <2> HIDE DEF x
  <2>2. QED BY <1>1, <2>1
<1>3. norm \in 0 .. b
  <2>1. Deepest(S) \in 0 .. (f + 1)
    <3> HIDE DEF S
    <3>1. QED BY <1>2, DeepestBound
  <2> HIDE DEF S
  <2>2. QED BY <2>1
<1> HIDE DEF norm, S
<1>4. v0 \in 0 .. b
  <2> HIDE DEF x
  <2>1. QED BY <1>1, <1>3 DEF Larger
<1>5. v \in [Rows(n) -> 0 .. b]
  <2> HIDE DEF x, v0
  <2>1. QED BY <1>1, <1>4
<1>6. tau \in 0 .. t
  <2> HIDE DEF v0
  <2>1. Larger(norm + 1, v0) \in 0 .. (b + 1)
    BY <1>3, <1>4 DEF Larger
  <2>2. QED BY <2>1 DEF Tau
<1>7. /\ RowStep(rs, qs, i, sqrt, inv).R = Reflected(rs, i, tau, v)
      /\ RowStep(rs, qs, i, sqrt, inv).Q = Reflected(qs, i, tau, v)
  BY DEF RowStep, norm, S
<1>8. b \in Nat /\ f <= b /\ t \in Nat /\ b < t
      /\ t + 2 = f + sqrt + inv + 10
  OBVIOUS
<1> HIDE DEF v, tau, b, t
<1>9. Reflected(rs, i, tau, v) \in [Rows(n) -> 0 .. (t + 2)]
      /\ Reflected(qs, i, tau, v) \in [Rows(n) -> 0 .. (t + 2)]
  BY <1>5, <1>6, <1>8, ReflectedBound
<1>10. QED BY <1>7, <1>8, <1>9

(* One step of the column solver, where every column is updated. *)
LEMMA ColStepBound ==
  ASSUME NEW f \in Nat, NEW n \in Nat,
         NEW rs \in [Rows(n) -> 0 .. f], NEW qs \in [Rows(n) -> 0 .. f], NEW i \in Rows(n),
         NEW sqrt \in Nat, NEW inv \in Nat
  PROVE  /\ ColStep(rs, qs, i, sqrt, inv).R \in [Rows(n) -> 0 .. (f + sqrt + inv + 10)]
         /\ ColStep(rs, qs, i, sqrt, inv).Q \in [Rows(n) -> 0 .. (f + sqrt + inv + 10)]
<1> DEFINE x == rs[i] + 1
           norm == x + 2 + sqrt + 1
           v == Larger(x, norm)
           tau == Tau(norm, Larger(x + 1, norm), inv)
           column(j) == Larger(rs[j], Larger(Larger(tau, v) + 1, Larger(v, rs[j]) + 2) + 1)
           b == f + 5 + sqrt
           t == f + sqrt + inv + 8
<1>1. x \in 0 .. (f + 1) /\ \A j \in Rows(n) : rs[j] \in 0 .. f
  OBVIOUS
<1> HIDE DEF x
<1>2. norm \in 0 .. (f + 4 + sqrt)
  BY <1>1
<1> HIDE DEF norm
<1>3. v \in 0 .. (f + 4 + sqrt)
  BY <1>1, <1>2 DEF Larger
<1>4. tau \in 0 .. t
  <2>1. Larger(x + 1, norm) \in 0 .. (f + 4 + sqrt)
    BY <1>1, <1>2 DEF Larger
  <2>2. Larger(norm + 1, Larger(x + 1, norm)) \in 0 .. (f + 5 + sqrt)
    BY <1>2, <2>1 DEF Larger
  <2>3. QED BY <2>2 DEF Tau
<1> HIDE DEF v, tau
<1>5. ASSUME NEW j \in Rows(n) PROVE column(j) \in 0 .. (t + 2)
  <2>1. Larger(v, rs[j]) \in 0 .. (f + 4 + sqrt)
    BY <1>1, <1>3 DEF Larger
  <2>2. Larger(tau, v) \in 0 .. t
    BY <1>3, <1>4 DEF Larger
  <2>3. Larger(Larger(tau, v) + 1, Larger(v, rs[j]) + 2) \in 0 .. (t + 1)
    BY <2>1, <2>2 DEF Larger
  <2> HIDE DEF t
  <2>4. t \in Nat /\ f <= t
    BY DEF t
  <2>5. QED BY <1>1, <2>3, <2>4 DEF Larger
<1>6. [j \in Rows(n) |-> v + 1] \in [Rows(n) -> 0 .. b]
  BY <1>3
<1>7. /\ ColStep(rs, qs, i, sqrt, inv).R = [j \in Rows(n) |-> column(j)]
      /\ ColStep(rs, qs, i, sqrt, inv).Q = Reflected(qs, i, tau, [j \in Rows(n) |-> v + 1])
  BY DEF ColStep, x, norm, v, tau
<1>8. b \in Nat /\ f <= b /\ t \in Nat /\ b < t
      /\ t + 2 = f + sqrt + inv + 10
  OBVIOUS
<1> HIDE DEF b, t, column
<1>9. Reflected(qs, i, tau, [j \in Rows(n) |-> v + 1]) \in [Rows(n) -> 0 .. (t + 2)]
  BY <1>4, <1>6, <1>8, ReflectedBound
<1>10. QED BY <1>5, <1>7, <1>8, <1>9

-----------------------------------------------------------------------------
(* The invariant. *)

LEMMA JobFacts ==
  ASSUME NEW j \in Jobs
  PROVE  /\ j.n \in Nat \ {0} /\ j.cost \in Costs /\ j.cost \in [{2, 8} -> Nat]
         /\ j.program \in {"train", "smoke", "baseline", "demo"}
         /\ j.solver \in {"row", "col", "cg"}
         /\ Degrees(j).sqrt = Degrees(j).inv /\ Degrees(j).sqrt \in {2, 8}
         /\ Degrees(j).back = 8
<1>1. PICK programs \in SUBSET {"train", "smoke", "baseline", "demo"},
           sizes \in SUBSET (Nat \ {0}), dims \in SUBSET Nat :
        j \in Calls(programs, sizes, dims)
  <2>1. CASE j \in Calls({"train"}, Sizes, {d \in Sizes : d >= BaselineSize})
    <3>1. Sizes \subseteq Nat \ {0} /\ {d \in Sizes : d >= BaselineSize} \subseteq Nat
      BY ProgramAssumption
    <3>2. QED BY <2>1, <3>1
  <2>2. CASE j \in Calls({"smoke"}, {SmokeSize}, {SmokeSize})
    <3>1. {SmokeSize} \subseteq Nat \ {0}
      BY DEF SmokeSize
    <3>2. QED BY <2>2, <3>1
  <2>3. CASE j \in Calls({"baseline"}, {1}, {1})
    BY <2>3
  <2>4. CASE j \in Calls({"demo"}, {BaselineSize}, {BaselineSize})
    <3>1. {BaselineSize} \subseteq Nat \ {0}
      BY DEF BaselineSize
    <3>2. QED BY <2>4, <3>1
  <2>5. QED BY <2>1, <2>2, <2>3, <2>4 DEF Jobs
<1>2. /\ j.n \in sizes /\ j.cost \in Costs /\ j.program \in programs /\ j.solver \in Solvers
  BY <1>1 DEF Calls
<1>3. QED BY <1>2, ProgramAssumption DEF Degrees, Solvers

(* With bootstrapping, the ciphertexts a step or a row begins with are no   *)
(* deeper than a refreshed one, those of the model hardly so.               *)
Enters == /\ pc \in {"setup", "qr"} => k \in 0 .. job.n /\ Q \in [Rows(job.n) -> Fits]
          /\ pc = "backsub" => k \in -1 .. (job.n - 1)
          /\ pc \in {"setup", "qr", "backsub"} => R \in [Rows(job.n) -> Fits]
Shallow == /\ ct \in [c : 0 .. (BootDepth + 2), x : Fits,
                      b : 0 .. (BootDepth + 3), w : 0 .. (BootDepth + 3)]
           /\ pc \in {"setup", "average"} => ct.b <= BootDepth + 2 /\ ct.w <= BootDepth + 2
           /\ pc = "serve" => files.b \in 0 .. (BootDepth + 3) /\ files.w \in 0 .. (BootDepth + 3)
Below == peak \in 0 .. (UsableDepth + BootDepth)
BootInv ==
  /\ job \in Jobs
  /\ job.security = "128" =>
       /\ pc \in {"setup", "refused", "qr", "backsub", "average", "score", "save", "serve",
                  "done"}
       /\ Enters /\ Shallow /\ Below

LEMMA BootInit == Init => BootInv
<1> SUFFICES ASSUME Init PROVE BootInv
  OBVIOUS
<1>1. job.n \in Nat \ {0}
  BY JobFacts DEF Init
<1>2. Fresh(job.n) \in [Rows(job.n) -> Fits]
  BY Naturals DEF Fresh, Fits
<1>3. QED BY <1>1, <1>2, Naturals DEF Init, BootInv, Enters, Shallow, Below, Fits

LEMMA RefreshedFits ==
  ASSUME NEW l \in Nat PROVE Refreshed(l) \in Fits
BY Naturals DEF Refreshed, Fits

(* A Householder step fits the usable depth, and all it leaves is refreshed. *)
LEMMA QRStepBound ==
  ASSUME StepFits, BootInv, job.security = "128", QRStep
  PROVE  BootInv'
<1>1. /\ pc = "qr" /\ k \in Rows(job.n) /\ job' = job /\ pc' = pc /\ ct' = ct /\ k' = k + 1
      /\ files' = files /\ R \in [Rows(job.n) -> Fits] /\ Q \in [Rows(job.n) -> Fits]
  BY JobFacts DEF QRStep, BootInv, Enters, Rows
<1>2. PICK c \in Nat : Cost("sqrt") = c /\ Cost("inv") = c /\ c + c + 10 <= UsableDepth
  BY JobFacts DEF BootInv, Cost, StepFits
<1> DEFINE M == BootDepth + c + c + 10
           step == IF job.solver = "row" THEN RowStep(R, Q, k, Cost("sqrt"), Cost("inv"))
                   ELSE ColStep(R, Q, k, Cost("sqrt"), Cost("inv"))
<1>3. step.R \in [Rows(job.n) -> 0 .. M] /\ step.Q \in [Rows(job.n) -> 0 .. M]
  <2>1. job.n \in Nat /\ BootDepth \in Nat
    BY JobFacts, Naturals DEF BootInv
  <2>2. R \in [Rows(job.n) -> 0 .. BootDepth] /\ Q \in [Rows(job.n) -> 0 .. BootDepth]
    BY <1>1 DEF Fits
  <2>3. CASE job.solver = "row"
    BY <1>1, <1>2, <2>1, <2>2, <2>3, RowStepBound
  <2>4. CASE job.solver # "row"
    BY <1>1, <1>2, <2>1, <2>2, <2>4, ColStepBound
  <2>5. QED BY <2>3, <2>4
<1>4. /\ Rise(Levels(step.R) \cup Levels(step.Q))
      /\ R' = RefreshedAll(step.R) /\ Q' = RefreshedAll(step.Q)
  BY DEF QRStep
<1>5. M \in Nat /\ M <= UsableDepth + BootDepth
  BY <1>2, Naturals
<1> HIDE DEF step, M
<1>6. Below'
  <2>1. Levels(step.R) \cup Levels(step.Q) \in SUBSET (0 .. (UsableDepth + BootDepth))
    BY <1>3, <1>5, Naturals DEF Levels
  <2>2. peak \in 0 .. (UsableDepth + BootDepth) /\ UsableDepth + BootDepth \in Nat
    BY Naturals DEF BootInv, Below
  <2>3. QED BY <1>4, <2>1, <2>2, RiseBound DEF Below
<1>7. R' \in [Rows(job.n) -> Fits] /\ Q' \in [Rows(job.n) -> Fits]
  <2>1. \A j \in Rows(job.n) : step.R[j] \in Nat /\ step.Q[j] \in Nat
    BY <1>3, <1>5
  <2>2. DOMAIN step.R = Rows(job.n) /\ DOMAIN step.Q = Rows(job.n)
    BY <1>3
  <2>3. QED BY <1>4, <2>1, <2>2, RefreshedFits DEF RefreshedAll
<1>8. k' \in 0 .. job.n
  BY <1>1, JobFacts DEF BootInv, Rows
<1>9. QED BY <1>1, <1>6, <1>7, <1>8 DEF BootInv, Enters, Shallow

(* Every other step adds a few levels to refreshed ciphertexts. *)
LEMMA BootNext == StepFits /\ BootInv /\ [Next]_vars => BootInv'
<1> SUFFICES ASSUME StepFits, BootInv, [Next]_vars, job.security = "128" PROVE BootInv'
  BY DEF BootInv, Next, vars, circuitVars, Refuse, Setup, QRStep, RhsProduct, BackSubRow,
         QrModel, CgIterate, CgModel, Average, Score, Save, Serve
<1>j. /\ job \in Jobs /\ job.n \in Nat \ {0} /\ UsableDepth >= 10
      /\ Cost("back") \in Nat /\ Cost("back") + 10 <= UsableDepth
  BY JobFacts, Naturals DEF BootInv, Cost, StepFits
<1>i. Enters /\ Shallow /\ Below
  BY DEF BootInv
<1>b. UsableDepth + BootDepth \in Nat /\ peak \in 0 .. (UsableDepth + BootDepth)
  BY <1>i, Naturals DEF Below
<1>r. ASSUME NEW S \in SUBSET (0 .. (UsableDepth + BootDepth)), Rise(S) PROVE Below'
  BY <1>b, <1>r, RiseBound DEF Below
<1>1. CASE Refuse
  BY <1>1, <1>i DEF Refuse, circuitVars, BootInv, Enters, Shallow, Below
<1>2. CASE Setup
  <2>1. job.program # "baseline" => job.solver \in {"row", "col"}
    BY <1>2, <1>j, JobFacts DEF Setup, Rejected
  <2>2. QED BY <1>2, <1>i, <1>j, <2>1, JobFacts
            DEF Setup, circuitVars, BootInv, Enters, Shallow, Below
<1>3. CASE QRStep
  BY <1>3, QRStepBound
<1>4. CASE RhsProduct
  <2>1. Q \in [Rows(job.n) -> Fits] /\ R \in [Rows(job.n) -> Fits]
    BY <1>4, <1>i DEF RhsProduct, Enters
  <2> DEFINE S == {Q[j] : j \in DOMAIN Q}
  <2>2. S \in SUBSET (0 .. BootDepth) /\ S # {}
    <3>1. 0 \in Rows(job.n)
      BY <1>j DEF Rows
    <3>2. QED BY <2>1, <3>1 DEF Fits
  <2>3. Deepest(S) \in 0 .. BootDepth
    <3> HIDE DEF S
    <3>1. QED BY <2>2, DeepestBound, Naturals
  <2>4. ct' = [ct EXCEPT !.c = MatmulT(Q)] /\ MatmulT(Q) = Deepest(S) + 2
    BY <1>4 DEF RhsProduct, MatmulT
  <2> HIDE DEF S
  <2>5. MatmulT(Q) \in 0 .. (BootDepth + 2)
    BY <2>3, <2>4, Naturals
  <2>6. ct'.c = MatmulT(Q)
    BY <2>4, <1>i DEF Shallow
  <2>7. Below'
    <3>1. {ct'.c} \in SUBSET (0 .. (UsableDepth + BootDepth))
      BY <2>5, <2>6, <1>j, Naturals
    <3>2. QED BY <1>4, <1>r, <3>1 DEF RhsProduct
  <2>8. QED BY <1>4, <1>i, <1>j, <2>1, <2>4, <2>5, <2>7
            DEF RhsProduct, BootInv, Enters, Shallow
<1>5. CASE BackSubRow
  <2>1. /\ pc = "backsub" /\ k \in Rows(job.n) /\ R \in [Rows(job.n) -> Fits]
        /\ ct.c \in 0 .. (BootDepth + 2) /\ ct.x \in 0 .. BootDepth
    BY <1>5, <1>i, <1>j DEF BackSubRow, Enters, Shallow, Rows, Fits
  <2>2. R' = [R EXCEPT ![k] = Refreshed(R[k])]
    BY <1>5 DEF BackSubRow
  <2>3. R' \in [Rows(job.n) -> Fits]
    <3>1. R[k] \in Nat
      BY <2>1, Naturals DEF Fits
    <3>2. QED BY <2>1, <2>2, <3>1, RefreshedFits
  <2> DEFINE x == BackSubstituted(R'[k], ct.c, ct.x, k = job.n - 1, Cost("back"))
  <2>4. x \in 0 .. (UsableDepth + BootDepth)
    <3>1. R'[k] \in 0 .. BootDepth
      BY <2>1, <2>3 DEF Fits
    <3> DEFINE numerator == IF k = job.n - 1 THEN ct.c + 1
                            ELSE Larger(ct.c + 1, Larger(R'[k], ct.x) + 2)
    <3>2. numerator \in 0 .. (BootDepth + 3)
      BY <2>1, <3>1, Naturals DEF Larger
    <3>3. x = Larger(ct.x, Larger(numerator, R'[k] + 1 + Cost("back")) + 1)
      BY DEF BackSubstituted
    <3> HIDE DEF numerator
    <3>4. Larger(numerator, R'[k] + 1 + Cost("back")) + 1 \in 0 .. (UsableDepth + BootDepth)
      BY <1>j, <3>1, <3>2, Naturals DEF Larger
    <3>5. ct.x \in 0 .. (UsableDepth + BootDepth)
      BY <2>1, Naturals
    <3>6. QED BY <3>3, <3>4, <3>5 DEF Larger
  <2>5. /\ Rise({x}) /\ ct' = [ct EXCEPT !.x = Refreshed(x)]
        /\ k' = k - 1 /\ job' = job /\ pc' = pc /\ files' = files
    BY <1>5 DEF BackSubRow
  <2> HIDE DEF x
  <2>6. Below'
    BY <1>r, <2>4, <2>5
  <2>7. Refreshed(x) \in Fits
    BY <2>4, <1>b, RefreshedFits
  <2>8. k' \in -1 .. (job.n - 1)
    BY <1>j, <2>1, <2>5 DEF Rows
  <2>9. QED BY <1>i, <1>j, <2>1, <2>3, <2>5, <2>6, <2>7, <2>8 DEF BootInv, Enters, Shallow
<1>6. CASE QrModel
  <2>1. /\ ct' = [ct EXCEPT !.b = ct.x + 1, !.w = ct.x + 2] /\ Rise({ct'.b, ct'.w})
        /\ pc' \in {"score", "average"} /\ job' = job /\ files' = files
    BY <1>6 DEF QrModel, PrimalWeights, AfterSolve
  <2>2. /\ ct'.b = ct.x + 1 /\ ct'.w = ct.x + 2 /\ ct.x \in 0 .. BootDepth
        /\ ct'.c = ct.c /\ ct'.x = ct.x
    BY <2>1, <1>i DEF Shallow, Fits
  <2>3. ct'.b \in 0 .. (BootDepth + 2) /\ ct'.w \in 0 .. (BootDepth + 2)
    BY <2>2, Naturals
  <2>4. Below'
    <3>1. {ct'.b, ct'.w} \in SUBSET (0 .. (UsableDepth + BootDepth))
      BY <1>j, <2>3, Naturals
    <3>2. QED BY <1>r, <2>1, <3>1
  <2>5. Shallow'
    <3>1. ct' \in [c : 0 .. (BootDepth + 2), x : Fits,
                   b : 0 .. (BootDepth + 3), w : 0 .. (BootDepth + 3)]
      <4>1. ct.c \in 0 .. (BootDepth + 2) /\ ct.x \in Fits
        BY <1>i DEF Shallow
      <4>2. ct.x + 1 \in 0 .. (BootDepth + 3) /\ ct.x + 2 \in 0 .. (BootDepth + 3)
        BY <2>2, Naturals
      <4>3. QED BY <1>i, <2>1, <4>1, <4>2 DEF Shallow
    <3>2. ct'.b <= BootDepth + 2 /\ ct'.w <= BootDepth + 2
      BY <2>3, Naturals
    <3>3. pc' # "serve"
      BY <2>1
    <3>4. QED BY <3>1, <3>2, <3>3 DEF Shallow
  <2>6. QED BY <1>j, <2>1, <2>4, <2>5 DEF BootInv, Enters
<1>7. CASE CgIterate \/ CgModel
  BY <1>7 DEF CgIterate, CgModel, BootInv
<1>8. CASE Average
  <2>1. /\ ct' = [ct EXCEPT !.b = ct.b + 1, !.w = ct.w + 1] /\ Rise({ct'.b, ct'.w})
        /\ pc = "average" /\ pc' \in {"done", "score"} /\ job' = job /\ files' = files
    BY <1>8 DEF Average, Averaged
  <2>2. /\ ct'.b = ct.b + 1 /\ ct'.w = ct.w + 1 /\ ct'.c = ct.c /\ ct'.x = ct.x
        /\ ct.b \in 0 .. (BootDepth + 2) /\ ct.w \in 0 .. (BootDepth + 2)
    BY <2>1, <1>i, Naturals DEF Shallow
  <2>3. ct'.b \in 0 .. (BootDepth + 3) /\ ct'.w \in 0 .. (BootDepth + 3)
    BY <2>2, Naturals
  <2>4. Below'
    <3>1. {ct'.b, ct'.w} \in SUBSET (0 .. (UsableDepth + BootDepth))
      BY <1>j, <2>3, Naturals
    <3>2. QED BY <1>r, <2>1, <3>1
  <2>5. Shallow'
    <3>1. ct' \in [c : 0 .. (BootDepth + 2), x : Fits,
                   b : 0 .. (BootDepth + 3), w : 0 .. (BootDepth + 3)]
      BY <1>i, <2>1, <2>2, <2>3 DEF Shallow
    <3>2. pc' # "setup" /\ pc' # "average" /\ pc' # "serve"
      BY <2>1
    <3>3. QED BY <3>1, <3>2 DEF Shallow
  <2>6. QED BY <1>j, <2>1, <2>4, <2>5 DEF BootInv, Enters
<1>9. CASE Score
  <2>1. ct.b \in 0 .. (BootDepth + 3) /\ ct.w \in 0 .. (BootDepth + 3)
    BY <1>i DEF Shallow
  <2>2. {ScoreLevel(ct.b, ct.w)} \in SUBSET (0 .. (UsableDepth + BootDepth))
    BY <1>j, <2>1, Naturals DEF ScoreLevel, Larger
  <2>3. Below'
    BY <1>9, <1>r, <2>2 DEF Score
  <2>4. QED BY <1>9, <1>i, <1>j, <2>3 DEF Score, circuitVars, BootInv, Enters, Shallow
<1>10. CASE Save
  BY <1>10, <1>i, <1>j DEF Save, circuitVars, BootInv, Enters, Shallow, Below
<1>11. CASE Serve
  <2>1. files.b \in 0 .. (BootDepth + 3) /\ files.w \in 0 .. (BootDepth + 3)
    BY <1>11, <1>i DEF Serve, Shallow
  <2>2. {ScoreLevel(files.b, files.w)} \in SUBSET (0 .. (UsableDepth + BootDepth))
    BY <1>j, <2>1, Naturals DEF ScoreLevel, Larger
  <2>3. Below'
    BY <1>11, <1>r, <2>2 DEF Serve
  <2>4. QED BY <1>11, <1>i, <1>j, <2>3 DEF Serve, circuitVars, BootInv, Enters, Shallow
<1>12. CASE UNCHANGED vars
  BY <1>12, <1>i, <1>j DEF vars, circuitVars, BootInv, Enters, Shallow, Below
<1>13. QED
  BY <1>1, <1>2, <1>3, <1>4, <1>5, <1>6, <1>7, <1>8, <1>9, <1>10, <1>11, <1>12 DEF Next

-----------------------------------------------------------------------------
(* The theorem about bootstrapping. *)

(* With bootstrapping, a client's system may have any size: if two series   *)
(* and ten levels fit the usable depth, no ciphertext of any program ever   *)
(* exceeds the depth setup_crypto_context creates its context with.         *)
THEOREM BootstrappedLevelsSuffice ==
  ASSUME StepFits
  PROVE  Spec => [](job.security = "128" => LevelsSuffice)
<1>1. BootInv => (job.security = "128" => LevelsSuffice)
  BY Naturals DEF BootInv, Below, LevelsSuffice, Depth
<1>2. BootInv /\ [Next]_vars => BootInv'
  BY BootNext
<1>3. QED BY BootInit, <1>1, <1>2, PTL DEF Spec
-----------------------------------------------------------------------------
(* Without bootstrapping: the depth is planned from the size. *)

Power(e) == 2^e

LEMMA Powers == Power(0) = 1 /\ Power(1) = 2 /\ Power(2) = 4 /\ Power(3) = 8 /\ Power(4) = 16
BY DEF Power

LEMMA LeastPower ==
  ASSUME NEW m \in Nat, NEW l \in 0 .. m, Power(l) \in Nat, Power(l) >= m,
         \A f \in 0 .. (l - 1) : Power(f) < m /\ Power(f) \in Nat
  PROVE  CeilLog2(m) = l
<1> DEFINE Least(e) == Power(e) >= m /\ \A f \in 0 .. (e - 1) : Power(f) < m
<1>1. CeilLog2(m) = CHOOSE e \in 0 .. m : Least(e)
  BY DEF CeilLog2, Power
<1>2. Least(l)
  OBVIOUS
<1>3. \A e \in 0 .. m : Least(e) => e = l
  <2> SUFFICES ASSUME NEW e \in 0 .. m, Least(e) PROVE e = l
    OBVIOUS
  <2>1. ~(e < l) /\ ~(l < e)
    OBVIOUS
  <2>2. QED BY <2>1
<1> HIDE DEF Least
<1>4. QED BY <1>1, <1>2, <1>3

\* What the plan expects of the two degrees in use.
LEMMA ChebyDepths == ChebyDepth(2) = 4 /\ ChebyDepth(8) = 8
<1>1. CeilLog2(3) = 2
  <2>1. \A f \in 0 .. (2 - 1) : f = 0 \/ f = 1
    OBVIOUS
  <2>2. \A f \in 0 .. (2 - 1) : Power(f) < 3 /\ Power(f) \in Nat
    BY Powers, <2>1
  <2>3. QED BY Powers, <2>2, LeastPower
<1>2. CeilLog2(9) = 4
  <2>1. \A f \in 0 .. (4 - 1) : f = 0 \/ f = 1 \/ f = 2 \/ f = 3
    OBVIOUS
  <2>2. \A f \in 0 .. (4 - 1) : Power(f) < 9 /\ Power(f) \in Nat
    BY Powers, <2>1
  <2>3. QED BY Powers, <2>2, LeastPower
<1>3. QED BY <1>1, <1>2 DEF ChebyDepth

\* The depths of the contexts of the three calls.
LEMMA DemoDepth == DepthForSize(BaselineSize, [sqrt |-> 2, inv |-> 2, back |-> 8], 115) = 113
BY ChebyDepths DEF DepthForSize, BaselineSize, Larger

LEMMA SmokeDepth == DepthForSize(SmokeSize, [sqrt |-> 8, inv |-> 8, back |-> 8], 120) = 228
BY ChebyDepths DEF DepthForSize, SmokeSize, Larger

LEMMA TrainDepth ==
  ASSUME NEW d \in Nat, d >= BaselineSize
  PROVE  /\ DepthForSize(d, [sqrt |-> 8, inv |-> 8, back |-> 8], 120) \in Nat
         /\ DepthForSize(d, [sqrt |-> 8, inv |-> 8, back |-> 8], 120) >= 31 * d + 9
<1> DEFINE plan == ((d * (8 + 8 + 1) + d * (8 + 1) + 8) * 120 + 99) \div 100
<1>1. d >= 5
  BY DEF BaselineSize
<1>2. plan \in Nat /\ plan >= 31 * d + 9
  BY <1>1
<1>3. DepthForSize(d, [sqrt |-> 8, inv |-> 8, back |-> 8], 120) = Larger(30, plan)
  BY ChebyDepths DEF DepthForSize
<1> HIDE DEF plan
<1>4. QED BY <1>2, <1>3 DEF Larger

\* What a call without bootstrapping comes to.
LEMMA PlannedJob ==
  ASSUME NEW j \in Jobs, j.security # "128", Planned
  PROVE  /\ Depth(j) \in Nat
         /\ j.program \in {"train", "smoke", "baseline", "demo"}
         /\ j.program \in {"train", "smoke"} => Depth(j) >= 29 * j.n + 12
         /\ j.program = "train" => Depth(j) >= 164
         /\ j.program = "smoke" => Depth(j) = 228
         /\ j.program = "demo" => j.solver = "cg" /\ Depth(j) = 113
         /\ j.program = "baseline" => Depth(j) = 6
         /\ j.cost[8] \in 0 .. 8 /\ j.cost[2] \in 0 .. 8
<1>1. j.cost[8] \in 0 .. 8 /\ j.cost[2] \in 0 .. 8
  <2>1. j.cost \in Costs /\ j.cost[2] \in Nat /\ j.cost[8] \in Nat
    BY JobFacts
  <2>2. QED BY <2>1, ChebyDepths DEF Planned
<1>2. CASE j \in Calls({"train"}, Sizes, {d \in Sizes : d >= BaselineSize}) /\ j.n <= j.dim
  <2>1. j.program = "train" /\ j.dim \in Nat /\ j.dim >= BaselineSize /\ j.n \in Nat
    BY <1>2, ProgramAssumption DEF Calls
  <2>2. Depth(j) = DepthForSize(j.dim, [sqrt |-> 8, inv |-> 8, back |-> 8], 120) + 6
    BY <2>1 DEF Depth, Degrees
  <2>3. Depth(j) \in Nat /\ Depth(j) >= 31 * j.dim + 15
    BY <2>1, <2>2, TrainDepth
  <2>4. j.dim >= 5 /\ j.n <= j.dim
    BY <1>2, <2>1 DEF BaselineSize
  <2>5. QED BY <1>1, <2>1, <2>3, <2>4
<1>3. CASE j \in Calls({"smoke"}, {SmokeSize}, {SmokeSize})
  <2>1. j.program = "smoke" /\ j.dim = SmokeSize /\ j.n = 7
    BY <1>3 DEF Calls, SmokeSize
  <2>2. Depth(j) = 228
    BY <2>1, SmokeDepth DEF Depth, Degrees
  <2>3. QED BY <1>1, <2>1, <2>2
<1>4. CASE j \in Calls({"baseline"}, {1}, {1})
  <2>1. j.program = "baseline"
    BY <1>4 DEF Calls
  <2>2. Depth(j) = 6
    BY <2>1 DEF Depth
  <2>3. QED BY <1>1, <2>1, <2>2
<1>5. CASE j \in {i \in Calls({"demo"}, {BaselineSize}, {BaselineSize}) :
                    (i.security = "128") = (i.solver # "cg")}
  <2>1. j.program = "demo" /\ j.dim = BaselineSize /\ j.solver = "cg"
    BY <1>5 DEF Calls
  <2>2. Depth(j) = 113
    BY <2>1, DemoDepth DEF Depth, Degrees
  <2>3. QED BY <1>1, <2>1, <2>2
<1>6. QED BY <1>2, <1>3, <1>4, <1>5 DEF Jobs

\* What one iteration of CG adds at most.
IterationCost == job.cost[8] + 11

(* How deep the ciphertexts are where the program is: 26 levels a Householder *)
(* step, three a row of the back-substitution, IterationCost an iteration;    *)
(* and enough is left for the average and the score.                          *)
QRLevels ==
  /\ pc = "qr" => /\ k \in 0 .. job.n
                  /\ R \in [Rows(job.n) -> 0 .. (26 * k)] /\ Q \in [Rows(job.n) -> 0 .. (26 * k)]
                  /\ ct.x = 0
  /\ pc = "backsub" => /\ k \in -1 .. (job.n - 1)
                       /\ R \in [Rows(job.n) -> 0 .. (26 * job.n)]
                       /\ ct.c \in 0 .. (26 * job.n + 2)
                       /\ ct.x \in 0 .. (26 * job.n + 7 + 3 * (job.n - 1 - k))
CgLevels ==
  pc = "cg" =>
    LET upTo == k * IterationCost
    IN  /\ k \in 0 .. NIter
        /\ cg \in [x : 0 .. upTo, r : 0 .. upTo, p : 0 .. upTo, rr : 0 .. (upTo + 2)]
        /\ k > 0 => cg.x \in 0 .. (upTo - 4)
ModelLevels ==
  /\ pc = "average" => ct.b \in 0 .. (Depth(job) - 3) /\ ct.w \in 0 .. (Depth(job) - 3)
  /\ pc \in {"score", "save"} => ct.b \in 0 .. (Depth(job) - 2) /\ ct.w \in 0 .. (Depth(job) - 2)
  /\ pc = "serve" => files.b \in 0 .. (Depth(job) - 2) /\ files.w \in 0 .. (Depth(job) - 2)
ProgramPlace ==
  /\ pc \in {"qr", "backsub"} => job.program \in {"train", "smoke"}
  /\ pc = "cg" => job.program \in {"train", "smoke", "demo"}
  /\ pc = "average" => job.program # "demo"
  /\ pc = "setup" => /\ k = 0 /\ cg = CgStart /\ ct = [c |-> 0, x |-> 0, b |-> 0, w |-> 0]
                     /\ R = Fresh(job.n) /\ Q = Fresh(job.n)
PlanInv ==
  /\ job \in Jobs
  /\ job.security # "128" =>
       /\ pc \in {"setup", "qr", "backsub", "cg", "average", "score", "save", "serve", "done"}
       /\ ct \in [c : Nat, x : Nat, b : Nat, w : Nat]
       /\ ProgramPlace /\ QRLevels /\ CgLevels /\ ModelLevels
       /\ peak \in 0 .. Depth(job)

LEMMA PlanInit == Planned /\ Init => PlanInv
<1> SUFFICES ASSUME Planned, Init PROVE PlanInv
  OBVIOUS
<1>1. job \in Jobs /\ (job.security # "128" => Depth(job) \in Nat)
  BY PlannedJob DEF Init
<1>2. QED BY <1>1 DEF Init, PlanInv, ProgramPlace, QRLevels, CgLevels, ModelLevels

\* One iteration of CG, from levels of up to b.
LEMMA CgStepBound ==
  ASSUME NEW m \in Nat, NEW s \in [x : 0 .. m, r : 0 .. m, p : 0 .. m, rr : 0 .. (m + 2)],
         NEW last \in BOOLEAN, NEW inv \in Nat
  PROVE  LET t == CgStep(s, last, inv)
             next == m + inv + 11
         IN  /\ t \in [x : 0 .. next, r : 0 .. next, p : 0 .. next, rr : 0 .. (next + 2)]
             /\ t.x \in 0 .. (next - 4) /\ t.rr \in 0 .. next
<1> DEFINE Ap == InnerLevel(0, s.p)
           step == Quotient(s.rr, InnerLevel(s.p, Ap), inv)
           r == AxpyLevel(s.r, step, Ap)
           rr == InnerLevel(r, r)
           x == AxpyLevel(s.x, step, s.p)
           q == IF last THEN s.p ELSE AxpyLevel(r, Quotient(rr, s.rr, inv), s.p)
<1>1. /\ s.x \in 0 .. m /\ s.r \in 0 .. m /\ s.p \in 0 .. m /\ s.rr \in 0 .. (m + 2)
  OBVIOUS
<1>2. Ap \in 0 .. (m + 2)
  BY <1>1 DEF InnerLevel, Larger
<1> HIDE DEF Ap
<1>3. InnerLevel(s.p, Ap) \in 0 .. (m + 4)
  BY <1>1, <1>2 DEF InnerLevel, Larger
<1>4. step \in 0 .. (m + inv + 6)
  BY <1>1, <1>3 DEF Quotient, Larger
<1> HIDE DEF step
<1>5. x \in 0 .. (m + inv + 7) /\ r \in 0 .. (m + inv + 7)
  BY <1>1, <1>2, <1>4 DEF AxpyLevel, Larger
<1> HIDE DEF x, r
<1>6. rr \in 0 .. (m + inv + 9)
  BY <1>5 DEF InnerLevel, Larger
<1> HIDE DEF rr
<1>7. Quotient(rr, s.rr, inv) \in 0 .. (m + inv + 10)
  BY <1>1, <1>6 DEF Quotient, Larger
<1>8. q \in 0 .. (m + inv + 11)
  BY <1>1, <1>5, <1>7 DEF AxpyLevel, Larger
<1>9. CgStep(s, last, inv) = [x |-> x, r |-> r, rr |-> rr, p |-> q]
  BY DEF CgStep, Ap, step, r, rr, x
<1> HIDE DEF q
<1>10. QED BY <1>5, <1>6, <1>8, <1>9

\* A step under the plan leaves no more than its own bounds say.
PlanStep == Planned /\ CgFits /\ PlanInv /\ job.security # "128"

LEMMA PlanRise ==
  ASSUME PlanStep, NEW S \in SUBSET (0 .. Depth(job)), Rise(S), job' = job
  PROVE  peak' \in 0 .. Depth(job)
<1>1. Depth(job) \in Nat /\ peak \in 0 .. Depth(job)
  BY PlannedJob DEF PlanStep, PlanInv
<1>2. QED BY <1>1, RiseBound

LEMMA PlanSetup == PlanStep /\ Setup => PlanInv'
<1> SUFFICES ASSUME PlanStep, Setup PROVE PlanInv'
  OBVIOUS
<1>1. /\ job \in Jobs /\ job.n \in Nat \ {0} /\ job.solver \in {"row", "col", "cg"}
      /\ job.program \in {"train", "smoke", "baseline", "demo"}
      /\ job.program = "demo" => job.solver = "cg"
      /\ job.program = "baseline" => Depth(job) = 6
  BY JobFacts, PlannedJob DEF PlanStep, PlanInv
<1>2. /\ pc = "setup" /\ UNCHANGED <<job, k, R, Q, ct, cg, peak, files, served>>
      /\ pc' = CASE job.program = "baseline" -> "average"
                 [] job.program # "baseline" /\ job.solver = "cg" -> "cg"
                 [] job.program # "baseline" /\ job.solver # "cg" -> "qr"
  BY DEF Setup, circuitVars
<1>3. /\ k = 0 /\ cg = CgStart /\ ct = [c |-> 0, x |-> 0, b |-> 0, w |-> 0]
      /\ R = Fresh(job.n) /\ Q = Fresh(job.n) /\ peak \in 0 .. Depth(job)
  BY <1>2 DEF PlanStep, PlanInv, ProgramPlace
<1>4. job.security # "128" /\ IterationCost \in Nat
  BY PlannedJob DEF PlanStep, PlanInv, IterationCost
<1>5. CASE job.program = "baseline"
  <2>1. pc' = "average" /\ Depth(job)' = 6
    BY <1>1, <1>2, <1>5
  <2>2. ModelLevels'
    BY <1>2, <1>3, <2>1 DEF ModelLevels
  <2>3. QED BY <1>1, <1>2, <1>3, <1>5, <2>1, <2>2
            DEF PlanInv, ProgramPlace, QRLevels, CgLevels
<1>6. CASE job.program # "baseline" /\ job.solver = "cg"
  <2>1. pc' = "cg" /\ job.program \in {"train", "smoke", "demo"}
    BY <1>1, <1>2, <1>6
  <2>2. CgLevels'
    <3>1. NIter \in Nat /\ 0 * IterationCost = 0
      BY <1>4, ProgramAssumption
    <3>2. CgStart = [x |-> 0, r |-> 0, p |-> 0, rr |-> 2]
      BY DEF CgStart, InnerLevel, Larger
    <3>3. k' = 0 /\ cg' = CgStart /\ IterationCost' = IterationCost
      BY <1>2, <1>3 DEF IterationCost
    <3>4. QED BY <3>1, <3>2, <3>3 DEF CgLevels
  <2>3. QED BY <1>1, <1>2, <1>3, <2>1, <2>2 DEF PlanInv, ProgramPlace, QRLevels, ModelLevels
<1>7. CASE job.program # "baseline" /\ job.solver # "cg"
  <2>1. pc' = "qr" /\ job.program \in {"train", "smoke"}
    BY <1>1, <1>2, <1>7
  <2>2. QRLevels'
    <3>1. Fresh(job.n) \in [Rows(job.n) -> 0 .. (26 * 0)]
      BY DEF Fresh
    <3>2. QED BY <1>1, <1>2, <1>3, <2>1, <3>1 DEF QRLevels
  <2>3. QED BY <1>1, <1>2, <1>3, <2>1, <2>2 DEF PlanInv, ProgramPlace, CgLevels, ModelLevels
<1>8. QED BY <1>5, <1>6, <1>7

LEMMA PlanQR == PlanStep /\ QRStep => PlanInv'
<1> SUFFICES ASSUME PlanStep, QRStep PROVE PlanInv'
  OBVIOUS
<1>1. /\ job \in Jobs /\ job.n \in Nat \ {0} /\ job.security # "128"
      /\ job.program \in {"train", "smoke"} /\ Depth(job) \in Nat /\ Depth(job) >= 29 * job.n + 12
  BY JobFacts, PlannedJob DEF PlanStep, PlanInv, QRStep, ProgramPlace
<1>2. /\ pc = "qr" /\ k \in 0 .. (job.n - 1) /\ ct.x = 0
      /\ R \in [Rows(job.n) -> 0 .. (26 * k)] /\ Q \in [Rows(job.n) -> 0 .. (26 * k)]
  BY <1>1 DEF PlanStep, PlanInv, QRLevels, QRStep
<1>3. PICK c \in 0 .. 8 : Cost("sqrt") = c /\ Cost("inv") = c
  <2>1. Degrees(job).sqrt = Degrees(job).inv /\ Degrees(job).sqrt \in {2, 8}
    BY <1>1, JobFacts
  <2>2. job.cost[2] \in 0 .. 8 /\ job.cost[8] \in 0 .. 8
    BY <1>1, PlannedJob DEF PlanStep
  <2>3. QED BY <2>1, <2>2 DEF Cost
<1> DEFINE M == 26 * k + c + c + 10
           step == IF job.solver = "row" THEN RowStep(R, Q, k, Cost("sqrt"), Cost("inv"))
                   ELSE ColStep(R, Q, k, Cost("sqrt"), Cost("inv"))
<1>4. step.R \in [Rows(job.n) -> 0 .. M] /\ step.Q \in [Rows(job.n) -> 0 .. M]
  <2> DEFINE f == 26 * k
  <2>1. job.n \in Nat /\ f \in Nat /\ k \in Rows(job.n) /\ c \in Nat
    BY <1>1, <1>2 DEF Rows
  <2>2. R \in [Rows(job.n) -> 0 .. f] /\ Q \in [Rows(job.n) -> 0 .. f] /\ M = f + c + c + 10
    BY <1>2
  <2> HIDE DEF f, M
  <2>3. CASE job.solver = "row"
    BY <1>3, <2>1, <2>2, <2>3, RowStepBound
  <2>4. CASE job.solver # "row"
    BY <1>3, <2>1, <2>2, <2>4, ColStepBound
  <2>5. QED BY <2>3, <2>4
<1>5. /\ Rise(Levels(step.R) \cup Levels(step.Q)) /\ R' = step.R /\ Q' = step.Q
      /\ k' = k + 1 /\ UNCHANGED <<job, pc, ct, cg, files, served>>
  BY <1>1 DEF QRStep
<1>6. M \in Nat /\ M <= 26 * (k + 1) /\ M <= Depth(job)
  BY <1>1, <1>2
<1> HIDE DEF step, M
<1>7. R' \in [Rows(job.n) -> 0 .. (26 * k')] /\ Q' \in [Rows(job.n) -> 0 .. (26 * k')]
  <2>1. 0 .. M \subseteq 0 .. (26 * k')
    BY <1>2, <1>5, <1>6
  <2>2. QED BY <1>4, <1>5, <2>1
<1>8. peak' \in 0 .. Depth(job)
  <2>1. Levels(step.R) \cup Levels(step.Q) \in SUBSET (0 .. Depth(job))
    BY <1>1, <1>4, <1>6 DEF Levels
  <2>2. QED BY <1>5, <2>1, PlanRise
<1>9. QRLevels'
  BY <1>1, <1>2, <1>5, <1>7 DEF QRLevels
<1>10. QED BY <1>1, <1>2, <1>5, <1>8, <1>9
           DEF PlanStep, PlanInv, ProgramPlace, CgLevels, ModelLevels

LEMMA PlanRhs == PlanStep /\ RhsProduct => PlanInv'
<1> SUFFICES ASSUME PlanStep, RhsProduct PROVE PlanInv'
  OBVIOUS
<1>1. /\ job \in Jobs /\ job.n \in Nat \ {0} /\ job.security # "128"
      /\ job.program \in {"train", "smoke"} /\ Depth(job) \in Nat /\ Depth(job) >= 29 * job.n + 12
  BY JobFacts, PlannedJob DEF PlanStep, PlanInv, RhsProduct, ProgramPlace
<1>2. /\ pc = "qr" /\ k = job.n /\ ct.x = 0 /\ ct \in [c : Nat, x : Nat, b : Nat, w : Nat]
      /\ R \in [Rows(job.n) -> 0 .. (26 * k)] /\ Q \in [Rows(job.n) -> 0 .. (26 * k)]
  BY <1>1 DEF PlanStep, PlanInv, QRLevels, RhsProduct
<1> DEFINE S == {Q[j] : j \in DOMAIN Q}
<1>3. S \in SUBSET (0 .. (26 * job.n)) /\ S # {}
  <2>1. 0 \in Rows(job.n)
    BY <1>1 DEF Rows
  <2>2. QED BY <1>2, <2>1
<1>4. Deepest(S) \in 0 .. (26 * job.n)
  <2>1. 26 * job.n \in Nat
    BY <1>1
  <2> HIDE DEF S
  <2>2. QED BY <1>3, <2>1, DeepestBound
<1>5. MatmulT(Q) = Deepest(S) + 2
  BY DEF MatmulT
<1> HIDE DEF S
<1>6. MatmulT(Q) \in 0 .. (26 * job.n + 2)
  BY <1>1, <1>4, <1>5
<1>7. /\ ct' = [ct EXCEPT !.c = MatmulT(Q)] /\ Rise({ct'.c}) /\ k' = job.n - 1
      /\ pc' = "backsub" /\ UNCHANGED <<job, R, Q, cg, files, served>>
  BY DEF RhsProduct
<1>8. /\ ct'.c = MatmulT(Q) /\ ct'.x = 0 /\ ct' \in [c : Nat, x : Nat, b : Nat, w : Nat]
  BY <1>2, <1>6, <1>7
<1>9. peak' \in 0 .. Depth(job)
  <2>1. {ct'.c} \in SUBSET (0 .. Depth(job))
    BY <1>1, <1>6, <1>8
  <2>2. QED BY <1>7, <2>1, PlanRise
<1>10. QRLevels'
  BY <1>1, <1>2, <1>6, <1>7, <1>8 DEF QRLevels
<1>11. QED BY <1>1, <1>7, <1>8, <1>9, <1>10
           DEF PlanInv, ProgramPlace, CgLevels, ModelLevels

LEMMA PlanBackSub == PlanStep /\ BackSubRow => PlanInv'
<1> SUFFICES ASSUME PlanStep, BackSubRow PROVE PlanInv'
  OBVIOUS
<1>1. /\ job \in Jobs /\ job.n \in Nat \ {0} /\ job.security # "128"
      /\ job.program \in {"train", "smoke"} /\ Depth(job) \in Nat /\ Depth(job) >= 29 * job.n + 12
  BY JobFacts, PlannedJob DEF PlanStep, PlanInv, BackSubRow, ProgramPlace
<1> DEFINE X == 26 * job.n + 7 + 3 * (job.n - 1 - k)
<1>2. /\ pc = "backsub" /\ k \in 0 .. (job.n - 1) /\ ct \in [c : Nat, x : Nat, b : Nat, w : Nat]
      /\ R \in [Rows(job.n) -> 0 .. (26 * job.n)]
      /\ ct.c \in 0 .. (26 * job.n + 2) /\ ct.x \in 0 .. X
  BY <1>1 DEF PlanStep, PlanInv, QRLevels, BackSubRow
<1>3. X \in Nat /\ 26 * job.n + 7 <= X /\ X + 3 <= Depth(job)
  BY <1>1, <1>2
<1>4. Cost("back") \in 0 .. 8
  <2>1. Degrees(job).back = 8 /\ job.cost[8] \in 0 .. 8
    BY <1>1, JobFacts, PlannedJob DEF PlanStep
  <2>2. QED BY <2>1 DEF Cost
<1>5. R' = R /\ k' = k - 1 /\ UNCHANGED <<job, pc, Q, cg, files, served>>
  BY <1>1 DEF BackSubRow
<1> DEFINE x == BackSubstituted(R[k], ct.c, ct.x, k = job.n - 1, Cost("back"))
<1>6. Rise({x}) /\ ct' = [ct EXCEPT !.x = x]
  BY <1>1, <1>5 DEF BackSubRow
<1>7. x \in 0 .. (X + 3)
  <2>1. R[k] \in 0 .. (26 * job.n)
    BY <1>1, <1>2 DEF Rows
  <2> DEFINE numerator == IF k = job.n - 1 THEN ct.c + 1
                          ELSE Larger(ct.c + 1, Larger(R[k], ct.x) + 2)
  <2> HIDE DEF X
  <2>2. Larger(R[k], ct.x) \in 0 .. X
    BY <1>1, <1>2, <1>3, <2>1 DEF Larger
  <2>3. numerator \in 0 .. (X + 2)
    BY <1>1, <1>2, <1>3, <2>2 DEF Larger
  <2>4. x = Larger(ct.x, Larger(numerator, R[k] + 1 + Cost("back")) + 1)
    BY DEF BackSubstituted
  <2> HIDE DEF numerator, x
  <2>5. R[k] + 1 + Cost("back") \in 0 .. (X + 2)
    BY <1>1, <1>3, <1>4, <2>1
  <2>6. Larger(numerator, R[k] + 1 + Cost("back")) + 1 \in 0 .. (X + 3)
    BY <1>3, <2>3, <2>5 DEF Larger
  <2>7. QED BY <1>2, <1>3, <2>4, <2>6 DEF Larger
<1> HIDE DEF x
<1>8. peak' \in 0 .. Depth(job)
  <2>1. {x} \in SUBSET (0 .. Depth(job))
    BY <1>1, <1>3, <1>7
  <2>2. QED BY <1>5, <1>6, <2>1, PlanRise
<1>9. X + 3 = 26 * job.n + 7 + 3 * (job.n - 1 - (k - 1))
  BY <1>1, <1>2
<1>10. /\ ct'.x = x /\ ct'.c = ct.c /\ x \in Nat
       /\ ct' \in [c : Nat, x : Nat, b : Nat, w : Nat]
  BY <1>2, <1>3, <1>6, <1>7
<1>11. k' \in -1 .. (job.n - 1)
  BY <1>1, <1>2, <1>5
<1>12. QRLevels'
  <2> HIDE DEF X
  <2>1. QED BY <1>2, <1>5, <1>7, <1>9, <1>10, <1>11 DEF QRLevels
<1>13. QED BY <1>1, <1>2, <1>5, <1>8, <1>10, <1>12
           DEF PlanInv, ProgramPlace, CgLevels, ModelLevels

\* The solvers hand the model on.
LEMMA PlanModel ==
  ASSUME PlanStep, job.program \in {"train", "smoke", "demo"}, Rise({ct'.b, ct'.w}),
         ct'.b \in 0 .. (Depth(job) - 2), ct'.w \in 0 .. (Depth(job) - 2),
         job.program # "demo" => /\ ct'.b \in 0 .. (Depth(job) - 3)
                                 /\ ct'.w \in 0 .. (Depth(job) - 3),
         ct' \in [c : Nat, x : Nat, b : Nat, w : Nat], pc' = AfterSolve,
         UNCHANGED <<job, k, R, Q, cg, files, served>>
  PROVE  PlanInv'
<1>1. job \in Jobs /\ job.security # "128" /\ Depth(job) \in Nat
  BY PlannedJob DEF PlanStep, PlanInv
<1>2. peak' \in 0 .. Depth(job)
  <2>1. {ct'.b, ct'.w} \in SUBSET (0 .. Depth(job))
    BY <1>1
  <2>2. QED BY <2>1, PlanRise
<1>3. /\ pc' \in {"score", "average"} /\ (pc' = "average" => job.program # "demo")
  BY DEF AfterSolve
<1>4. ModelLevels'
  BY <1>3 DEF ModelLevels
<1>5. QED BY <1>1, <1>2, <1>3, <1>4 DEF PlanInv, ProgramPlace, QRLevels, CgLevels

LEMMA PlanQrModel == PlanStep /\ QrModel => PlanInv'
<1> SUFFICES ASSUME PlanStep, QrModel PROVE PlanInv'
  OBVIOUS
<1>1. /\ job \in Jobs /\ job.n \in Nat \ {0} /\ job.security # "128"
      /\ job.program \in {"train", "smoke"} /\ Depth(job) \in Nat /\ Depth(job) >= 29 * job.n + 12
  BY JobFacts, PlannedJob DEF PlanStep, PlanInv, QrModel, ProgramPlace
<1>2. /\ k = -1 /\ ct.x \in 0 .. (26 * job.n + 7 + 3 * (job.n - 1 - k))
      /\ ct \in [c : Nat, x : Nat, b : Nat, w : Nat]
  BY <1>1 DEF PlanStep, PlanInv, QRLevels, QrModel
<1>3. /\ ct' = [ct EXCEPT !.b = ct.x + 1, !.w = ct.x + 2] /\ Rise({ct'.b, ct'.w})
      /\ pc' = AfterSolve /\ UNCHANGED <<job, k, R, Q, cg, files, served>>
  BY DEF QrModel, PrimalWeights
<1>4. ct'.b = ct.x + 1 /\ ct'.w = ct.x + 2
  BY <1>2, <1>3
<1>5. ct.x \in 0 .. (Depth(job) - 5)
  BY <1>1, <1>2
<1>6. ct'.b \in 0 .. (Depth(job) - 3) /\ ct'.w \in 0 .. (Depth(job) - 3)
  BY <1>1, <1>4, <1>5
<1>7. ct' \in [c : Nat, x : Nat, b : Nat, w : Nat]
  <2>1. ct.x + 1 \in Nat /\ ct.x + 2 \in Nat
    BY <1>2
  <2>2. QED BY <1>2, <1>3, <2>1
<1>8. QED BY <1>1, <1>3, <1>6, <1>7, PlanModel

LEMMA Spread ==
  ASSUME NEW m \in Nat, NEW e \in Nat, NEW a \in Nat
  PROVE  (m + e) * a = m * a + e * a /\ m * a \in Nat /\ e * a \in Nat
OBVIOUS

\* What the condition on CG says of the running program, k being the iterations done.
LEMMA CgPlan ==
  ASSUME PlanStep, pc = "cg"
  PROVE  /\ job \in Jobs /\ job.security # "128" /\ job.program \in {"train", "smoke", "demo"}
         /\ Depth(job) \in Nat /\ NIter \in Nat \ {0} /\ k \in 0 .. NIter
         /\ job.cost[8] \in Nat /\ IterationCost \in Nat /\ k * IterationCost \in Nat
         /\ k < NIter => (k + 1) * IterationCost + job.cost[8] + 5 <= Depth(job)
         /\ k = NIter => /\ k * IterationCost + job.cost[8] + 5 <= Depth(job)
                         /\ job.program # "demo" =>
                              k * IterationCost + job.cost[8] + 6 <= Depth(job)
<1>1. /\ job \in Jobs /\ job.security # "128" /\ job.program \in {"train", "smoke", "demo"}
      /\ NIter \in Nat \ {0} /\ k \in 0 .. NIter
  BY ProgramAssumption DEF PlanStep, PlanInv, ProgramPlace, CgLevels
<1>2. /\ Depth(job) \in Nat /\ Depth(job) >= 113 /\ (job.program # "demo" => Depth(job) >= 114)
      /\ job.cost[8] \in 0 .. 8 /\ job.cost \in Costs
  BY <1>1, PlannedJob, JobFacts DEF PlanStep
<1>3. IterationCost = job.cost[8] + 11 /\ IterationCost \in Nat
  BY <1>2 DEF IterationCost
<1> DEFINE all == NIter * IterationCost
<1>4. all \in Nat
  BY <1>1, <1>3
<1>5. all - 4 + job.cost[8] + 9 <= 113
  BY <1>2, <1>3, DemoDepth DEF CgFits, PlanStep
<1>6. k * IterationCost \in Nat
  BY <1>1, <1>3
<1>7. k < NIter => (k + 1) * IterationCost <= all
  <2>1. SUFFICES ASSUME k < NIter PROVE (k + 1) * IterationCost <= all
    OBVIOUS
  <2>2. PICK e \in Nat : NIter = k + 1 + e
    <3>1. NIter - (k + 1) \in Nat /\ NIter = k + 1 + (NIter - (k + 1))
      BY <1>1, <2>1
    <3>2. QED BY <3>1
  <2>3. /\ (k + 1 + e) * IterationCost = (k + 1) * IterationCost + e * IterationCost
        /\ e * IterationCost \in Nat /\ (k + 1) * IterationCost \in Nat
    <3>1. k + 1 \in Nat
      BY <1>1
    <3>2. QED BY <1>3, <3>1, Spread
  <2> HIDE DEF all
  <2>4. all = (k + 1 + e) * IterationCost
    BY <2>2 DEF all
  <2>5. QED BY <2>3, <2>4
<1>8. (k + 1) * IterationCost \in Nat
  BY <1>1, <1>3
<1>9. k = NIter => k * IterationCost = all
  OBVIOUS
<1> HIDE DEF all
<1>10. k < NIter => (k + 1) * IterationCost + job.cost[8] + 5 <= Depth(job)
  BY <1>2, <1>4, <1>5, <1>7, <1>8
<1>11. k = NIter => /\ k * IterationCost + job.cost[8] + 5 <= Depth(job)
                    /\ job.program # "demo" => k * IterationCost + job.cost[8] + 6 <= Depth(job)
  BY <1>2, <1>4, <1>5, <1>6, <1>9
<1>12. job.cost[8] \in Nat
  BY <1>2
<1>13. QED BY <1>1, <1>2, <1>3, <1>6, <1>10, <1>11, <1>12

LEMMA PlanCg == PlanStep /\ CgIterate => PlanInv'
<1> SUFFICES ASSUME PlanStep, CgIterate PROVE PlanInv'
  OBVIOUS
<1> DEFINE upTo == k * IterationCost
<1>1. /\ pc = "cg" /\ k < NIter /\ cg' = CgStep(cg, k = NIter - 1, job.cost[8])
      /\ Rise({cg'.x, cg'.r, cg'.p, cg'.rr}) /\ k' = k + 1
      /\ UNCHANGED <<job, pc, R, Q, ct, files, served>>
  BY DEF CgIterate
<1>2. /\ job \in Jobs /\ job.security # "128" /\ job.program \in {"train", "smoke", "demo"}
      /\ Depth(job) \in Nat /\ NIter \in Nat \ {0} /\ k \in 0 .. NIter
      /\ job.cost[8] \in Nat /\ IterationCost \in Nat /\ upTo \in Nat
      /\ (k + 1) * IterationCost + job.cost[8] + 5 <= Depth(job)
  BY <1>1, CgPlan
<1>3. cg \in [x : 0 .. upTo, r : 0 .. upTo, p : 0 .. upTo, rr : 0 .. (upTo + 2)]
  BY <1>1, <1>2 DEF PlanStep, PlanInv, CgLevels
<1> DEFINE next == upTo + job.cost[8] + 11
<1>4. next = (k + 1) * IterationCost /\ next \in Nat
  BY <1>2 DEF IterationCost
<1> HIDE DEF upTo
<1>5. /\ cg' \in [x : 0 .. next, r : 0 .. next, p : 0 .. next, rr : 0 .. (next + 2)]
      /\ cg'.x \in 0 .. (next - 4) /\ cg'.rr \in 0 .. next
  BY <1>1, <1>2, <1>3, CgStepBound
<1> HIDE DEF next
<1>6. peak' \in 0 .. Depth(job)
  <2>1. next <= Depth(job)
    BY <1>2, <1>4
  <2>2. {cg'.x, cg'.r, cg'.p, cg'.rr} \in SUBSET (0 .. Depth(job))
    BY <1>2, <1>4, <1>5, <2>1
  <2>3. QED BY <1>1, <2>2, PlanRise
<1>7. CgLevels'
  <2>1. k' \in 0 .. NIter /\ k' = k + 1
    BY <1>1, <1>2
  <2>2. IterationCost' = IterationCost
    BY <1>1 DEF IterationCost
  <2>3. (k * IterationCost)' = next
    BY <1>4, <2>1, <2>2
  <2>4. QED BY <1>5, <2>1, <2>3 DEF CgLevels
<1>8. ct \in [c : Nat, x : Nat, b : Nat, w : Nat]
  BY <1>2 DEF PlanStep, PlanInv
<1>9. QED BY <1>1, <1>2, <1>6, <1>7, <1>8 DEF PlanInv, ProgramPlace, QRLevels, ModelLevels

LEMMA PlanCgModel == PlanStep /\ CgModel => PlanInv'
<1> SUFFICES ASSUME PlanStep, CgModel PROVE PlanInv'
  OBVIOUS
<1> DEFINE upTo == k * IterationCost
           bias == SchurBias(cg.x, job.cost[8])
           weights == PrimalWeights(SchurAlpha(cg.x, job.cost[8]))
<1>1. /\ pc = "cg" /\ k = NIter /\ ct' = [ct EXCEPT !.b = bias, !.w = weights]
      /\ Rise({ct'.b, ct'.w}) /\ pc' = AfterSolve
      /\ UNCHANGED <<job, k, R, Q, cg, files, served>>
  BY DEF CgModel
<1>2. /\ job \in Jobs /\ job.security # "128" /\ job.program \in {"train", "smoke", "demo"}
      /\ Depth(job) \in Nat /\ NIter \in Nat \ {0} /\ job.cost[8] \in Nat /\ upTo \in Nat
      /\ upTo + job.cost[8] + 5 <= Depth(job)
      /\ job.program # "demo" => upTo + job.cost[8] + 6 <= Depth(job)
  BY <1>1, CgPlan
<1>3. cg.x \in 0 .. (upTo - 4) /\ ct \in [c : Nat, x : Nat, b : Nat, w : Nat]
  BY <1>1, <1>2 DEF PlanStep, PlanInv, CgLevels
<1> HIDE DEF upTo
<1>4. bias = cg.x + job.cost[8] + 4
  BY <1>2, <1>3 DEF SchurBias, Quotient, Larger
<1> HIDE DEF bias
<1>5. weights = cg.x + job.cost[8] + 7
  <2>1. SchurBias(cg.x, job.cost[8]) = cg.x + job.cost[8] + 4
    BY <1>4 DEF bias
  <2>2. SchurAlpha(cg.x, job.cost[8]) = cg.x + job.cost[8] + 5
    BY <1>2, <1>3, <2>1 DEF SchurAlpha, AxpyLevel, Larger
  <2>3. QED BY <1>2, <1>3, <2>2 DEF PrimalWeights
<1> HIDE DEF weights
<1>6. ct'.b = bias /\ ct'.w = weights
  BY <1>1, <1>3
<1>7. bias \in 0 .. (upTo + job.cost[8]) /\ weights \in 0 .. (upTo + job.cost[8] + 3)
  BY <1>2, <1>3, <1>4, <1>5
<1>8. ct'.b \in 0 .. (Depth(job) - 2) /\ ct'.w \in 0 .. (Depth(job) - 2)
  BY <1>2, <1>6, <1>7
<1>9. job.program # "demo" => /\ ct'.b \in 0 .. (Depth(job) - 3) /\ ct'.w \in 0 .. (Depth(job) - 3)
  BY <1>2, <1>6, <1>7
<1>10. ct' \in [c : Nat, x : Nat, b : Nat, w : Nat]
  <2>1. bias \in Nat /\ weights \in Nat
    BY <1>2, <1>7
  <2>2. QED BY <1>1, <1>3, <2>1
<1>11. QED BY <1>1, <1>2, <1>8, <1>9, <1>10, PlanModel

\* From the average to the served score.
LEMMA PlanServing == PlanStep /\ (Average \/ Score \/ Save \/ Serve) => PlanInv'
<1> SUFFICES ASSUME PlanStep, Average \/ Score \/ Save \/ Serve PROVE PlanInv'
  OBVIOUS
<1>1. /\ job \in Jobs /\ job.security # "128" /\ Depth(job) \in Nat
      /\ ct \in [c : Nat, x : Nat, b : Nat, w : Nat]
      /\ ModelLevels /\ ProgramPlace /\ peak \in 0 .. Depth(job)
  BY PlannedJob DEF PlanStep, PlanInv
<1>2. CASE Average
  <2>1. /\ pc = "average" /\ ct' = [ct EXCEPT !.b = ct.b + 1, !.w = ct.w + 1]
        /\ Rise({ct'.b, ct'.w}) /\ pc' \in {"done", "score"}
        /\ UNCHANGED <<job, k, R, Q, cg, files, served>>
    BY <1>2 DEF Average, Averaged
  <2>2. ct.b \in 0 .. (Depth(job) - 3) /\ ct.w \in 0 .. (Depth(job) - 3)
    BY <1>1, <2>1 DEF ModelLevels
  <2>3. /\ ct'.b = ct.b + 1 /\ ct'.w = ct.w + 1 /\ ct' \in [c : Nat, x : Nat, b : Nat, w : Nat]
    <3>1. ct.b + 1 \in Nat /\ ct.w + 1 \in Nat
      BY <1>1
    <3>2. QED BY <1>1, <2>1, <3>1
  <2>4. ct'.b \in 0 .. (Depth(job) - 2) /\ ct'.w \in 0 .. (Depth(job) - 2)
    BY <1>1, <2>2, <2>3
  <2>5. peak' \in 0 .. Depth(job)
    <3>1. {ct'.b, ct'.w} \in SUBSET (0 .. Depth(job))
      BY <1>1, <2>4
    <3>2. QED BY <2>1, <3>1, PlanRise
  <2>6. QED BY <1>1, <2>1, <2>3, <2>4, <2>5
            DEF PlanInv, ProgramPlace, QRLevels, CgLevels, ModelLevels
<1>3. CASE Score
  <2>1. /\ pc = "score" /\ Rise({ScoreLevel(ct.b, ct.w)}) /\ pc' = "save"
        /\ UNCHANGED <<job, k, R, Q, ct, cg, files, served>>
    BY <1>3 DEF Score, circuitVars
  <2>2. ct.b \in 0 .. (Depth(job) - 2) /\ ct.w \in 0 .. (Depth(job) - 2)
    BY <1>1, <2>1 DEF ModelLevels
  <2>3. peak' \in 0 .. Depth(job)
    <3>1. {ScoreLevel(ct.b, ct.w)} \in SUBSET (0 .. Depth(job))
      BY <1>1, <2>2 DEF ScoreLevel, Larger
    <3>2. QED BY <2>1, <3>1, PlanRise
  <2>4. QED BY <1>1, <2>1, <2>2, <2>3
            DEF PlanInv, ProgramPlace, QRLevels, CgLevels, ModelLevels
<1>4. CASE Save
  <2>1. /\ pc = "save" /\ pc' = "serve" /\ files'.b = ct.b /\ files'.w = ct.w
        /\ UNCHANGED <<job, k, R, Q, ct, cg, peak, served>>
    BY <1>4 DEF Save, circuitVars
  <2>2. ModelLevels'
    BY <1>1, <2>1 DEF ModelLevels
  <2>3. QED BY <1>1, <2>1, <2>2 DEF PlanInv, ProgramPlace, QRLevels, CgLevels
<1>5. CASE Serve
  <2>1. /\ pc = "serve" /\ Rise({ScoreLevel(files.b, files.w)}) /\ pc' = "done"
        /\ UNCHANGED <<job, k, R, Q, ct, cg, files>>
    BY <1>5 DEF Serve, circuitVars
  <2>2. files.b \in 0 .. (Depth(job) - 2) /\ files.w \in 0 .. (Depth(job) - 2)
    BY <1>1, <2>1 DEF ModelLevels
  <2>3. peak' \in 0 .. Depth(job)
    <3>1. {ScoreLevel(files.b, files.w)} \in SUBSET (0 .. Depth(job))
      BY <1>1, <2>2 DEF ScoreLevel, Larger
    <3>2. QED BY <2>1, <3>1, PlanRise
  <2>4. QED BY <1>1, <2>1, <2>3 DEF PlanInv, ProgramPlace, QRLevels, CgLevels, ModelLevels
<1>6. QED BY <1>2, <1>3, <1>4, <1>5

LEMMA PlanNext == Planned /\ CgFits /\ PlanInv /\ [Next]_vars => PlanInv'
<1> SUFFICES ASSUME Planned, CgFits, PlanInv, [Next]_vars PROVE PlanInv'
  OBVIOUS
<1>1. job \in Jobs /\ job' = job
  BY DEF PlanInv, Next, vars, circuitVars, Refuse, Setup, QRStep, RhsProduct, BackSubRow,
         QrModel, CgIterate, CgModel, Average, Score, Save, Serve
<1>2. CASE job.security = "128"
  BY <1>1, <1>2 DEF PlanInv
<1>3. CASE job.security # "128"
  <2>1. PlanStep
    BY <1>3 DEF PlanStep
  <2>2. CASE Refuse
    BY <1>3, <2>2 DEF Refuse, Rejected
  <2>3. CASE UNCHANGED vars
    BY <1>1, <1>3, <2>3 DEF vars, circuitVars, PlanInv, ProgramPlace, QRLevels, CgLevels,
                            ModelLevels, IterationCost
  <2>4. QED BY <2>1, <2>2, <2>3, PlanSetup, PlanQR, PlanRhs, PlanBackSub, PlanQrModel, PlanCg,
               PlanCgModel, PlanServing DEF Next
<1>4. QED BY <1>2, <1>3

\* Whatever the sizes and the iterations: if the series cost what the plan counts
\* on, a Householder step fits between two bootstraps and the iterations of CG fit
\* the demo's plan, no ciphertext of any program, bootstrapped or not, is ever
\* deeper than the depth context_depth, depth_for_size or setup_crypto_context
\* gave its context before the run.
THEOREM PlannedLevelsSuffice ==
  ASSUME StepFits, Planned, CgFits
  PROVE  Spec => []LevelsSuffice
<1>1. Init => BootInv /\ PlanInv
  BY BootInit, PlanInit
<1>2. BootInv /\ PlanInv /\ [Next]_vars => (BootInv /\ PlanInv)'
  BY BootNext, PlanNext
<1>3. BootInv /\ PlanInv => LevelsSuffice
  <2>1. ASSUME BootInv, job.security = "128" PROVE LevelsSuffice
    BY <2>1, Naturals DEF BootInv, Below, LevelsSuffice, Depth
  <2>2. ASSUME PlanInv, job.security # "128" PROVE LevelsSuffice
    BY <2>2, PlannedJob DEF PlanInv, LevelsSuffice
  <2>3. QED BY <2>1, <2>2
<1>4. QED BY <1>1, <1>2, <1>3, PTL DEF Spec

-----------------------------------------------------------------------------
(* What is served is what was trained. *)

(* The model that is saved when training is over, and what is served with   *)
(* it: only the last step serves.                                           *)
Saved == [mode |-> job.kernel, mean |-> SavedMean(job), threshold |-> Threshold(job),
          b |-> ct.b, w |-> ct.w]
ServeInv ==
  /\ job \in Jobs
  /\ pc = "serve" => files = Saved
  /\ served # None =>
       /\ pc = "done" /\ files = Saved
       /\ served.threshold = Threshold(job)
       /\ served.features = ServedFeatures(job, Saved)

LEMMA ServeNext == ServeInv /\ [Next]_vars => ServeInv'
<1> SUFFICES ASSUME ServeInv, [Next]_vars PROVE ServeInv'
  OBVIOUS
<1>1. CASE Save
  <2>1. pc = "save" /\ pc' = "serve" /\ files' = Saved /\ UNCHANGED <<job, ct, served>>
    BY <1>1 DEF Save, circuitVars, Saved
  <2>2. served' = None
    BY <2>1 DEF ServeInv
  <2>3. Saved' = Saved
    BY <2>1 DEF Saved
  <2>4. QED BY <2>1, <2>2, <2>3 DEF ServeInv
<1>2. CASE Serve
  <2>1. /\ pc = "serve" /\ pc' = "done" /\ UNCHANGED <<job, ct, files>> /\ files = Saved
        /\ served' = [features |-> ServedFeatures(job, files),
                      threshold |-> files.threshold]
    BY <1>2 DEF Serve, circuitVars, ServeInv
  <2>2. Saved' = Saved
    BY <2>1 DEF Saved
  <2>3. files.threshold = Threshold(job)
    BY <2>1 DEF Saved
  <2>4. served'.features = ServedFeatures(job, Saved) /\ served'.threshold = Threshold(job)
    BY <2>1, <2>3
  <2>5. QED BY <2>1, <2>2, <2>4 DEF ServeInv
<1>3. CASE Refuse \/ Setup \/ QRStep \/ RhsProduct \/ BackSubRow \/ QrModel
             \/ CgIterate \/ CgModel \/ Average \/ Score
  <2>1. pc # "done" /\ pc # "serve" /\ job' = job /\ served' = served
    BY <1>3 DEF Refuse, Setup, QRStep, RhsProduct, BackSubRow, QrModel, CgIterate, CgModel,
                Average, Score, circuitVars
  <2>2. pc' # "serve"
    BY <1>3, <2>1 DEF Refuse, Setup, QRStep, RhsProduct, BackSubRow, QrModel, CgIterate,
                      CgModel, Average, Score, AfterSolve
  <2>3. QED BY <2>1, <2>2 DEF ServeInv
<1>4. CASE UNCHANGED vars
  BY <1>4 DEF vars, circuitVars, ServeInv, Saved
<1>5. QED BY <1>1, <1>2, <1>3, <1>4 DEF Next

(* What train and baseline_run save, with whichever solver and kernel, is   *)
(* served on the frame of features it was trained in; and whichever program *)
(* made it, with the threshold and the ciphertexts that were evaluated.     *)
THEOREM ModelsServedAsTrained == Spec => []ServedAsTrained
<1>1. Init => ServeInv
  BY DEF Init, ServeInv
<1>2. ServeInv => ServedAsTrained
  <2>1. ASSUME job.program # "demo"
        PROVE  ServedFeatures(job, Saved) = TrainedOn(job)
    <3>1. Saved.mean = SavedMean(job)
      BY DEF Saved
    <3>2. ServedFeatures(job, Saved) = Preprocessed(Standardised, job.kernel, SavedMean(job))
      BY <2>1, <3>1 DEF ServedFeatures
    <3>3. QED BY <2>1, <3>2 DEF Preprocessed, SavedMean, TrainedOn
  <2>2. QED BY <2>1 DEF ServeInv, ServedAsTrained, Saved
<1>3. QED BY <1>1, <1>2, ServeNext, PTL DEF Spec
=============================================================================
