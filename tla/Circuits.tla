------------------------------ MODULE Circuits ------------------------------
(***************************************************************************)
(* The multiplicative depth of the encrypted circuits.  A ciphertext is    *)
(* abstracted to its level, the number of multiplications behind it: a     *)
(* product, with a ciphertext, a plaintext or a constant, is one level     *)
(* above the deeper factor, a sum is as deep as its deepest term, rotations*)
(* are free and a Chebyshev series costs what its degree says.  Nothing in *)
(* a circuit is deeper than its results, so that only these are computed.  *)
(***************************************************************************)
EXTENDS Integers, FiniteSetsExt

CONSTANTS
  UsableDepth,  \* _BOOTSTRAP_USABLE_DEPTH: levels left after a bootstrap
  BootDepth     \* GetBootstrapDepth, also _BOOTSTRAP_SKIP_BELOW_LEVEL

ASSUME DepthAssumption == UsableDepth \in Nat /\ BootDepth \in Nat

Larger(a, b) == IF a < b THEN b ELSE a
Deepest(levels) == Max(levels)
Rows(n) == 0..(n - 1)

\* EvalBootstrap where bootstrap_all and he_back_substitute call it: what is
\* not deeper than a refreshed ciphertext is skipped.
Refreshed(level) == IF level < BootDepth THEN level ELSE BootDepth
RefreshedAll(cts) == [j \in DOMAIN cts |-> Refreshed(cts[j])]

-----------------------------------------------------------------------------
(* One Householder step.  sqrt and inv are the costs of the two series.    *)

\* I - tau v v^T applied to the ciphertexts k, k+1, ... of cts: w = v.cts, and
\* every one of them minus (tau v_j) w.
Reflected(cts, k, tau, v) ==
  LET tail == {j \in DOMAIN cts : j >= k}
      w == Deepest({Larger(v[j], cts[j]) + 1 : j \in tail})
  IN  [j \in DOMAIN cts |->
         IF j \in tail THEN Larger(cts[j], Larger(Larger(tau, v[j]) + 1, w) + 1)
         ELSE cts[j]]

\* tau = 2/(v.v) from the norm and v0.
Tau(norm, v0, inv) == Larger(norm + 1, v0) + 1 + inv + 2

\* Rows of R in a ciphertext each: x is masked out of every row, squared and
\* summed, v0 = x0 + norm.
RowStep(R, Q, k, sqrt, inv) ==
  LET x == [j \in DOMAIN R |-> R[j] + 1]
      norm == Deepest({x[j] : j \in {i \in DOMAIN R : i >= k}}) + 2 + sqrt + 1
      v0 == Larger(x[k] + 1, norm)
      v == [j \in DOMAIN R |-> IF j = k THEN v0 ELSE x[j] + 1]
      tau == Tau(norm, v0, inv)
  IN  [R |-> Reflected(R, k, tau, v), Q |-> Reflected(Q, k, tau, v)]

\* Columns of R in a ciphertext each: x is column k, v one ciphertext, and every
\* column, also those before k, is updated by its masked product with v.
ColStep(R, Q, k, sqrt, inv) ==
  LET x == R[k] + 1
      norm == x + 2 + sqrt + 1
      v == Larger(x, norm)
      tau == Tau(norm, Larger(x + 1, norm), inv)
      column(j) == Larger(R[j], Larger(Larger(tau, v) + 1, Larger(v, R[j]) + 2) + 1)
  IN  [R |-> [j \in DOMAIN R |-> column(j)],
       Q |-> Reflected(Q, k, tau, [j \in DOMAIN Q |-> v + 1])]

-----------------------------------------------------------------------------
(* What follows the decomposition. *)

MatmulT(Q) == Deepest({Q[j] : j \in DOMAIN Q}) + 2

\* Row i of the back-substitution: the numerator c_i - R_i.x, where there is
\* something solved already, times the inverse of the pivot, added to x.
BackSubstituted(Ri, c, x, last, inv) ==
  LET numerator == IF last THEN c + 1 ELSE Larger(c + 1, Larger(Ri, x) + 2)
  IN  Larger(x, Larger(numerator, Ri + 1 + inv) + 1)

PrimalWeights(x) == x + 2
Averaged(level) == level + 1
ScoreLevel(b, w) == Larger(w + 1, b) + 1

-----------------------------------------------------------------------------
(* Conjugate gradients. *)

InnerLevel(s, t) == Larger(s, t) + 2
Quotient(num, den, inv) == Larger(num, den + inv + 1) + 1
AxpyLevel(s, scalar, t) == Larger(s, Larger(scalar, t) + 1)

CgStart == [x |-> 0, r |-> 0, p |-> 0, rr |-> InnerLevel(0, 0)]
CgStep(s, last, inv) ==
  LET Ap == InnerLevel(0, s.p)
      step == Quotient(s.rr, InnerLevel(s.p, Ap), inv)
      r == AxpyLevel(s.r, step, Ap)
      rr == InnerLevel(r, r)
  IN  [x |-> AxpyLevel(s.x, step, s.p), r |-> r, rr |-> rr,
       p |-> IF last THEN s.p ELSE AxpyLevel(r, Quotient(rr, s.rr, inv), s.p)]

\* Both solves, of the same depth; rescaled when preconditioned, as always here.
SchurBias(x, inv) == Quotient(x + 2, x + 2, inv)
SchurAlpha(x, inv) == AxpyLevel(x + 1, SchurBias(x, inv), x + 1)

-----------------------------------------------------------------------------
(* The depth a context is created with. *)

\* The least e with 2^e >= m.
CeilLog2(m) == CHOOSE e \in 0..m : 2^e >= m /\ \A f \in 0..(e - 1) : 2^f < m
ChebyDepth(degree) == 2 * CeilLog2(degree + 1)

\* depth_for_size without an override; the safety factor in hundredths.
DefectDepthForSize(n, d, safety) ==
  Larger(30, (n * (ChebyDepth(d.sqrt) + ChebyDepth(d.inv) + 1) * safety) \div 100)
DepthForSize(n, d, safety) ==
  LET qr == n * (ChebyDepth(d.sqrt) + ChebyDepth(d.inv) + 1)
      backsub == n * (ChebyDepth(d.back) + 1)
  IN  Larger(30, ((qr + backsub + 8) * safety + 99) \div 100)
=============================================================================
