------------------------------- MODULE PlainQR -------------------------------
(***************************************************************************)
(* The Householder QR of lssvm/qr_householder.py on a plain matrix, in the *)
(* exact arithmetic of CkksSlots: the specification that the encrypted     *)
(* decompositions have to implement, whatever their packing.               *)
(***************************************************************************)
EXTENDS Integers, FiniteSets, CkksSlots

CONSTANT N            \* rows and columns of the matrix

VARIABLES r, q, k     \* the matrix being reduced, the product of reflectors,
                      \* and the pivot column of the next reflection
plainVars == <<r, q, k>>

Index == 0..(N - 1)
Matrix == [Index -> [Index -> Field]]
Identity == [i \in Index |-> [j \in Index |-> IF i = j THEN 1 ELSE 0]]

Times(a, b) ==
  [i \in Index |-> [j \in Index |-> Total([t \in Index |-> a[i][t] * b[t][j]])]]
Transposed(a) == [i \in Index |-> [j \in Index |-> a[j][i]]]

\* x = column k from the pivot down, v = x + sgn * ||x|| * e1.
NormSquare(a, p) == Total([i \in p..(N - 1) |-> a[i][p] * a[i][p]])
Reflector(a, p, sgn) ==
  [i \in p..(N - 1) |->
     Reduce(a[i][p] + IF i = p THEN sgn * Root[NormSquare(a, p)] ELSE 0)]
Length2(v, p) == Total([i \in p..(N - 1) |-> v[i] * v[i]])

PlainInit == r \in Matrix /\ q = Identity /\ k = 0

\* One pass of the loop: R <- R - 2 v (v^T R) / v^T v from the pivot row on,
\* Q <- Q - 2 (Q v) v^T / v^T v from the pivot column on.
Reflect(sgn) ==
  /\ k < N
  /\ NormSquare(r, k) \in Squares \ {0}
  /\ LET v == Reflector(r, k, sgn)
         l2 == Length2(v, k)
         Below == k..(N - 1)
         left == [j \in Index |-> Total([i \in Below |-> v[i] * r[i][j]])]
         right == [i \in Index |-> Total([j \in Below |-> v[j] * q[i][j]])]
         Less(x, y) == Reduce(x - 2 * Reciprocal[l2] * y)
     IN  /\ l2 # 0
         /\ r' = [i \in Index |-> [j \in Index |->
                    IF i \in Below /\ j \in Below
                    THEN Less(r[i][j], v[i] * left[j]) ELSE r[i][j]]]
         /\ q' = [i \in Index |-> [j \in Index |->
                    IF j \in Below
                    THEN Less(q[i][j], right[i] * v[j]) ELSE q[i][j]]]
  /\ k' = k + 1

PlainNext == \E sgn \in {1, -1} : Reflect(sgn)
PlainSpec == PlainInit /\ [][PlainNext]_plainVars
=============================================================================
