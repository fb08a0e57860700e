------------------------------ MODULE CkksSlots ------------------------------
(***************************************************************************)
(* Slot vectors: what a CKKS ciphertext or packed plaintext of the solvers *)
(* holds, and the operations of lssvm/solvers/utils.py on them.            *)
(*                                                                         *)
(* CKKS computes on approximate reals.  The algebra of the solvers uses    *)
(* only +, -, *, 1/t and sqrt, so it is modelled over the integers modulo  *)
(* an odd prime P, where these are exact: an identity that fails there     *)
(* fails over the reals too.  Precision, levels and noise are left out.    *)
(***************************************************************************)
EXTENDS Integers, FiniteSets, Functions

CONSTANTS
  P,       \* the prime modulus of the exact arithmetic
  Slots,   \* SPARSE_BOOTSTRAP_SLOTS or half the ring dimension
  Junk     \* what a Chebyshev series returns for an argument outside its domain

ASSUME FieldAssumption == P \in Nat /\ P > 2 /\ \A q \in 2..(P - 1) : P % q # 0
ASSUME SlotsAssumption == Slots \in Nat /\ \E e \in 0..16 : Slots = 2^e
ASSUME JunkAssumption == Junk \in 1..(P - 1)

Field == 0..(P - 1)
SlotIndex == 0..(Slots - 1)

-----------------------------------------------------------------------------
(* Scalars.  Bring a number of the program into the field.                 *)

Reduce(a) == a % P
Reciprocal == [a \in Field \ {0} |-> CHOOSE r \in Field : Reduce(a * r) = 1]

\* One square root of every square: the program's is the positive one, and
\* which of the two it is does not matter to any identity.
Squares == {Reduce(r * r) : r \in Field}
Root == [a \in Squares |-> CHOOSE r \in Field : Reduce(r * r) = a]

\* The sum of the values of a function with a finite domain.
Total(f) == Reduce(SumFunction(f))

-----------------------------------------------------------------------------
(* The homomorphic operations, slot by slot; a rotation by j moves slot j  *)
(* to slot 0 and wraps at the number of slots without an error.            *)

EvalAdd(a, b) == [s \in SlotIndex |-> Reduce(a[s] + b[s])]
EvalSub(a, b) == [s \in SlotIndex |-> Reduce(a[s] - b[s])]
EvalMult(a, b) == [s \in SlotIndex |-> Reduce(a[s] * b[s])]
EvalScale(a, c) == [s \in SlotIndex |-> Reduce(a[s] * c)]
EvalRotate(a, j) == [s \in SlotIndex |-> a[(s + j) % Slots]]

\* make_packed_plaintext: the first n slots hold val, the others zero.
Packed(n, val) == [s \in SlotIndex |-> IF s < n THEN Reduce(val[s]) ELSE 0]
Unit(k) == [s \in SlotIndex |-> IF s = k THEN 1 ELSE 0]
ZeroCt == [s \in SlotIndex |-> 0]

\* The sum of a family of ciphertexts.
EvalTotal(cts) == [s \in SlotIndex |-> Total([i \in DOMAIN cts |-> cts[i][s]])]

\* Chebyshev series act on every slot.  The domains exclude 0, so a slot that
\* holds 0 comes out as junk and has to be masked by the caller.
HeSqrt(ct) ==
  [s \in SlotIndex |-> IF ct[s] \in Squares \ {0} THEN Root[ct[s]] ELSE Junk]
HeInv(ct) ==
  [s \in SlotIndex |-> IF ct[s] # 0 THEN Reciprocal[ct[s]] ELSE Junk]

-----------------------------------------------------------------------------
(* The two doubling trees.                                                 *)

\* The values `step` takes in `while step < n: step *= 2`.
Steps(n) == {st \in 1..(n - 1) : \E e \in 0..n : st = 2^e}
Rounds(n) == Cardinality(Steps(n))

ReplicateSlot0(ct, n) ==
  LET tree[e \in 0..Rounds(n)] ==
        IF e = 0 THEN ct
        ELSE EvalAdd(tree[e - 1], EvalRotate(tree[e - 1], -(2^(e - 1))))
  IN  tree[Rounds(n)]

SumSlots(ct, n) ==
  LET tree[e \in 0..Rounds(n)] ==
        IF e = 0 THEN ct
        ELSE EvalAdd(tree[e - 1], EvalRotate(tree[e - 1], 2^(e - 1)))
  IN  tree[Rounds(n)]

\* The sum of slots 0..n-1 in slot 0, the other slots masked away.
DefectInnerSum(ct, n) == SumSlots(ct, n)
InnerSum(ct, n) == EvalMult(SumSlots(ct, n), Unit(0))

\* Slot j alone, moved to slot 0.
Extract(ct, j) == EvalMult(EvalRotate(ct, j), Unit(0))

\* The rotations the trees and safe_rotate ask a key for (none for 0).
ReplicateKeys(n) == {-(st) : st \in Steps(n)}
SumKeys(n) == Steps(n)
RotateKey(j) == {j} \ {0}

\* _rotation_indices: the keys setup_crypto_context generates.
DefectRotationIndices(matrixSize, nTest, featureDim) ==
  1..(matrixSize - 1)
    \cup {-(j) : j \in 1..(matrixSize - 1)}
    \cup Steps(IF featureDim > matrixSize THEN featureDim ELSE matrixSize)
RotationIndices(matrixSize, nTest, featureDim) ==
  LET larger == IF matrixSize > nTest THEN matrixSize ELSE nTest
  IN  1..(matrixSize - 1)
        \cup {-(j) : j \in 1..(larger - 1)}
        \cup Steps(matrixSize)
        \cup ReplicateKeys(matrixSize)
        \cup (IF featureDim > matrixSize THEN Steps(featureDim) ELSE {})
=============================================================================
