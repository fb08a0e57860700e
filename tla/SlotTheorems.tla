----------------------------- MODULE SlotTheorems -----------------------------
(***************************************************************************)
(* What the operators of CkksSlots and LssvmSystem compute, for every      *)
(* prime, every number of slots and every size: the sums, the reciprocals, *)
(* the doubling trees, the primal weights, the scores and the rotations    *)
(* that have a key; and the linear algebra over the field that reflections *)
(* need.  The proofs about the encrypted solvers rest on these lemmas.     *)
(*                                                                         *)
(* A recursive definition is unfolded by the lemma Induction, which says   *)
(* of a set of numbers what the library's induction theorem says of a      *)
(* predicate.                                                              *)
(***************************************************************************)
EXTENDS LssvmSystem, FiniteSetTheorems, FunctionTheorems, WellFoundedInduction, TLAPS

-----------------------------------------------------------------------------
(* Induction over the naturals, for the set of those a statement holds for. *)

LEMMA Induction ==
  ASSUME NEW A, 0 \in A, \A n \in Nat : n \in A => n + 1 \in A
  PROVE  Nat \subseteq A
<1> SUFFICES ASSUME Nat \ A # {} PROVE FALSE
  OBVIOUS
<1> DEFINE B == Nat \ A
<1>1. PICK n \in B : \A m \in B : ~(<<m, n>> \in OpToRel(<, Nat))
  <2>1. B \subseteq Nat /\ B # {}
    OBVIOUS
  <2> HIDE DEF B
  <2>2. QED BY <2>1, WFMin, NatLessThanWellFounded
<1>2. \A m \in B : ~(m < n)
  BY <1>1 DEF OpToRel
<1>3. n # 0 /\ n \in Nat /\ n - 1 \in Nat /\ n - 1 < n
  OBVIOUS
<1>4. n - 1 \in A
  BY <1>2, <1>3
<1>5. QED BY <1>3, <1>4

-----------------------------------------------------------------------------
(* Sums. *)

(* The recursion SumFunction stands for. *)
Pick(s) == CHOOSE i \in s : TRUE
Small(S, n) == {s \in SUBSET S : Cardinality(s) <= n}
Sums(f, T, g) == g = [s \in T |-> IF s = {} THEN 0 ELSE f[Pick(s)] + g[s \ {Pick(s)}]]

LEMMA Smaller ==
  ASSUME NEW S, IsFiniteSet(S), NEW s \in SUBSET S, s # {}
  PROVE  /\ Pick(s) \in s /\ s \ {Pick(s)} \in SUBSET S
         /\ Cardinality(s) \in Nat /\ Cardinality(s \ {Pick(s)}) = Cardinality(s) - 1
<1>1. Pick(s) \in s
  BY DEF Pick
<1>2. IsFiniteSet(s)
  BY FS_Subset
<1>3. QED BY <1>1, <1>2, FS_CardinalityType, FS_RemoveElement

LEMMA SumsExist ==
  ASSUME NEW f, NEW S, IsFiniteSet(S)
  PROVE  \E g : Sums(f, SUBSET S, g)
<1> DEFINE A == {n \in Nat : \E g : Sums(f, Small(S, n), g)}
<1>1. 0 \in A
  <2>1. \A s \in Small(S, 0) : s = {}
    BY FS_Subset, FS_CardinalityType, FS_EmptySet DEF Small
  <2>2. Sums(f, Small(S, 0), [s \in Small(S, 0) |-> 0])
    BY <2>1 DEF Sums
  <2>3. QED BY <2>2
<1>2. ASSUME NEW n \in Nat, n \in A PROVE n + 1 \in A
  <2>1. PICK g : Sums(f, Small(S, n), g)
    BY <1>2
  <2> DEFINE h == [s \in Small(S, n + 1) |->
                     IF s = {} THEN 0 ELSE f[Pick(s)] + g[s \ {Pick(s)}]]
  <2>2. ASSUME NEW s \in Small(S, n + 1), s # {}
        PROVE  h[s \ {Pick(s)}] = g[s \ {Pick(s)}]
    <3> DEFINE t == s \ {Pick(s)}
    <3>1. t \in SUBSET S /\ Cardinality(t) <= n /\ Cardinality(t) \in Nat
      BY <2>2, Smaller, FS_CardinalityType, FS_Subset DEF Small
    <3>2. t \in Small(S, n) /\ t \in Small(S, n + 1)
      BY <3>1 DEF Small
    <3> HIDE DEF t
    <3>3. h[t] = g[t]
      BY <2>1, <3>2 DEF Sums
    <3>4. QED BY <3>3 DEF t
  <2>3. Sums(f, Small(S, n + 1), h)
    <3>1. h = [s \in Small(S, n + 1) |-> IF s = {} THEN 0 ELSE f[Pick(s)] + h[s \ {Pick(s)}]]
      BY <2>2
    <3> HIDE DEF h
    <3>2. QED BY <3>1 DEF Sums
  <2> HIDE DEF h
  <2>4. QED BY <2>3
<1>3. Cardinality(S) \in A
  <2> HIDE DEF A
  <2>1. QED BY <1>1, <1>2, Induction, FS_CardinalityType
<1>4. Small(S, Cardinality(S)) = SUBSET S
  BY FS_Subset DEF Small
<1>5. QED BY <1>3, <1>4

(* SumFunctionOnSet(f, T), for all T up to S, by one function. *)
LEMMA SumRecursion ==
  ASSUME NEW f, IsFiniteSet(DOMAIN f)
  PROVE  \E g : /\ Sums(f, SUBSET DOMAIN f, g)
                /\ SumFunction(f) = g[DOMAIN f]
<1> DEFINE iter == CHOOSE g : Sums(f, SUBSET DOMAIN f, g)
<1>1. Sums(f, SUBSET DOMAIN f, iter)
  BY SumsExist
<1>2. SumFunction(f) = iter[DOMAIN f]
  BY DEF SumFunction, SumFunctionOnSet, FoldFunctionOnSet, MapThenFoldSet, Sums, Pick
<1>3. QED BY <1>1, <1>2

LEMMA PartOf ==
  ASSUME NEW S, IsFiniteSet(S), NEW s \in SUBSET S
  PROVE  /\ IsFiniteSet(s) /\ Cardinality(s) \in Nat /\ (Cardinality(s) = 0 <=> s = {})
         /\ \A i \in s : s \ {i} \in SUBSET S /\ Cardinality(s \ {i}) = Cardinality(s) - 1
         /\ s # {} => Pick(s) \in s
<1>1. IsFiniteSet(s)
  BY FS_Subset
<1>2. \A i \in s : Cardinality(s \ {i}) = Cardinality(s) - 1
  BY <1>1, FS_RemoveElement
<1>3. QED BY <1>1, <1>2, FS_CardinalityType, FS_EmptySet DEF Pick

(* Sums of integers do not depend on the order of Pick. *)
Summing(S, f, g) ==
  /\ IsFiniteSet(S) /\ \A i \in S : f[i] \in Int
  /\ \A s \in SUBSET S : g[s] = IF s = {} THEN 0 ELSE f[Pick(s)] + g[s \ {Pick(s)}]

LEMMA SumsInt ==
  ASSUME NEW S, NEW f, NEW g, Summing(S, f, g)
  PROVE  \A s \in SUBSET S : g[s] \in Int
<1>f. IsFiniteSet(S) /\ \A i \in S : f[i] \in Int
  BY DEF Summing
<1> DEFINE A == {n \in Nat : \A s \in SUBSET S : Cardinality(s) = n => g[s] \in Int}
<1>1. 0 \in A
  <2>1. \A s \in SUBSET S : Cardinality(s) = 0 => s = {}
    BY <1>f, PartOf
  <2>2. g[{}] = 0
    BY DEF Summing
  <2>3. QED BY <2>1, <2>2
<1>2. ASSUME NEW n \in Nat, n \in A PROVE n + 1 \in A
  <2>1. ASSUME NEW s \in SUBSET S, Cardinality(s) = n + 1 PROVE g[s] \in Int
    <3>1. s # {} /\ Pick(s) \in S /\ s \ {Pick(s)} \in SUBSET S
          /\ Cardinality(s \ {Pick(s)}) = n
      BY <1>f, <2>1, PartOf
    <3>2. g[s \ {Pick(s)}] \in Int /\ f[Pick(s)] \in Int
      BY <1>2, <1>f, <3>1
    <3>3. g[s] = f[Pick(s)] + g[s \ {Pick(s)}]
      BY <3>1 DEF Summing
    <3>4. QED BY <3>2, <3>3
  <2>2. QED BY <2>1
<1>3. Nat \subseteq A
  <2> HIDE DEF A
  <2>1. QED BY <1>1, <1>2, Induction
<1>4. \A s \in SUBSET S : Cardinality(s) \in Nat
  BY <1>f, PartOf
<1>5. QED BY <1>3, <1>4

AnyOrder(S, f, g) == \A s \in SUBSET S : \A i \in s : g[s] = f[i] + g[s \ {i}]

LEMMA SumsAnyOrder ==
  ASSUME NEW S, NEW f, NEW g, Summing(S, f, g)
  PROVE  AnyOrder(S, f, g)
<1>f. IsFiniteSet(S) /\ \A i \in S : f[i] \in Int
  BY DEF Summing
<1>i. \A s \in SUBSET S : g[s] \in Int
  BY SumsInt
<1> DEFINE A == {n \in Nat : \A s \in SUBSET S : Cardinality(s) = n =>
                               \A i \in s : g[s] = f[i] + g[s \ {i}]}
<1>1. 0 \in A
  BY <1>f, PartOf
<1>2. ASSUME NEW n \in Nat, n \in A PROVE n + 1 \in A
  <2>1. ASSUME NEW s \in SUBSET S, Cardinality(s) = n + 1, NEW i \in s
        PROVE  g[s] = f[i] + g[s \ {i}]
    <3>1. PICK p \in s : g[s] = f[p] + g[s \ {p}]
      <4>1. Pick(s) \in s
        BY <1>f, PartOf
      <4>2. QED BY <4>1 DEF Summing
    <3>2. /\ s \ {p} \in SUBSET S /\ Cardinality(s \ {p}) = n
          /\ s \ {i} \in SUBSET S /\ Cardinality(s \ {i}) = n
      BY <1>f, <2>1, PartOf
    <3>3. CASE i = p
      BY <3>1, <3>3
    <3>4. CASE i # p
      <4>1. g[s \ {p}] = f[i] + g[(s \ {p}) \ {i}]
        BY <1>2, <3>2, <3>4
      <4>2. g[s \ {i}] = f[p] + g[(s \ {i}) \ {p}]
        BY <1>2, <3>2, <3>4
      <4>3. (s \ {p}) \ {i} = (s \ {i}) \ {p} /\ (s \ {i}) \ {p} \in SUBSET S
        OBVIOUS
      <4>4. f[i] \in Int /\ f[p] \in Int /\ g[(s \ {i}) \ {p}] \in Int
        BY <1>f, <1>i, <4>3
      <4> DEFINE rest == g[(s \ {i}) \ {p}]
      <4>5. g[s] = f[p] + (f[i] + rest) /\ g[s \ {i}] = f[p] + rest
        BY <3>1, <4>1, <4>2, <4>3
      <4>6. rest \in Int
        BY <4>4
      <4> HIDE DEF rest
      <4>7. QED BY <4>4, <4>5, <4>6
    <3>5. QED BY <3>3, <3>4
  <2>2. QED BY <2>1
<1>3. Nat \subseteq A
  <2> HIDE DEF A
  <2>1. QED BY <1>1, <1>2, Induction
<1>4. \A s \in SUBSET S : Cardinality(s) \in Nat
  BY <1>f, PartOf
<1>5. QED BY <1>3, <1>4 DEF AnyOrder

(* A part of a family sums up alone as it does within the family. *)
Within(T, e, h, S, f, g) ==
  Summing(S, f, g) /\ Summing(T, e, h) /\ T \subseteq S /\ \A i \in T : e[i] = f[i]

LEMMA SumsWithin ==
  ASSUME NEW S, NEW f, NEW g, NEW T, NEW e, NEW h, Within(T, e, h, S, f, g)
  PROVE  h[T] = g[T]
<1>t. /\ IsFiniteSet(T) /\ T \subseteq S /\ Summing(S, f, g) /\ Summing(T, e, h)
      /\ \A i \in T : e[i] = f[i]
  BY DEF Within, Summing
<1> DEFINE A == {n \in Nat : \A s \in SUBSET T : Cardinality(s) = n => h[s] = g[s]}
<1>1. 0 \in A
  <2>1. \A s \in SUBSET T : Cardinality(s) = 0 => s = {}
    BY <1>t, PartOf
  <2>2. \A s \in SUBSET T : s = {} => h[s] = g[s]
    BY <1>t DEF Summing
  <2>3. QED BY <2>1, <2>2
<1>2. ASSUME NEW n \in Nat, n \in A PROVE n + 1 \in A
  <2>1. ASSUME NEW s \in SUBSET T, Cardinality(s) = n + 1 PROVE h[s] = g[s]
    <3>1. s # {} /\ Pick(s) \in T /\ s \ {Pick(s)} \in SUBSET T
          /\ Cardinality(s \ {Pick(s)}) = n
      BY <1>t, <2>1, PartOf
    <3>2. h[s \ {Pick(s)}] = g[s \ {Pick(s)}]
      BY <1>2, <3>1
    <3>3. h[s] = e[Pick(s)] + h[s \ {Pick(s)}] /\ g[s] = f[Pick(s)] + g[s \ {Pick(s)}]
      BY <1>t, <3>1 DEF Summing
    <3>4. QED BY <1>t, <3>1, <3>2, <3>3
  <2>2. QED BY <2>1
<1>3. Nat \subseteq A
  <2> HIDE DEF A
  <2>1. QED BY <1>1, <1>2, Induction
<1>4. \A s \in SUBSET T : Cardinality(s) \in Nat
  BY <1>t, PartOf
<1>5. QED BY <1>3, <1>4

(* What the theorems use of SumFunction. *)
LEMMA SumEmpty == ASSUME NEW f, DOMAIN f = {} PROVE SumFunction(f) = 0
<1>1. PICK g : Sums(f, SUBSET DOMAIN f, g) /\ SumFunction(f) = g[DOMAIN f]
  BY FS_EmptySet, SumRecursion
<1>2. QED BY <1>1 DEF Sums

LEMMA SummingExists ==
  ASSUME NEW S, IsFiniteSet(S), NEW f \in [S -> Int]
  PROVE  \E g : Summing(S, f, g) /\ SumFunction(f) = g[S]
<1>0. DOMAIN f = S /\ \A i \in S : f[i] \in Int
  OBVIOUS
<1>1. PICK g : Sums(f, SUBSET S, g) /\ SumFunction(f) = g[S]
  BY <1>0, SumRecursion
<1>2. \A s \in SUBSET S : g[s] = IF s = {} THEN 0 ELSE f[Pick(s)] + g[s \ {Pick(s)}]
  BY <1>1 DEF Sums
<1>3. QED BY <1>0, <1>1, <1>2 DEF Summing

LEMMA SumInt ==
  ASSUME NEW S, IsFiniteSet(S), NEW f \in [S -> Int]
  PROVE  SumFunction(f) \in Int
BY SummingExists, SumsInt

LEMMA SumRemove ==
  ASSUME NEW S, IsFiniteSet(S), NEW f \in [S -> Int], NEW t \in S
  PROVE  SumFunction(f) = f[t] + SumFunction([i \in S \ {t} |-> f[i]])
<1> DEFINE e == [i \in S \ {t} |-> f[i]]
<1>e. e \in [S \ {t} -> Int] /\ (\A i \in S \ {t} : e[i] = f[i]) /\ IsFiniteSet(S \ {t})
  BY FS_RemoveElement
<1> HIDE DEF e
<1>1. PICK g : Summing(S, f, g) /\ SumFunction(f) = g[S]
  BY SummingExists
<1>2. PICK h : Summing(S \ {t}, e, h) /\ SumFunction(e) = h[S \ {t}]
  BY <1>e, SummingExists
<1>3. AnyOrder(S, f, g)
  BY <1>1, SumsAnyOrder
<1>4. g[S] = f[t] + g[S \ {t}]
  BY <1>3 DEF AnyOrder
<1>5. h[S \ {t}] = g[S \ {t}]
  <2>1. Within(S \ {t}, e, h, S, f, g)
    BY <1>1, <1>2, <1>e DEF Within
  <2>2. QED BY <2>1, SumsWithin
<1>6. QED BY <1>1, <1>2, <1>4, <1>5 DEF e

LEMMA SumInsert ==
  ASSUME NEW T, IsFiniteSet(T), NEW t, t \notin T, NEW f \in [T \cup {t} -> Int]
  PROVE  SumFunction(f) = f[t] + SumFunction([i \in T |-> f[i]])
<1>1. IsFiniteSet(T \cup {t}) /\ t \in T \cup {t} /\ (T \cup {t}) \ {t} = T
  BY FS_AddElement
<1>2. SumFunction(f) = f[t] + SumFunction([i \in (T \cup {t}) \ {t} |-> f[i]])
  BY <1>1, SumRemove
<1>3. QED BY <1>1, <1>2

(* Induction over the parts of a finite set. *)
LEMMA PartInduction ==
  ASSUME NEW S, IsFiniteSet(S), NEW A, {} \in A,
         \A T \in SUBSET S : \A i \in S : T \in A /\ i \notin T => T \cup {i} \in A
  PROVE  S \in A
<1> DEFINE B == {n \in Nat : \A T \in SUBSET S : Cardinality(T) = n => T \in A}
<1>1. 0 \in B
  BY PartOf
<1>2. ASSUME NEW n \in Nat, n \in B PROVE n + 1 \in B
  <2>1. ASSUME NEW T \in SUBSET S, Cardinality(T) = n + 1 PROVE T \in A
    <3>1. T # {}
      BY <2>1, PartOf
    <3>2. PICK i \in T : TRUE
      BY <3>1
    <3>3. T \ {i} \in SUBSET S /\ Cardinality(T \ {i}) = n
      BY <2>1, <3>2, PartOf
    <3>4. T \ {i} \in A
      BY <1>2, <3>3
    <3>5. (T \ {i}) \cup {i} \in A
      BY <3>2, <3>3, <3>4
    <3>6. (T \ {i}) \cup {i} = T
      BY <3>2
    <3>7. QED BY <3>5, <3>6
  <2>2. QED BY <2>1
<1>3. Nat \subseteq B
  <2> HIDE DEF B
  <2>1. QED BY <1>1, <1>2, Induction
<1>4. S \in SUBSET S /\ Cardinality(S) \in Nat
  BY FS_CardinalityType
<1>5. QED BY <1>3, <1>4

(* Zeros add up to zero. *)
LEMMA SumZero ==
  ASSUME NEW S, IsFiniteSet(S), NEW f \in [S -> Int], \A i \in S : f[i] = 0
  PROVE  SumFunction(f) = 0
<1>1. PICK g : Summing(S, f, g) /\ SumFunction(f) = g[S]
  BY SummingExists
<1>2. AnyOrder(S, f, g)
  BY <1>1, SumsAnyOrder
<1> DEFINE A == {T \in SUBSET S : g[T] = 0}
<1>3. {} \in A
  BY <1>1 DEF Summing
<1>4. ASSUME NEW T \in SUBSET S, NEW i \in S, T \in A, i \notin T PROVE T \cup {i} \in A
  <2>1. g[T \cup {i}] = f[i] + g[(T \cup {i}) \ {i}]
    BY <1>2 DEF AnyOrder
  <2>2. (T \cup {i}) \ {i} = T
    BY <1>4
  <2>3. QED BY <1>4, <2>1, <2>2
<1> HIDE DEF A
<1>5. S \in A
  BY <1>3, <1>4, PartInduction
<1>6. QED BY <1>1, <1>5 DEF A

-----------------------------------------------------------------------------
(* The arithmetic modulo P. *)

LEMMA PType == P \in Nat /\ P > 2 /\ 0 \in Field /\ 1 \in Field /\ Field \subseteq Nat
BY FieldAssumption DEF Field

LEMMA ReduceType == ASSUME NEW a \in Int
                    PROVE  Reduce(a) \in Field /\ Reduce(a) \in Nat /\ Reduce(a) \in Int
BY PType DEF Reduce, Field

LEMMA FieldType == ASSUME NEW a \in Field PROVE a \in Nat /\ a \in Int /\ a < P
BY PType DEF Field

LEMMA ReduceField == ASSUME NEW a \in Field PROVE Reduce(a) = a
BY PType DEF Reduce, Field

LEMMA ReduceParts == ASSUME NEW a \in Int PROVE \E q \in Int : a = P * q + Reduce(a)
<1>1. a = P * (a \div P) + (a % P) /\ a \div P \in Int
  BY PType
<1>2. QED BY <1>1 DEF Reduce

(* Numbers that differ by a multiple of P are the same. *)
LEMMA ReduceShift == ASSUME NEW a \in Int, NEW q \in Int PROVE Reduce(a + P * q) = Reduce(a)
<1>1. PICK n \in Int : a = P * n + Reduce(a)
  BY ReduceParts
<1>2. PICK m \in Int : a + P * q = P * m + Reduce(a + P * q)
  <2>1. a + P * q \in Int
    BY PType
  <2>2. QED BY <2>1, ReduceParts
<1> DEFINE u == Reduce(a)  v == Reduce(a + P * q)
<1>3. u \in Nat /\ v \in Nat /\ u < P /\ v < P
  BY PType, ReduceType DEF Field
<1>4. P * (n + q - m) = v - u
  <2> HIDE DEF u, v
  <2>1. P * n + u + P * q = P * m + v
    BY <1>1, <1>2 DEF u, v
  <2>2. QED BY <2>1, <1>3, PType
<1> HIDE DEF u, v
<1> DEFINE d == n + q - m
<1>5. d \in Int /\ P * d = v - u
  BY <1>4
<1> HIDE DEF d
<1>6. d = 0
  <2>1. CASE d >= 1
    <3>1. P * d >= P
      BY <1>5, <2>1, PType
    <3>2. QED BY <3>1, <1>3, <1>5, PType
  <2>2. CASE d <= -1
    <3>1. P * d <= -P
      BY <1>5, <2>2, PType
    <3>2. QED BY <3>1, <1>3, <1>5, PType
  <2>3. QED BY <2>1, <2>2, <1>5
<1>7. u = v
  BY <1>3, <1>5, <1>6, PType
<1>8. QED BY <1>7 DEF u, v

LEMMA ReduceAdd == ASSUME NEW a \in Int, NEW e \in Int
                   PROVE  Reduce(Reduce(a) + e) = Reduce(a + e)
<1>1. PICK q \in Int : a = P * q + Reduce(a)
  BY ReduceParts
<1>2. Reduce(a) \in Int
  BY ReduceType
<1>3. Reduce(a) + e \in Int /\ a + e = (Reduce(a) + e) + P * q
  BY <1>1, <1>2, PType
<1>4. QED BY <1>3, ReduceShift

LEMMA ReduceMult == ASSUME NEW a \in Int, NEW e \in Int
                    PROVE  Reduce(Reduce(a) * e) = Reduce(a * e)
<1>1. PICK q \in Int : a = P * q + Reduce(a)
  BY ReduceParts
<1>2. Reduce(a) \in Int
  BY ReduceType
<1> DEFINE u == Reduce(a)
<1>3. u \in Int /\ a = P * q + u
  BY <1>1, <1>2
<1> HIDE DEF u
<1>4. u * e \in Int /\ q * e \in Int /\ a * e = u * e + P * (q * e)
  BY <1>3, PType
<1>5. Reduce(u * e) = Reduce(a * e)
  BY <1>4, ReduceShift
<1>6. QED BY <1>5 DEF u

-----------------------------------------------------------------------------
(* Division.  Every number of the field but 0 has a reciprocal: the least    *)
(* positive multiple m of it divides P, and the only divisor below P is 1.   *)

Multiples(a) == {m \in Field \ {0} : \E r \in Field : Reduce(a * r) = m}

LEMMA MultiplesAll ==
  ASSUME NEW a \in Field, NEW n \in Int, Reduce(a * n) # 0
  PROVE  Reduce(a * n) \in Multiples(a)
<1>1. Reduce(n) \in Field /\ Reduce(n) \in Int /\ a \in Int
  BY ReduceType, FieldType
<1>2. Reduce(a * Reduce(n)) = Reduce(a * n)
  <2>1. Reduce(Reduce(n) * a) = Reduce(n * a)
    BY <1>1, ReduceMult
  <2>2. QED BY <2>1, <1>1, PType
<1>3. Reduce(a * n) \in Field
  <2>1. a * n \in Int
    BY <1>1
  <2>2. QED BY <2>1, ReduceType
<1>4. QED BY <1>1, <1>2, <1>3 DEF Multiples

LEMMA LeastMultiple ==
  ASSUME NEW a \in Field \ {0}
  PROVE  \E m \in Multiples(a) : \A n \in Multiples(a) : ~(n < m)
<1>1. a \in Multiples(a)
  <2>1. Reduce(a * 1) = a
    BY ReduceField, PType
  <2>2. QED BY <2>1, PType DEF Multiples
<1>2. Multiples(a) \subseteq Nat
  BY PType DEF Multiples
<1> DEFINE M == Multiples(a)
<1>3. M \subseteq Nat /\ M # {}
  BY <1>1, <1>2
<1> HIDE DEF M
<1>4. PICK m \in M : \A n \in M : ~(<<n, m>> \in OpToRel(<, Nat))
  BY <1>3, WFMin, NatLessThanWellFounded
<1>5. \A n \in M : ~(n < m)
  BY <1>3, <1>4 DEF OpToRel
<1>6. QED BY <1>5 DEF M

LEMMA ReciprocalExists ==
  ASSUME NEW a \in Field \ {0}
  PROVE  \E r \in Field : Reduce(a * r) = 1
<1>1. PICK m \in Multiples(a) : \A n \in Multiples(a) : ~(n < m)
  BY LeastMultiple
<1>2. PICK r \in Field : Reduce(a * r) = m
  BY <1>1 DEF Multiples
<1>3. m \in Nat /\ m > 0 /\ m < P /\ a \in Nat /\ r \in Nat
  BY <1>1, PType DEF Multiples, Field
<1> DEFINE q == P \div m  s == P % m
<1>4. q \in Int /\ s \in Nat /\ s < m /\ P = m * q + s
  BY <1>3, PType
<1> HIDE DEF q
<1>5. Reduce(a * (r * (-q))) = s
  <2>1. PICK z \in Int : a * r = P * z + m
    <3>1. a * r \in Int
      BY <1>3
    <3>2. QED BY <3>1, <1>2, ReduceParts
  <2>2. a * (r * (-q)) = s + P * ((-q) * z - 1)
    <3>1. a * (r * (-q)) = (a * r) * (-q)
      BY <1>3, <1>4
    <3>2. (P * z + m) * (-q) = P * ((-q) * z) - m * q
      BY <1>3, <1>4, <2>1, PType
    <3> HIDE DEF s
    <3> DEFINE y == (-q) * z
    <3>3. y \in Int /\ P * (y - 1) = P * y - P
      BY <1>4, <2>1, PType
    <3>4. a * (r * (-q)) = P * y - m * q
      BY <3>1, <3>2, <2>1
    <3>5. m * q \in Int /\ P * y \in Int
      BY <1>3, <1>4, <3>3, PType
    <3> HIDE DEF y
    <3>6. a * (r * (-q)) = s + P * (y - 1)
      BY <1>4, <3>3, <3>4, <3>5, PType
    <3>7. QED BY <3>6 DEF y
  <2> HIDE DEF s
  <2>3. (-q) * z - 1 \in Int
    BY <1>4, <2>1
  <2>4. Reduce(a * (r * (-q))) = Reduce(s)
    BY <1>4, <2>2, <2>3, ReduceShift
  <2>5. s \in Field
    BY <1>3, <1>4, PType DEF Field
  <2>6. QED BY <2>4, <2>5, ReduceField
<1>6. s = 0
  <2>1. CASE s # 0
    <3>1. s \in Multiples(a)
      <4> HIDE DEF s
      <4>1. r * (-q) \in Int
        BY <1>3, <1>4
      <4>2. QED BY <1>5, <2>1, <4>1, MultiplesAll
    <3>2. QED BY <1>1, <1>4, <3>1
  <2>2. QED BY <2>1
<1>7. m = 1
  <2>1. CASE m # 1
    <3>1. m \in 2..(P - 1)
      BY <1>3, <2>1, PType
    <3>2. QED BY <1>6, <3>1, FieldAssumption
  <2>2. QED BY <2>1
<1>8. QED BY <1>2, <1>7

LEMMA ReciprocalType ==
  ASSUME NEW a \in Field \ {0}
  PROVE  Reciprocal[a] \in Field /\ Reduce(a * Reciprocal[a]) = 1
<1>1. Reciprocal[a] = CHOOSE r \in Field : Reduce(a * r) = 1
  BY DEF Reciprocal
<1>2. QED BY <1>1, ReciprocalExists

LEMMA RootType ==
  ASSUME NEW a \in Squares
  PROVE  Root[a] \in Field /\ Reduce(Root[a] * Root[a]) = a
<1>1. Root[a] = CHOOSE r \in Field : Reduce(r * r) = a
  BY DEF Root
<1>2. \E r \in Field : Reduce(r * r) = a
  BY DEF Squares
<1>3. QED BY <1>1, <1>2

LEMMA TotalType ==
  ASSUME NEW S, IsFiniteSet(S), NEW f \in [S -> Int]
  PROVE  Total(f) \in Field
BY SumInt, ReduceType DEF Total

LEMMA TotalZero ==
  ASSUME NEW S, IsFiniteSet(S), NEW f \in [S -> Int], \A i \in S : f[i] = 0
  PROVE  Total(f) = 0
<1>1. SumFunction(f) = 0
  BY SumZero
<1>2. QED BY <1>1, PType, ReduceField DEF Total

-----------------------------------------------------------------------------
(* Powers of two: the number of parts of a set. *)

LEMMA Parts ==
  ASSUME NEW n \in Nat
  PROVE  IsFiniteSet(SUBSET (1..n)) /\ Cardinality(SUBSET (1..n)) = 2^n
<1>1. IsFiniteSet(1..n) /\ Cardinality(1..n) = n
  BY FS_Interval
<1>2. QED BY <1>1, FS_SUBSET

LEMMA PowerType ==
  ASSUME NEW n \in Nat
  PROVE  2^n \in Nat /\ 2^n >= 1
<1>1. Cardinality(SUBSET (1..n)) \in Nat
  BY Parts, FS_CardinalityType
<1>2. Cardinality(SUBSET (1..n)) # 0
  <2>1. IsFiniteSet(SUBSET (1..n)) /\ SUBSET (1..n) # {}
    BY Parts
  <2>2. QED BY <2>1, FS_EmptySet
<1>3. QED BY <1>1, <1>2, Parts

(* Half of the parts of 1..n+1 hold n+1. *)
LEMMA PowerDouble ==
  ASSUME NEW n \in Nat
  PROVE  2^(n + 1) = 2 * 2^n
<1> DEFINE A == SUBSET (1..n)
           B == {s \in SUBSET (1..(n + 1)) : n + 1 \in s}
           m == [s \in A |-> s \cup {n + 1}]
<1>1. A \cup B = SUBSET (1..(n + 1)) /\ A \cap B = {}
  OBVIOUS
<1>2. m \in Bijection(A, B)
  <2>1. m \in [A -> B]
    OBVIOUS
  <2>2. \A s, t \in A : m[s] = m[t] => s = t
    <3>1. \A s \in A : m[s] \ {n + 1} = s
      OBVIOUS
    <3>2. QED BY <3>1
  <2>3. \A t \in B : \E s \in A : m[s] = t
    <3>1. ASSUME NEW t \in B PROVE t \ {n + 1} \in A /\ m[t \ {n + 1}] = t
      OBVIOUS
    <3>2. QED BY <3>1
  <2>4. QED BY <2>1, <2>2, <2>3, Fun_IsBij
<1>3. IsFiniteSet(A) /\ Cardinality(A) = 2^n
  BY Parts
<1>4. Cardinality(A \cup B) = 2^(n + 1)
  BY <1>1, Parts
<1> HIDE DEF A, B, m
<1>5. IsFiniteSet(B) /\ Cardinality(B) = Cardinality(A)
  <2>1. ExistsBijection(A, B)
    BY <1>2 DEF ExistsBijection
  <2>2. QED BY <2>1, <1>3, FS_Bijection
<1>6. Cardinality(A \cup B) = Cardinality(A) + Cardinality(B)
  <2>1. Cardinality(A \cup B) = Cardinality(A) + Cardinality(B) - Cardinality(A \cap B)
    BY <1>3, <1>5, FS_Union
  <2>2. Cardinality(A \cap B) = 0
    BY <1>1, FS_EmptySet
  <2>3. Cardinality(A) \in Nat /\ Cardinality(B) \in Nat
    BY <1>3, <1>5, FS_CardinalityType
  <2>4. QED BY <2>1, <2>2, <2>3
<1>7. Cardinality(A) \in Nat
  BY <1>3, FS_CardinalityType
<1>8. QED BY <1>3, <1>4, <1>5, <1>6, <1>7

LEMMA SlotsType == Slots \in Nat /\ Slots >= 1 /\ 0 \in SlotIndex /\ SlotIndex \subseteq Nat
<1>1. PICK e \in 0..16 : Slots = 2^e
  BY SlotsAssumption
<1>2. e \in Nat
  OBVIOUS
<1>3. Slots >= 1
  BY <1>1, <1>2, PowerType
<1>4. QED BY <1>3, SlotsAssumption DEF SlotIndex

-----------------------------------------------------------------------------
(* Ciphertexts: what every operation returns. *)

Cts == [SlotIndex -> Field]
IntCts == [SlotIndex -> Int]

LEMMA CtsAreInt == ASSUME NEW a \in Cts PROVE a \in IntCts
BY FieldType DEF Cts, IntCts

LEMMA SlotArithmetic ==
  ASSUME NEW a \in Cts, NEW e \in Cts, NEW n \in Int
  PROVE  /\ EvalAdd(a, e) \in Cts /\ EvalSub(a, e) \in Cts
         /\ EvalMult(a, e) \in Cts /\ EvalScale(a, n) \in Cts
<1>1. ASSUME NEW s \in SlotIndex
      PROVE  /\ a[s] + e[s] \in Int /\ a[s] - e[s] \in Int
             /\ a[s] * e[s] \in Int /\ a[s] * n \in Int
  <2>1. a[s] \in Int /\ e[s] \in Int
    BY CtsAreInt DEF IntCts
  <2>2. QED BY <2>1
<1>2. ASSUME NEW s \in SlotIndex
      PROVE  /\ Reduce(a[s] + e[s]) \in Field /\ Reduce(a[s] - e[s]) \in Field
             /\ Reduce(a[s] * e[s]) \in Field /\ Reduce(a[s] * n) \in Field
  BY <1>1, ReduceType
<1>3. QED BY <1>2 DEF Cts, EvalAdd, EvalSub, EvalMult, EvalScale

(* Where a rotation takes slot s from. *)
LEMMA RotationIndex ==
  ASSUME NEW s \in SlotIndex, NEW j \in Int
  PROVE  /\ (s + j) % Slots \in SlotIndex
         /\ s + j \in SlotIndex => (s + j) % Slots = s + j
         /\ s + j < 0 /\ s + j >= -Slots => (s + j) % Slots = s + j + Slots
         /\ s + j >= Slots /\ s + j < 2 * Slots => (s + j) % Slots = s + j - Slots
BY SlotsType DEF SlotIndex

LEMMA RotateType ==
  ASSUME NEW a \in Cts, NEW j \in Int
  PROVE  EvalRotate(a, j) \in Cts
<1>1. \A s \in SlotIndex : (s + j) % Slots \in SlotIndex
  BY RotationIndex
<1>2. QED BY <1>1 DEF Cts, EvalRotate

LEMMA ConstantCts ==
  /\ ZeroCt \in Cts
  /\ \A n : Unit(n) \in Cts
BY PType DEF Cts, ZeroCt, Unit

LEMMA PackedType ==
  ASSUME NEW n \in Int, NEW val, \A s \in 0..(n - 1) : val[s] \in Int
  PROVE  Packed(n, val) \in Cts
<1>1. ASSUME NEW s \in SlotIndex, s < n PROVE Reduce(val[s]) \in Field
  <2>1. s \in 0..(n - 1)
    BY <1>1, SlotsType
  <2>2. QED BY <2>1, ReduceType
<1>2. QED BY <1>1, PType DEF Cts, Packed

LEMMA ChebyshevTypes ==
  ASSUME NEW a \in Cts
  PROVE  HeSqrt(a) \in Cts /\ HeInv(a) \in Cts
<1>1. Junk \in Field
  BY JunkAssumption, PType DEF Field
<1>2. ASSUME NEW s \in SlotIndex, a[s] \in Squares \ {0} PROVE Root[a[s]] \in Field
  BY <1>2, RootType
<1>3. ASSUME NEW s \in SlotIndex, a[s] # 0 PROVE Reciprocal[a[s]] \in Field
  <2>1. a[s] \in Field \ {0}
    BY <1>3 DEF Cts
  <2>2. QED BY <2>1, ReciprocalType
<1>4. QED BY <1>1, <1>2, <1>3 DEF Cts, HeSqrt, HeInv

(* The sum of a family of ciphertexts, slot by slot. *)
LEMMA EvalTotalType ==
  ASSUME NEW S, IsFiniteSet(S), NEW f \in [S -> Cts]
  PROVE  EvalTotal(f) \in Cts
<1>1. ASSUME NEW s \in SlotIndex PROVE Total([i \in DOMAIN f |-> f[i][s]]) \in Field
  <2> DEFINE h == [i \in S |-> f[i][s]]
  <2>1. h \in [S -> Int]
    BY FieldType DEF Cts
  <2> HIDE DEF h
  <2>2. Total(h) \in Field
    BY <2>1, TotalType
  <2>3. DOMAIN f = S
    OBVIOUS
  <2>4. QED BY <2>2, <2>3 DEF h
<1>2. QED BY <1>1 DEF EvalTotal, Cts

LEMMA EvalTotalZero ==
  ASSUME NEW S, IsFiniteSet(S), NEW f \in [S -> Cts], NEW s \in SlotIndex,
         \A i \in S : f[i][s] = 0
  PROVE  EvalTotal(f)[s] = 0
<1> DEFINE h == [i \in S |-> f[i][s]]
<1>1. h \in [S -> Int] /\ \A i \in S : h[i] = 0
  BY FieldType DEF Cts
<1> HIDE DEF h
<1>2. Total(h) = 0
  BY <1>1, TotalZero
<1>3. DOMAIN f = S
  OBVIOUS
<1>4. EvalTotal(f)[s] = Total([i \in S |-> f[i][s]])
  BY <1>3 DEF EvalTotal
<1>5. QED BY <1>2, <1>4 DEF h

-----------------------------------------------------------------------------
(* The doubling trees: both are this recursion, for shifts of 1, 2, 4, ...   *)
(* to one side or to the other.                                              *)

TreeOf(a, shift, m, g) ==
  g = [e \in 0..m |->
         IF e = 0 THEN a ELSE EvalAdd(g[e - 1], EvalRotate(g[e - 1], shift[e - 1]))]

LeftShift == [e \in Nat |-> 2^e]
RightShift == [e \in Nat |-> -(2^e)]

LEMMA ShiftTypes == LeftShift \in [Nat -> Int] /\ RightShift \in [Nat -> Int]
<1>1. ASSUME NEW e \in Nat PROVE 2^e \in Int /\ -(2^e) \in Int
  BY PowerType
<1>2. QED BY <1>1 DEF LeftShift, RightShift

LEMMA TreeExists ==
  ASSUME NEW a, NEW shift, NEW n \in Nat
  PROVE  \E g : TreeOf(a, shift, n, g)
<1> DEFINE A == {m \in Nat : \E g : TreeOf(a, shift, m, g)}
<1>1. 0 \in A
  <2> DEFINE h == [e \in 0..0 |-> a]
  <2>1. h = [e \in 0..0 |->
         IF e = 0 THEN a ELSE EvalAdd(h[e - 1], EvalRotate(h[e - 1], shift[e - 1]))]
    OBVIOUS
  <2> HIDE DEF h
  <2>2. QED BY <2>1 DEF TreeOf
<1>2. ASSUME NEW m \in Nat, m \in A PROVE m + 1 \in A
  <2>1. PICK g : TreeOf(a, shift, m, g)
    BY <1>2
  <2> DEFINE Doubled(t, i) == EvalAdd(t, EvalRotate(t, i))
             h == [e \in 0..(m + 1) |->
                     IF e = 0 THEN a ELSE Doubled(g[e - 1], shift[e - 1])]
  <2>2. g = [e \in 0..m |-> IF e = 0 THEN a ELSE Doubled(g[e - 1], shift[e - 1])]
    BY <2>1 DEF TreeOf
  <2> HIDE DEF Doubled
  <2>3. ASSUME NEW e \in 0..m PROVE h[e] = g[e]
    <3>1. e \in 0..(m + 1)
      OBVIOUS
    <3>2. h[e] = IF e = 0 THEN a ELSE Doubled(g[e - 1], shift[e - 1])
      BY <3>1
    <3>3. g[e] = IF e = 0 THEN a ELSE Doubled(g[e - 1], shift[e - 1])
      BY <2>2
    <3>4. QED BY <3>2, <3>3
  <2>4. \A e \in 0..(m + 1) : e # 0 => e - 1 \in 0..m
    OBVIOUS
  <2>5. h = [e \in 0..(m + 1) |-> IF e = 0 THEN a ELSE Doubled(h[e - 1], shift[e - 1])]
    BY <2>3, <2>4
  <2> HIDE DEF h
  <2>6. TreeOf(a, shift, m + 1, h)
    BY <2>5 DEF TreeOf, Doubled
  <2>7. QED BY <2>6
<1>3. n \in A
  <2> HIDE DEF A
  <2>1. QED BY <1>1, <1>2, Induction
<1>4. QED BY <1>3

LEMMA TreeSteps ==
  ASSUME NEW a, NEW shift, NEW n \in Nat, NEW g, TreeOf(a, shift, n, g)
  PROVE  /\ g[0] = a
         /\ \A e \in 0..(n - 1) : g[e + 1] = EvalAdd(g[e], EvalRotate(g[e], shift[e]))
<1>1. g[0] = a
  BY DEF TreeOf
<1>2. ASSUME NEW e \in 0..(n - 1)
      PROVE  g[e + 1] = EvalAdd(g[e], EvalRotate(g[e], shift[e]))
  <2>1. e + 1 \in 0..n /\ e + 1 # 0 /\ (e + 1) - 1 = e
    OBVIOUS
  <2>2. QED BY <2>1 DEF TreeOf
<1>3. QED BY <1>1, <1>2

LEMMA TreeTypes ==
  ASSUME NEW a \in Cts, NEW shift \in [Nat -> Int], NEW n \in Nat, NEW g,
         TreeOf(a, shift, n, g)
  PROVE  \A e \in 0..n : g[e] \in Cts
<1> DEFINE A == {e \in Nat : e <= n => g[e] \in Cts}
<1>1. 0 \in A
  BY TreeSteps
<1>2. ASSUME NEW e \in Nat, e \in A PROVE e + 1 \in A
  <2>1. ASSUME e + 1 <= n PROVE g[e + 1] \in Cts
    <3>1. e \in 0..(n - 1) /\ g[e] \in Cts /\ shift[e] \in Int
      BY <1>2, <2>1
    <3>2. EvalRotate(g[e], shift[e]) \in Cts
      BY <3>1, RotateType
    <3>3. EvalAdd(g[e], EvalRotate(g[e], shift[e])) \in Cts
      <4> DEFINE z == EvalRotate(g[e], shift[e])
      <4>1. z \in Cts
        BY <3>2
      <4> HIDE DEF z
      <4>2. EvalAdd(g[e], z) \in Cts
        BY <3>1, <4>1, SlotArithmetic
      <4>3. QED BY <4>2 DEF z
    <3>4. QED BY <3>1, <3>3, TreeSteps
  <2>2. QED BY <2>1
<1>3. Nat \subseteq A
  <2> HIDE DEF A
  <2>1. QED BY <1>1, <1>2, Induction
<1>4. QED BY <1>3

LEMMA RoundsType ==
  ASSUME NEW n \in Int
  PROVE  IsFiniteSet(Steps(n)) /\ Rounds(n) \in Nat
<1>1. IsFiniteSet(1..(n - 1)) /\ Steps(n) \subseteq 1..(n - 1)
  BY FS_Interval DEF Steps
<1>2. IsFiniteSet(Steps(n))
  BY <1>1, FS_Subset
<1>3. QED BY <1>2, FS_CardinalityType DEF Rounds

LEMMA ReplicateTree ==
  ASSUME NEW a, NEW n \in Int
  PROVE  \E g : TreeOf(a, RightShift, Rounds(n), g) /\ ReplicateSlot0(a, n) = g[Rounds(n)]
<1> DEFINE G(g) == g = [e \in 0..Rounds(n) |->
         IF e = 0 THEN a ELSE EvalAdd(g[e - 1], EvalRotate(g[e - 1], -(2^(e - 1))))]
<1>1. \A g : G(g) <=> TreeOf(a, RightShift, Rounds(n), g)
  <2>1. \A e \in 0..Rounds(n) : e # 0 => RightShift[e - 1] = -(2^(e - 1))
    BY RoundsType DEF RightShift
  <2>2. QED BY <2>1 DEF TreeOf
<1>2. ReplicateSlot0(a, n) = (CHOOSE g : G(g))[Rounds(n)]
  BY DEF ReplicateSlot0
<1>3. \E g : G(g)
  BY <1>1, TreeExists, RoundsType
<1> HIDE DEF G
<1>4. G(CHOOSE g : G(g))
  BY <1>3
<1>5. QED BY <1>1, <1>2, <1>4

LEMMA SumTree ==
  ASSUME NEW a, NEW n \in Int
  PROVE  \E g : TreeOf(a, LeftShift, Rounds(n), g) /\ SumSlots(a, n) = g[Rounds(n)]
<1> DEFINE G(g) == g = [e \in 0..Rounds(n) |->
         IF e = 0 THEN a ELSE EvalAdd(g[e - 1], EvalRotate(g[e - 1], 2^(e - 1)))]
<1>1. \A g : G(g) <=> TreeOf(a, LeftShift, Rounds(n), g)
  <2>1. \A e \in 0..Rounds(n) : e # 0 => LeftShift[e - 1] = 2^(e - 1)
    BY RoundsType DEF LeftShift
  <2>2. QED BY <2>1 DEF TreeOf
<1>2. SumSlots(a, n) = (CHOOSE g : G(g))[Rounds(n)]
  BY DEF SumSlots
<1>3. \E g : G(g)
  BY <1>1, TreeExists, RoundsType
<1> HIDE DEF G
<1>4. G(CHOOSE g : G(g))
  BY <1>3
<1>5. QED BY <1>1, <1>2, <1>4

LEMMA TreesType ==
  ASSUME NEW a \in Cts, NEW n \in Int
  PROVE  /\ ReplicateSlot0(a, n) \in Cts /\ SumSlots(a, n) \in Cts
         /\ InnerSum(a, n) \in Cts
<1>1. Rounds(n) \in 0..Rounds(n) /\ Rounds(n) \in Nat
  BY RoundsType
<1>2. ReplicateSlot0(a, n) \in Cts
  BY <1>1, ReplicateTree, TreeTypes, ShiftTypes
<1>3. SumSlots(a, n) \in Cts
  BY <1>1, SumTree, TreeTypes, ShiftTypes
<1>4. QED BY <1>2, <1>3, SlotArithmetic, ConstantCts DEF InnerSum

LEMMA ExtractType ==
  ASSUME NEW a \in Cts, NEW j \in Int
  PROVE  Extract(a, j) \in Cts
BY RotateType, SlotArithmetic, ConstantCts DEF Extract

-----------------------------------------------------------------------------
(* Ciphertexts with nothing beyond their length.                             *)

Clean(a, n) == \A s \in SlotIndex : s >= n => a[s] = 0

LEMMA CleanArithmetic ==
  ASSUME NEW a \in Cts, NEW e \in Cts, NEW n \in Int
  PROVE  /\ Clean(a, n) /\ Clean(e, n) => Clean(EvalAdd(a, e), n) /\ Clean(EvalSub(a, e), n)
         /\ Clean(a, n) \/ Clean(e, n) => Clean(EvalMult(a, e), n)
<1>z. Reduce(0) = 0
  BY PType, ReduceField
<1>1. ASSUME Clean(a, n), Clean(e, n), NEW s \in SlotIndex, s >= n
      PROVE  EvalAdd(a, e)[s] = 0 /\ EvalSub(a, e)[s] = 0
  BY <1>z, <1>1 DEF Clean, EvalAdd, EvalSub
<1>2. ASSUME Clean(a, n) \/ Clean(e, n), NEW s \in SlotIndex, s >= n
      PROVE  EvalMult(a, e)[s] = 0
  <2>1. a[s] \in Int /\ e[s] \in Int /\ (a[s] = 0 \/ e[s] = 0)
    BY <1>2, CtsAreInt DEF Clean, IntCts
  <2>2. a[s] * e[s] = 0
    BY <2>1
  <2>3. QED BY <1>z, <2>2 DEF EvalMult
<1>3. QED BY <1>1, <1>2 DEF Clean

(* A mask with one slot. *)
LEMMA Masked ==
  ASSUME NEW a \in Cts, NEW n \in SlotIndex
  PROVE  /\ EvalMult(a, Unit(n)) \in Cts
         /\ \A s \in SlotIndex : EvalMult(a, Unit(n))[s] = IF s = n THEN a[n] ELSE 0
<1>1. ASSUME NEW s \in SlotIndex
      PROVE  EvalMult(a, Unit(n))[s] = IF s = n THEN a[n] ELSE 0
  <2>1. a[s] \in Int /\ a[s] \in Field
    BY FieldType DEF Cts
  <2>2. EvalMult(a, Unit(n))[s] = Reduce(a[s] * (IF s = n THEN 1 ELSE 0))
    BY DEF EvalMult, Unit
  <2>3. CASE s = n
    <3>1. a[s] * 1 = a[s]
      BY <2>1
    <3>2. QED BY <2>1, <2>2, <2>3, <3>1, ReduceField
  <2>4. CASE s # n
    <3>1. a[s] * 0 = 0
      BY <2>1
    <3>2. QED BY <2>2, <2>4, <3>1, PType, ReduceField
  <2>5. QED BY <2>3, <2>4
<1>2. QED BY <1>1, SlotArithmetic, ConstantCts

LEMMA MaskedClean ==
  ASSUME NEW a \in Cts, NEW n \in Int
  PROVE  /\ Clean(EvalMult(a, Unit(0)), 1)
         /\ Clean(InnerSum(a, n), 1) /\ Clean(Extract(a, n), 1)
<1>1. ASSUME NEW e \in Cts PROVE Clean(EvalMult(e, Unit(0)), 1)
  <2>1. \A s \in SlotIndex : s >= 1 => s # 0
    BY SlotsType
  <2>2. QED BY <2>1, SlotsType, Masked DEF Clean
<1>2. QED BY <1>1, TreesType, RotateType DEF InnerSum, Extract

LEMMA CleanTotal ==
  ASSUME NEW S, IsFiniteSet(S), NEW f \in [S -> Cts], NEW n \in Int,
         \A i \in S : Clean(f[i], n)
  PROVE  Clean(EvalTotal(f), n)
BY EvalTotalZero DEF Clean

LEMMA CleanPacked ==
  ASSUME NEW n \in Int, NEW val
  PROVE  Clean(Packed(n, val), n)
BY SlotsType DEF Clean, Packed

LEMMA CleanWider ==
  ASSUME NEW a, NEW n \in Int, NEW m \in Int, n <= m, Clean(a, n)
  PROVE  Clean(a, m)
BY SlotsType DEF Clean

(* What is in slot 0 alone goes to slot j alone. *)
LEMMA Placed ==
  ASSUME NEW a \in Cts, Clean(a, 1), NEW j \in SlotIndex
  PROVE  \A s \in SlotIndex : EvalRotate(a, -j)[s] = IF s = j THEN a[0] ELSE 0
<1> SUFFICES ASSUME NEW s \in SlotIndex
             PROVE  EvalRotate(a, -j)[s] = IF s = j THEN a[0] ELSE 0
  OBVIOUS
<1>1. EvalRotate(a, -j)[s] = a[(s + (-j)) % Slots]
  BY DEF EvalRotate
<1>2. -j \in Int /\ s \in Int /\ j \in Int
  BY SlotsType
<1>3. CASE s = j
  <2>1. s + (-j) = 0
    BY <1>2, <1>3
  <2>2. (s + (-j)) % Slots = 0
    BY <1>2, <2>1, RotationIndex, SlotsType
  <2>3. QED BY <1>1, <1>3, <2>2
<1>4. CASE s # j
  <2> DEFINE z == (s + (-j)) % Slots
  <2>1. z \in SlotIndex
    BY <1>2, RotationIndex
  <2>2. z # 0
    <3>1. CASE s > j
      <4>1. s + (-j) \in SlotIndex
        BY <3>1, SlotsType DEF SlotIndex
      <4>2. z = s + (-j)
        BY <1>2, <4>1, RotationIndex
      <4>3. QED BY <1>2, <3>1, <4>2
    <3>2. CASE s < j
      <4>1. s + (-j) < 0 /\ s + (-j) >= -Slots /\ s + (-j) > -Slots
        BY <3>2, SlotsType DEF SlotIndex
      <4>2. z = s + (-j) + Slots
        BY <1>2, <4>1, RotationIndex
      <4>3. QED BY <1>2, <4>1, <4>2, SlotsType
    <3>3. QED BY <1>2, <1>4, <3>1, <3>2
  <2> HIDE DEF z
  <2>3. z >= 1
    BY <2>1, <2>2, SlotsType
  <2>4. a[z] = 0
    BY <2>1, <2>3 DEF Clean
  <2>5. QED BY <1>1, <1>4, <2>4 DEF z
<1>5. QED BY <1>3, <1>4

-----------------------------------------------------------------------------
(* The algebra of sums. *)

Part(f, T) == SumFunction([i \in T |-> f[i]])
Adds(S, f) ==
  /\ IsFiniteSet(S) /\ f \in [S -> Int]
  /\ Part(f, {}) = 0 /\ Part(f, S) = SumFunction(f)
  /\ \A T \in SUBSET S : Part(f, T) \in Int
  /\ \A T \in SUBSET S : \A i \in S \ T : Part(f, T \cup {i}) = f[i] + Part(f, T)

LEMMA PartialSums ==
  ASSUME NEW S, IsFiniteSet(S), NEW f \in [S -> Int]
  PROVE  Adds(S, f)
<1>1. Part(f, {}) = 0
  BY SumEmpty DEF Part
<1>2. Part(f, S) = SumFunction(f)
  <2>1. [i \in S |-> f[i]] = f
    OBVIOUS
  <2>2. QED BY <2>1 DEF Part
<1>3. ASSUME NEW T \in SUBSET S PROVE IsFiniteSet(T) /\ Part(f, T) \in Int
  <2>1. IsFiniteSet(T)
    BY FS_Subset
  <2> DEFINE h == [i \in T |-> f[i]]
  <2>2. h \in [T -> Int]
    OBVIOUS
  <2> HIDE DEF h
  <2>3. SumFunction(h) \in Int
    BY <2>1, <2>2, SumInt
  <2>4. QED BY <2>1, <2>3 DEF Part, h
<1>4. ASSUME NEW T \in SUBSET S, NEW i \in S \ T
      PROVE  Part(f, T \cup {i}) = f[i] + Part(f, T)
  <2> DEFINE h == [j \in T \cup {i} |-> f[j]]
  <2>1. h \in [T \cup {i} -> Int] /\ h[i] = f[i] /\ [j \in T |-> h[j]] = [j \in T |-> f[j]]
    OBVIOUS
  <2> HIDE DEF h
  <2>2. SumFunction(h) = h[i] + SumFunction([j \in T |-> h[j]])
    BY <1>3, <2>1, SumInsert
  <2>3. QED BY <2>1, <2>2 DEF Part, h
<1>5. QED BY <1>1, <1>2, <1>3, <1>4 DEF Adds

(* A common factor. *)
LEMMA SumScale ==
  ASSUME NEW S, NEW f, NEW n, NEW h, IsFiniteSet(S), f \in [S -> Int], n \in Int,
         h \in [S -> Int], \A i \in S : h[i] = n * f[i]
  PROVE  SumFunction(h) = n * SumFunction(f)
<1>1. Adds(S, f) /\ Adds(S, h)
  BY PartialSums
<1> DEFINE A == {T \in SUBSET S : Part(h, T) = n * Part(f, T)}
<1>2. {} \in A
  BY <1>1 DEF Adds
<1>3. ASSUME NEW T \in SUBSET S, NEW i \in S, T \in A, i \notin T PROVE T \cup {i} \in A
  <2>1. /\ Part(h, T \cup {i}) = n * f[i] + Part(h, T)
        /\ Part(f, T \cup {i}) = f[i] + Part(f, T)
    BY <1>1, <1>3 DEF Adds
  <2>2. f[i] \in Int /\ Part(f, T) \in Int /\ Part(h, T) = n * Part(f, T)
    BY <1>1, <1>3 DEF Adds
  <2> DEFINE y == Part(f, T)
  <2>3. y \in Int /\ n * (f[i] + y) = n * f[i] + n * y
    BY <2>2
  <2> HIDE DEF y
  <2>4. Part(h, T \cup {i}) = n * f[i] + n * y /\ Part(f, T \cup {i}) = f[i] + y
    BY <2>1, <2>2 DEF y
  <2>5. QED BY <2>3, <2>4
<1> HIDE DEF A
<1>4. S \in A
  BY <1>2, <1>3, PartInduction
<1>5. QED BY <1>1, <1>4 DEF A, Adds

(* Term by term. *)
LEMMA SumPlus ==
  ASSUME NEW S, IsFiniteSet(S), NEW f \in [S -> Int], NEW g \in [S -> Int],
         NEW h \in [S -> Int], \A i \in S : h[i] = f[i] + g[i]
  PROVE  SumFunction(h) = SumFunction(f) + SumFunction(g)
<1>1. Adds(S, f) /\ Adds(S, g) /\ Adds(S, h)
  BY PartialSums
<1> DEFINE A == {T \in SUBSET S : Part(h, T) = Part(f, T) + Part(g, T)}
<1>2. {} \in A
  BY <1>1 DEF Adds
<1>3. ASSUME NEW T \in SUBSET S, NEW i \in S, T \in A, i \notin T PROVE T \cup {i} \in A
  <2>1. /\ Part(h, T \cup {i}) = f[i] + g[i] + Part(h, T)
        /\ Part(f, T \cup {i}) = f[i] + Part(f, T)
        /\ Part(g, T \cup {i}) = g[i] + Part(g, T)
    BY <1>1, <1>3 DEF Adds
  <2>2. /\ f[i] \in Int /\ Part(f, T) \in Int /\ g[i] \in Int /\ Part(g, T) \in Int
        /\ Part(h, T) = Part(f, T) + Part(g, T)
    BY <1>1, <1>3 DEF Adds
  <2>3. QED BY <2>1, <2>2
<1> HIDE DEF A
<1>4. S \in A
  BY <1>2, <1>3, PartInduction
<1>5. QED BY <1>1, <1>4 DEF A, Adds

(* Terms that are the same modulo P have sums that are. *)
LEMMA SumCongruent ==
  ASSUME NEW S, NEW f, NEW h, IsFiniteSet(S), f \in [S -> Int], h \in [S -> Int],
         \A i \in S : Reduce(h[i]) = Reduce(f[i])
  PROVE  Total(h) = Total(f)
<1>1. Adds(S, f) /\ Adds(S, h)
  BY PartialSums
<1> DEFINE A == {T \in SUBSET S : Reduce(Part(h, T)) = Reduce(Part(f, T))}
<1>2. {} \in A
  BY <1>1 DEF Adds
<1>3. ASSUME NEW T \in SUBSET S, NEW i \in S, T \in A, i \notin T PROVE T \cup {i} \in A
  <2>1. /\ Part(h, T \cup {i}) = h[i] + Part(h, T)
        /\ Part(f, T \cup {i}) = f[i] + Part(f, T)
    BY <1>1, <1>3 DEF Adds
  <2> DEFINE y == Part(f, T)  z == Part(h, T)
  <2>2. /\ f[i] \in Int /\ h[i] \in Int /\ y \in Int /\ z \in Int
        /\ Reduce(z) = Reduce(y) /\ Reduce(h[i]) = Reduce(f[i])
    BY <1>1, <1>3 DEF Adds
  <2> HIDE DEF y, z
  <2>3. Reduce(h[i] + z) = Reduce(f[i] + z)
    <3>1. Reduce(Reduce(h[i]) + z) = Reduce(h[i] + z)
      BY <2>2, ReduceAdd
    <3>2. Reduce(Reduce(f[i]) + z) = Reduce(f[i] + z)
      BY <2>2, ReduceAdd
    <3>3. QED BY <2>2, <3>1, <3>2
  <2>4. Reduce(f[i] + z) = Reduce(f[i] + y)
    <3>1. Reduce(Reduce(z) + f[i]) = Reduce(z + f[i])
      BY <2>2, ReduceAdd
    <3>2. Reduce(Reduce(y) + f[i]) = Reduce(y + f[i])
      BY <2>2, ReduceAdd
    <3>3. z + f[i] = f[i] + z /\ y + f[i] = f[i] + y
      BY <2>2
    <3>4. QED BY <2>2, <3>1, <3>2, <3>3
  <2>5. QED BY <2>1, <2>3, <2>4 DEF y, z
<1> HIDE DEF A
<1>4. S \in A
  BY <1>2, <1>3, PartInduction
<1>5. QED BY <1>1, <1>4 DEF A, Adds, Total

(* The order of two summations. *)
LEMMA SumSwap ==
  ASSUME NEW S, IsFiniteSet(S), NEW T, IsFiniteSet(T), NEW f \in [S -> [T -> Int]]
  PROVE  SumFunction([i \in S |-> SumFunction([j \in T |-> f[i][j]])])
           = SumFunction([j \in T |-> SumFunction([i \in S |-> f[i][j]])])
<1> DEFINE Line(i) == [j \in T |-> f[i][j]]
           Col(U, j) == SumFunction([i \in U |-> f[i][j]])
           lines == [i \in S |-> SumFunction(Line(i))]
           cols(U) == [j \in T |-> Col(U, j)]
<1>1. ASSUME NEW i \in S PROVE Line(i) \in [T -> Int] /\ SumFunction(Line(i)) \in Int
  <2>1. Line(i) \in [T -> Int]
    OBVIOUS
  <2> HIDE DEF Line
  <2>2. QED BY <2>1, SumInt
<1>2. lines \in [S -> Int]
  <2> HIDE DEF Line
  <2>1. QED BY <1>1
<1>3. ASSUME NEW j \in T
      PROVE  /\ Col({}, j) = 0
             /\ \A U \in SUBSET S : Col(U, j) \in Int
             /\ \A U \in SUBSET S : \A i \in S \ U : Col(U \cup {i}, j) = f[i][j] + Col(U, j)
  <2> DEFINE z == [i \in S |-> f[i][j]]
  <2>1. z \in [S -> Int]
    OBVIOUS
  <2>2. \A U \in SUBSET S : [i \in U |-> z[i]] = [i \in U |-> f[i][j]]
    OBVIOUS
  <2>3. \A i \in S : z[i] = f[i][j]
    OBVIOUS
  <2> HIDE DEF z
  <2>4. Adds(S, z)
    BY <2>1, PartialSums
  <2>5. \A U \in SUBSET S : Part(z, U) = Col(U, j)
    BY <2>2 DEF Part
  <2> HIDE DEF Col
  <2>6. QED BY <2>3, <2>4, <2>5 DEF Adds
<1>4. Adds(S, lines)
  <2> HIDE DEF lines
  <2>1. QED BY <1>2, PartialSums
<1> HIDE DEF Line, Col
<1> DEFINE A == {U \in SUBSET S : Part(lines, U) = SumFunction(cols(U))}
<1>5. {} \in A
  <2>1. cols({}) \in [T -> Int] /\ \A j \in T : cols({})[j] = 0
    BY <1>3
  <2> HIDE DEF cols
  <2>2. SumFunction(cols({})) = 0
    BY <2>1, SumZero
  <2>3. QED BY <1>4, <2>2 DEF Adds
<1>6. ASSUME NEW U \in SUBSET S, NEW i \in S, U \in A, i \notin U PROVE U \cup {i} \in A
  <2>1. Part(lines, U \cup {i}) = SumFunction(Line(i)) + Part(lines, U)
    BY <1>4, <1>6 DEF Adds
  <2>2. /\ Line(i) \in [T -> Int] /\ cols(U) \in [T -> Int] /\ cols(U \cup {i}) \in [T -> Int]
        /\ \A j \in T : cols(U \cup {i})[j] = Line(i)[j] + cols(U)[j]
    <3>1. \A j \in T : Line(i)[j] = f[i][j]
      BY DEF Line
    <3>2. U \cup {i} \in SUBSET S
      OBVIOUS
    <3>3. QED BY <1>1, <1>3, <1>6, <3>1, <3>2
  <2>3. Part(lines, U) = SumFunction(cols(U))
    BY <1>6
  <2> HIDE DEF lines, cols
  <2>4. SumFunction(cols(U \cup {i})) = SumFunction(Line(i)) + SumFunction(cols(U))
    <3> DEFINE y == cols(U \cup {i})  z == cols(U)  l == Line(i)
    <3>1. /\ l \in [T -> Int] /\ z \in [T -> Int] /\ y \in [T -> Int]
          /\ \A j \in T : y[j] = l[j] + z[j]
      BY <2>2
    <3> HIDE DEF y, z, l
    <3>2. SumFunction(y) = SumFunction(l) + SumFunction(z)
      BY <3>1, SumPlus
    <3>3. QED BY <3>2 DEF y, z, l
  <2>5. QED BY <2>1, <2>3, <2>4
<1>7. S \in A
  <2> HIDE DEF A
  <2>1. QED BY <1>5, <1>6, PartInduction
<1>8. SumFunction(lines) = SumFunction(cols(S))
  <2> HIDE DEF lines, cols
  <2>1. QED BY <1>4, <1>7 DEF Adds
<1>9. QED BY <1>8 DEF Line, Col

(* A single term. *)
LEMMA SumSingle ==
  ASSUME NEW S, IsFiniteSet(S), NEW f \in [S -> Int], NEW t \in S,
         \A i \in S : i # t => f[i] = 0
  PROVE  SumFunction(f) = f[t]
<1>1. SumFunction(f) = f[t] + SumFunction([i \in S \ {t} |-> f[i]])
  BY SumRemove
<1> DEFINE h == [i \in S \ {t} |-> f[i]]
<1>2. h \in [S \ {t} -> Int] /\ (\A i \in S \ {t} : h[i] = 0) /\ IsFiniteSet(S \ {t})
  BY FS_RemoveElement
<1> HIDE DEF h
<1>3. SumFunction(h) = 0
  BY <1>2, SumZero
<1>4. f[t] \in Int
  OBVIOUS
<1>5. QED BY <1>1, <1>3, <1>4 DEF h

(* One sum inside another, modulo P: rows first or columns first. *)
RowsFirst(S, T, e, m, z) == Total([j \in S |-> Total([i \in T |-> e[i] * m[i][j]]) * z[j]])
ColumnsFirst(S, T, e, m, z) == Total([i \in T |-> e[i] * Total([j \in S |-> m[i][j] * z[j]])])

LEMMA SumBilinear ==
  ASSUME NEW S, NEW T, NEW e, NEW m, NEW z, IsFiniteSet(S), IsFiniteSet(T),
         e \in [T -> Int], m \in [T -> [S -> Int]], z \in [S -> Int]
  PROVE  RowsFirst(S, T, e, m, z) = ColumnsFirst(S, T, e, m, z)
<1> DEFINE Inner(j) == [i \in T |-> e[i] * m[i][j]]
           Outer(i) == [j \in S |-> m[i][j] * z[j]]
           term == [j \in S |-> [i \in T |-> (e[i] * m[i][j]) * z[j]]]
           left == [j \in S |-> Total(Inner(j)) * z[j]]
           right == [i \in T |-> e[i] * Total(Outer(i))]
           rows == [j \in S |-> SumFunction([i \in T |-> term[j][i]])]
           cols == [i \in T |-> SumFunction([j \in S |-> term[j][i]])]
<1>0. ASSUME NEW i \in T, NEW j \in S
      PROVE  /\ e[i] \in Int /\ m[i][j] \in Int /\ z[j] \in Int
             /\ e[i] * m[i][j] \in Int /\ m[i][j] * z[j] \in Int
             /\ (e[i] * m[i][j]) * z[j] \in Int
             /\ (e[i] * m[i][j]) * z[j] = e[i] * (m[i][j] * z[j])
             /\ (e[i] * m[i][j]) * z[j] = z[j] * (e[i] * m[i][j])
  <2>1. e[i] \in Int /\ m[i][j] \in Int /\ z[j] \in Int
    OBVIOUS
  <2> DEFINE p1 == e[i]  p2 == m[i][j]  p3 == z[j]
  <2>2. p1 \in Int /\ p2 \in Int /\ p3 \in Int
    BY <2>1
  <2> HIDE DEF p1, p2, p3
  <2>3. /\ p1 * p2 \in Int /\ p2 * p3 \in Int /\ (p1 * p2) * p3 \in Int
        /\ (p1 * p2) * p3 = p1 * (p2 * p3) /\ (p1 * p2) * p3 = p3 * (p1 * p2)
    BY <2>2
  <2>4. QED BY <2>2, <2>3 DEF p1, p2, p3
<1>1. term \in [S -> [T -> Int]]
  BY <1>0
<1>2. ASSUME NEW j \in S
      PROVE  left[j] \in Int /\ rows[j] \in Int /\ Reduce(left[j]) = Reduce(rows[j])
  <2> DEFINE f == Inner(j)
             h == [i \in T |-> term[j][i]]
  <2>1. f \in [T -> Int] /\ h \in [T -> Int] /\ z[j] \in Int /\ \A i \in T : h[i] = z[j] * f[i]
    BY <1>0
  <2>2. left[j] = Reduce(SumFunction(f)) * z[j] /\ rows[j] = SumFunction(h)
    BY DEF Total
  <2> HIDE DEF f, h, left, rows
  <2>3. SumFunction(h) = z[j] * SumFunction(f) /\ SumFunction(f) \in Int
    <3> DEFINE n == z[j]
    <3>1. f \in [T -> Int] /\ h \in [T -> Int] /\ n \in Int /\ \A i \in T : h[i] = n * f[i]
      BY <2>1
    <3> HIDE DEF n
    <3>2. SumFunction(h) = n * SumFunction(f)
      BY <3>1, SumScale
    <3>3. SumFunction(f) \in Int
      BY <3>1, SumInt
    <3>4. QED BY <3>2, <3>3 DEF n
  <2> DEFINE y == SumFunction(f)  q == z[j]
  <2>4. y \in Int /\ q \in Int /\ left[j] = Reduce(y) * q /\ rows[j] = q * y
    BY <2>1, <2>2, <2>3
  <2> HIDE DEF y, q
  <2>5. Reduce(y) \in Int /\ Reduce(Reduce(y) * q) = Reduce(y * q)
    BY <2>4, ReduceType, ReduceMult
  <2>6. q * y = y * q /\ q * y \in Int /\ Reduce(y) * q \in Int
    BY <2>4, <2>5
  <2>7. QED BY <2>4, <2>5, <2>6
<1>3. ASSUME NEW i \in T
      PROVE  right[i] \in Int /\ cols[i] \in Int /\ Reduce(right[i]) = Reduce(cols[i])
  <2> DEFINE f == Outer(i)
             h == [j \in S |-> term[j][i]]
  <2>1. f \in [S -> Int] /\ h \in [S -> Int] /\ e[i] \in Int /\ \A j \in S : h[j] = e[i] * f[j]
    BY <1>0
  <2>2. right[i] = e[i] * Reduce(SumFunction(f)) /\ cols[i] = SumFunction(h)
    BY DEF Total
  <2> HIDE DEF f, h, right, cols
  <2>3. SumFunction(h) = e[i] * SumFunction(f) /\ SumFunction(f) \in Int
    <3> DEFINE n == e[i]
    <3>1. f \in [S -> Int] /\ h \in [S -> Int] /\ n \in Int /\ \A j \in S : h[j] = n * f[j]
      BY <2>1
    <3> HIDE DEF n
    <3>2. SumFunction(h) = n * SumFunction(f)
      BY <3>1, SumScale
    <3>3. SumFunction(f) \in Int
      BY <3>1, SumInt
    <3>4. QED BY <3>2, <3>3 DEF n
  <2> DEFINE y == SumFunction(f)  q == e[i]
  <2>4. y \in Int /\ q \in Int /\ right[i] = q * Reduce(y) /\ cols[i] = q * y
    BY <2>1, <2>2, <2>3
  <2> HIDE DEF y, q
  <2>5. Reduce(y) \in Int /\ Reduce(Reduce(y) * q) = Reduce(y * q)
    BY <2>4, ReduceType, ReduceMult
  <2>6. q * y = y * q /\ q * y \in Int /\ q * Reduce(y) = Reduce(y) * q /\ q * Reduce(y) \in Int
    BY <2>4, <2>5
  <2>7. QED BY <2>4, <2>5, <2>6
<1>4. SumFunction(rows) = SumFunction(cols)
  <2> HIDE DEF term
  <2>1. QED BY <1>1, SumSwap
<1>5. /\ left \in [S -> Int] /\ rows \in [S -> Int]
      /\ right \in [T -> Int] /\ cols \in [T -> Int]
  <2> HIDE DEF Inner, Outer, term
  <2>1. left \in [S -> Int] /\ rows \in [S -> Int]
    BY <1>2
  <2>2. right \in [T -> Int] /\ cols \in [T -> Int]
    BY <1>3
  <2>3. QED BY <2>1, <2>2
<1> HIDE DEF left, rows, right, cols, term, Inner, Outer
<1>6. Total(left) = Total(rows) /\ Total(right) = Total(cols)
  <2>1. Total(left) = Total(rows)
    BY <1>2, <1>5, SumCongruent
  <2>2. Total(right) = Total(cols)
    BY <1>3, <1>5, SumCongruent
  <2>3. QED BY <2>1, <2>2
<1>7. Total(left) = Total(right)
  BY <1>4, <1>6 DEF Total
<1>8. QED BY <1>7 DEF left, right, Inner, Outer, RowsFirst, ColumnsFirst

-----------------------------------------------------------------------------
(* How many rounds the trees take.                                           *)

LEMMA PowerGrows ==
  ASSUME NEW m \in Nat, NEW n \in Nat, m < n
  PROVE  2^m < 2^n
<1> DEFINE A == {d \in Nat : 2^m < 2^(m + d + 1)}
<1>1. ASSUME NEW e \in Nat PROVE 2^e < 2^(e + 1) /\ 2^e \in Nat /\ 2^(e + 1) \in Nat
  <2>1. 2^e \in Nat /\ 2^e >= 1 /\ 2^(e + 1) = 2 * 2^e
    BY PowerType, PowerDouble
  <2> DEFINE y == 2^e  z == 2^(e + 1)
  <2>2. y \in Nat /\ y >= 1 /\ z = 2 * y
    BY <2>1
  <2> HIDE DEF y, z
  <2>3. y < z /\ z \in Nat
    BY <2>2
  <2>4. QED BY <2>2, <2>3 DEF y, z
<1>2. 0 \in A
  BY <1>1
<1>3. ASSUME NEW d \in Nat, d \in A PROVE d + 1 \in A
  <2>1. m + d + 1 \in Nat /\ m + (d + 1) + 1 = (m + d + 1) + 1
    OBVIOUS
  <2> DEFINE u == 2^m  y == 2^(m + d + 1)  z == 2^((m + d + 1) + 1)
  <2>2. u \in Nat /\ y \in Nat /\ z \in Nat /\ y < z /\ u < y
    BY <1>1, <1>3, <2>1
  <2> HIDE DEF u, y, z
  <2>3. u < z
    BY <2>2
  <2>4. QED BY <2>1, <2>3 DEF u, z
<1>4. n - m - 1 \in Nat /\ m + (n - m - 1) + 1 = n
  OBVIOUS
<1>5. n - m - 1 \in A
  <2> HIDE DEF A
  <2>1. QED BY <1>2, <1>3, <1>4, Induction
<1>6. QED BY <1>4, <1>5

LEMMA PowerBeyond ==
  ASSUME NEW n \in Nat
  PROVE  n < 2^n
<1> DEFINE A == {d \in Nat : d < 2^d}
<1>1. 0 \in A
  BY PowerType
<1>2. ASSUME NEW d \in Nat, d \in A PROVE d + 1 \in A
  <2> DEFINE y == 2^d  z == 2^(d + 1)
  <2>1. y \in Nat /\ z \in Nat /\ d < y /\ z = 2 * y
    BY <1>2, PowerType, PowerDouble
  <2> HIDE DEF y, z
  <2>2. d + 1 < z
    BY <2>1
  <2>3. QED BY <2>2 DEF z
<1>3. n \in A
  <2> HIDE DEF A
  <2>1. QED BY <1>1, <1>2, Induction
<1>4. QED BY <1>3

LEMMA LeastPower ==
  ASSUME NEW n \in Nat
  PROVE  \E r \in Nat : r <= n /\ n <= 2^r /\ \A e \in Nat : e < r => 2^e < n
<1> DEFINE A == {e \in Nat : n <= 2^e}
<1>1. n \in A /\ A \subseteq Nat
  <2>1. n < 2^n /\ 2^n \in Nat
    BY PowerBeyond, PowerType
  <2>2. QED BY <2>1
<1> HIDE DEF A
<1>2. PICK r \in A : \A e \in A : ~(<<e, r>> \in OpToRel(<, Nat))
  BY <1>1, WFMin, NatLessThanWellFounded
<1>3. \A e \in A : ~(e < r)
  BY <1>1, <1>2 DEF OpToRel
<1>4. r \in Nat /\ r <= n /\ n <= 2^r
  <2>1. r \in Nat /\ n \in Nat /\ ~(n < r)
    BY <1>1, <1>2, <1>3
  <2>2. n <= 2^r
    BY <1>2 DEF A
  <2>3. QED BY <2>1, <2>2
<1>5. ASSUME NEW e \in Nat, e < r PROVE 2^e < n
  <2>1. ~(n <= 2^e)
    BY <1>3, <1>5 DEF A
  <2>2. QED BY <2>1, PowerType
<1>6. QED BY <1>4, <1>5

(* The trees reach n slots and do not wrap. *)
LEMMA RoundsReach ==
  ASSUME NEW n \in Nat, n >= 1, n <= Slots
  PROVE  Rounds(n) \in Nat /\ n <= 2^Rounds(n) /\ 2^Rounds(n) <= Slots
<1>1. PICK r \in Nat : r <= n /\ n <= 2^r /\ \A e \in Nat : e < r => 2^e < n
  BY LeastPower
<1> DEFINE I == 0..(r - 1)
           m == [e \in I |-> 2^e]
<1>2. \A e \in I : e \in Nat /\ e < r /\ e \in 0..n
  BY <1>1
<1>3. m \in [I -> Steps(n)]
  <2>1. ASSUME NEW e \in I PROVE 2^e \in Steps(n)
    <3>1. 2^e \in Nat /\ 2^e >= 1 /\ 2^e < n
      BY <1>1, <1>2, PowerType
    <3>2. 2^e \in 1..(n - 1)
      <4> DEFINE y == 2^e
      <4>1. y \in Nat /\ y >= 1 /\ y < n
        BY <3>1
      <4> HIDE DEF y
      <4>2. y \in 1..(n - 1)
        BY <4>1
      <4>3. QED BY <4>2 DEF y
    <3>3. QED BY <1>2, <3>2 DEF Steps
  <2>2. QED BY <2>1
<1>4. \A e, d \in I : m[e] = m[d] => e = d
  <2> SUFFICES ASSUME NEW e \in I, NEW d \in I, e < d PROVE m[e] # m[d]
    BY <1>2
  <2>1. 2^e < 2^d
    BY <1>2, PowerGrows
  <2>2. 2^e \in Nat /\ 2^d \in Nat
    BY <1>2, PowerType
  <2>3. QED BY <2>1, <2>2
<1>5. \A st \in Steps(n) : \E e \in I : m[e] = st
  <2> SUFFICES ASSUME NEW st \in Steps(n) PROVE \E e \in I : m[e] = st
    OBVIOUS
  <2>1. PICK e \in 0..n : st = 2^e
    BY DEF Steps
  <2>2. e \in Nat /\ st < n /\ st \in Nat
    BY <2>1 DEF Steps
  <2>3. e < r
    <3>1. CASE r < e
      <4>1. 2^r < 2^e /\ 2^r \in Nat /\ 2^e \in Nat
        BY <2>2, <3>1, PowerGrows, PowerType
      <4>2. QED BY <1>1, <2>1, <2>2, <4>1
    <3>2. CASE e = r
      <4>1. n <= st
        BY <1>1, <2>1, <3>2
      <4>2. QED BY <2>2, <4>1
    <3>3. QED BY <2>2, <3>1, <3>2
  <2>4. QED BY <2>1, <2>2, <2>3
<1>6. Rounds(n) = r
  <2> HIDE DEF I, m
  <2>1. m \in Bijection(I, Steps(n))
    BY <1>3, <1>4, <1>5, Fun_IsBij
  <2>2. IsFiniteSet(I) /\ Cardinality(I) = r
    BY FS_Interval DEF I
  <2>3. ExistsBijection(I, Steps(n))
    BY <2>1 DEF ExistsBijection
  <2>4. QED BY <2>2, <2>3, FS_Bijection DEF Rounds
<1>7. 2^r <= Slots
  <2>1. PICK e \in 0..16 : Slots = 2^e
    BY SlotsAssumption
  <2>2. e \in Nat
    OBVIOUS
  <2>3. r <= e
    <3>1. CASE e < r
      <4>1. 2^e < n
        BY <1>1, <2>2, <3>1
      <4>2. QED BY <2>1, <4>1, SlotsType
    <3>2. QED BY <2>2, <3>1
  <2>4. CASE r = e
    BY <2>1, <2>4, SlotsType
  <2>5. CASE r < e
    <3>1. 2^r < 2^e /\ 2^r \in Nat
      BY <2>2, <2>5, PowerGrows, PowerType
    <3>2. QED BY <2>1, <3>1, SlotsType
  <2>6. QED BY <2>2, <2>3, <2>4, <2>5
<1>8. QED BY <1>1, <1>6, <1>7

-----------------------------------------------------------------------------
(* What the trees compute.                                                   *)

(* A sum over slots i to i + n - 1. *)
Run(a, i, n) == Part(a, i..(i + n - 1))

LEMMA RunSteps ==
  ASSUME NEW a \in IntCts, NEW i \in Nat, NEW n \in Nat, i + n <= Slots
  PROVE  /\ Run(a, i, 0) = 0 /\ Run(a, i, n) \in Int
         /\ i + n < Slots => Run(a, i, n + 1) = a[i + n] + Run(a, i, n)
<1>1. Adds(SlotIndex, a)
  <2>1. IsFiniteSet(SlotIndex)
    BY FS_Interval, SlotsType DEF SlotIndex
  <2>2. QED BY <2>1, PartialSums DEF IntCts
<1>2. i..(i + 0 - 1) = {} /\ i..(i + n - 1) \in SUBSET SlotIndex
  BY SlotsType DEF SlotIndex
<1>3. ASSUME i + n < Slots
      PROVE  Run(a, i, n + 1) = a[i + n] + Run(a, i, n)
  <2> DEFINE T == i..(i + n - 1)
  <2>1. i + n \in SlotIndex \ T /\ T \in SUBSET SlotIndex
    BY <1>2, <1>3, SlotsType DEF SlotIndex
  <2>2. i..(i + (n + 1) - 1) = T \cup {i + n}
    OBVIOUS
  <2> HIDE DEF T
  <2>3. Part(a, T \cup {i + n}) = a[i + n] + Part(a, T)
    BY <1>1, <2>1 DEF Adds
  <2>4. QED BY <2>2, <2>3 DEF Run, T
<1>4. QED BY <1>1, <1>2, <1>3 DEF Run, Adds

LEMMA RunSplit ==
  ASSUME NEW a \in IntCts, NEW i \in Nat, NEW m \in Nat, NEW n \in Nat, i + m + n <= Slots
  PROVE  Run(a, i, m + n) = Run(a, i, m) + Run(a, i + m, n)
<1> DEFINE A == {d \in Nat : i + m + d <= Slots =>
                               Run(a, i, m + d) = Run(a, i, m) + Run(a, i + m, d)}
<1>1. 0 \in A
  <2>1. ASSUME i + m <= Slots PROVE Run(a, i, m) \in Int /\ Run(a, i + m, 0) = 0
    <3>1. Run(a, i, m) \in Int
      BY <2>1, RunSteps
    <3>2. i + m \in Nat /\ (i + m) + 0 <= Slots
      BY <2>1
    <3>3. Run(a, i + m, 0) = 0
      BY <3>2, RunSteps
    <3>4. QED BY <3>1, <3>3
  <2>2. m + 0 = m /\ i + m + 0 = i + m
    OBVIOUS
  <2>3. QED BY <2>1, <2>2
<1>2. ASSUME NEW d \in Nat, d \in A PROVE d + 1 \in A
  <2> SUFFICES ASSUME i + m + (d + 1) <= Slots
               PROVE  Run(a, i, m + (d + 1)) = Run(a, i, m) + Run(a, i + m, d + 1)
    OBVIOUS
  <2>1. /\ i + (m + d) < Slots /\ m + d \in Nat /\ i + m \in Nat
        /\ (i + m) + d < Slots /\ i + (m + d) = (i + m) + d /\ m + (d + 1) = (m + d) + 1
        /\ i + (m + d) <= Slots /\ (i + m) + d <= Slots /\ i + m + d <= Slots
    BY SlotsType
  <2>2. /\ Run(a, i, (m + d) + 1) = a[i + (m + d)] + Run(a, i, m + d)
    BY <2>1, RunSteps
  <2>3. /\ Run(a, i + m, d + 1) = a[(i + m) + d] + Run(a, i + m, d)
        /\ Run(a, i + m, d) \in Int
    BY <2>1, RunSteps
  <2>4. Run(a, i, m + d) = Run(a, i, m) + Run(a, i + m, d)
    BY <1>2, <2>1
  <2>5. Run(a, i, m) \in Int
    <3>1. i + m <= Slots
      BY <2>1, SlotsType
    <3>2. QED BY <3>1, RunSteps
  <2>6. a[(i + m) + d] \in Int
    <3>1. (i + m) + d \in SlotIndex
      BY <2>1, SlotsType DEF SlotIndex
    <3>2. QED BY <3>1 DEF IntCts
  <2> DEFINE y == Run(a, i, m)  z == Run(a, i + m, d)  q == a[(i + m) + d]
  <2>7. /\ y \in Int /\ z \in Int /\ q \in Int
        /\ Run(a, i, m + (d + 1)) = q + (y + z)
        /\ Run(a, i + m, d + 1) = q + z
    BY <2>1, <2>2, <2>3, <2>4, <2>5, <2>6
  <2> HIDE DEF y, z, q
  <2>8. Run(a, i, m + (d + 1)) = y + Run(a, i + m, d + 1)
    BY <2>7
  <2>9. QED BY <2>8 DEF y
<1>3. n \in A
  <2> HIDE DEF A
  <2>1. QED BY <1>1, <1>2, Induction
<1>4. QED BY <1>3

LEMMA RunZero ==
  ASSUME NEW a \in Cts, NEW i \in Nat, NEW n \in Nat, i + n <= Slots, Clean(a, i)
  PROVE  Run(a, i, n) = 0
<1> DEFINE A == {d \in Nat : i + d <= Slots => Run(a, i, d) = 0}
<1>0. a \in IntCts
  BY CtsAreInt
<1>1. 0 \in A
  BY <1>0, RunSteps
<1>2. ASSUME NEW d \in Nat, d \in A PROVE d + 1 \in A
  <2> SUFFICES ASSUME i + (d + 1) <= Slots PROVE Run(a, i, d + 1) = 0
    OBVIOUS
  <2>1. i + d < Slots /\ i + d <= Slots /\ i + d \in SlotIndex /\ i + d >= i
    BY SlotsType DEF SlotIndex
  <2>2. Run(a, i, d + 1) = a[i + d] + Run(a, i, d)
    BY <1>0, <2>1, RunSteps
  <2>3. a[i + d] = 0
    BY <2>1 DEF Clean
  <2>4. QED BY <1>2, <2>1, <2>2, <2>3
<1>3. n \in A
  <2> HIDE DEF A
  <2>1. QED BY <1>1, <1>2, Induction
<1>4. QED BY <1>3

(* As long as it does not wrap, round e sums 2^e slots. *)
LEMMA SumRounds ==
  ASSUME NEW a \in Cts, NEW n \in Nat, 2^n <= Slots, NEW g, TreeOf(a, LeftShift, n, g)
  PROVE  \A s \in SlotIndex : s + 2^n <= Slots => g[n][s] = Reduce(Run(a, s, 2^n))
<1> DEFINE A == {e \in Nat : e <= n => \A s \in SlotIndex :
                    s + 2^e <= Slots => g[e][s] = Reduce(Run(a, s, 2^e))}
<1>0. a \in IntCts
  BY CtsAreInt
<1>1. 0 \in A
  <2> SUFFICES ASSUME NEW s \in SlotIndex PROVE g[0][s] = Reduce(Run(a, s, 2^0))
    OBVIOUS
  <2>1. g[0] = a
    BY TreeSteps
  <2>2. s \in Nat /\ s + 0 < Slots /\ s + 0 <= Slots /\ s + 0 = s
    BY SlotsType DEF SlotIndex
  <2>3. Run(a, s, 0 + 1) = a[s + 0] + Run(a, s, 0) /\ Run(a, s, 0) = 0
    BY <1>0, <2>2, RunSteps
  <2>4. a[s] \in Int /\ a[s] \in Field
    BY FieldType DEF Cts
  <2>5. Run(a, s, 1) = a[s]
    BY <2>2, <2>3, <2>4
  <2>6. 2^0 = 1
    OBVIOUS
  <2>7. QED BY <2>1, <2>4, <2>5, <2>6, ReduceField
<1>2. ASSUME NEW e \in Nat, e \in A PROVE e + 1 \in A
  <2> DEFINE m == 2^e
  <2>1. m \in Nat /\ m >= 1 /\ 2^(e + 1) = m + m
    BY PowerType, PowerDouble
  <2> HIDE DEF m
  <2> SUFFICES ASSUME e + 1 <= n, NEW s \in SlotIndex, s + (m + m) <= Slots
               PROVE  g[e + 1][s] = Reduce(Run(a, s, m + m))
    BY <2>1
  <2>2. e \in 0..(n - 1) /\ e \in 0..n /\ n \in 0..n
    OBVIOUS
  <2>3. g[e + 1] = EvalAdd(g[e], EvalRotate(g[e], LeftShift[e])) /\ LeftShift[e] = m
    BY <2>2, TreeSteps DEF LeftShift, m
  <2>4. s + m \in SlotIndex /\ s \in Nat /\ s + m \in Nat /\ (s + m) + m <= Slots /\ s + m <= Slots
    BY <2>1, SlotsType DEF SlotIndex
  <2>5. g[e + 1][s] = Reduce(g[e][s] + g[e][(s + m) % Slots])
    BY <2>3 DEF EvalAdd, EvalRotate
  <2>6. (s + m) % Slots = s + m
    <3>1. m \in Int
      BY <2>1
    <3>2. QED BY <2>4, <3>1, RotationIndex
  <2>7. g[e][s] = Reduce(Run(a, s, m)) /\ g[e][s + m] = Reduce(Run(a, s + m, m))
    BY <1>2, <2>2, <2>4 DEF m
  <2>8. Run(a, s, m) \in Int /\ Run(a, s + m, m) \in Int
    BY <1>0, <2>1, <2>4, RunSteps
  <2>9. Run(a, s, m + m) = Run(a, s, m) + Run(a, s + m, m)
    <3>1. s + m + m <= Slots
      BY <2>1, <2>4
    <3>2. QED BY <1>0, <2>1, <2>4, <3>1, RunSplit
  <2> DEFINE y == Run(a, s, m)  z == Run(a, s + m, m)
  <2>10. y \in Int /\ z \in Int /\ g[e + 1][s] = Reduce(Reduce(y) + Reduce(z))
    BY <2>5, <2>6, <2>7, <2>8
  <2>11. Run(a, s, m + m) = y + z
    BY <2>9
  <2> HIDE DEF y, z
  <2>12. Reduce(Reduce(y) + Reduce(z)) = Reduce(y + z)
    <3>1. Reduce(z) \in Int
      BY <2>10, ReduceType
    <3>2. Reduce(Reduce(y) + Reduce(z)) = Reduce(y + Reduce(z))
      BY <2>10, <3>1, ReduceAdd
    <3>3. Reduce(Reduce(z) + y) = Reduce(z + y)
      BY <2>10, ReduceAdd
    <3>4. y + Reduce(z) = Reduce(z) + y /\ z + y = y + z
      BY <2>10, <3>1
    <3>5. QED BY <3>2, <3>3, <3>4
  <2>13. QED BY <2>10, <2>11, <2>12
<1>3. n \in A
  <2> HIDE DEF A
  <2>1. QED BY <1>1, <1>2, Induction
<1>4. QED BY <1>3

(* sum_slots adds the first n slots up in slot 0, provided that there is     *)
(* nothing beyond them.                                                      *)
LEMMA SumSlotsValue ==
  ASSUME NEW a \in Cts, NEW n \in Nat, n >= 1, n <= Slots, Clean(a, n)
  PROVE  SumSlots(a, n)[0] = Total([s \in 0..(n - 1) |-> a[s]])
<1> DEFINE r == Rounds(n)
           m == 2^r
<1>1. r \in Nat /\ m \in Nat /\ n <= m /\ m <= Slots
  BY RoundsReach, PowerType
<1>2. PICK g : TreeOf(a, LeftShift, r, g) /\ SumSlots(a, n) = g[r]
  BY SumTree
<1>3. g[r][0] = Reduce(Run(a, 0, m))
  <2>1. 0 \in SlotIndex /\ 0 + m <= Slots
    BY <1>1, SlotsType
  <2>2. \A s \in SlotIndex : s + 2^r <= Slots => g[r][s] = Reduce(Run(a, s, 2^r))
    BY <1>1, <1>2, SumRounds
  <2>3. QED BY <2>1, <2>2
<1> HIDE DEF r, m
<1>4. Run(a, 0, m) = Run(a, 0, n)
  <2>0. a \in IntCts
    BY CtsAreInt
  <2> DEFINE d == m - n
  <2>1. d \in Nat /\ n + d = m /\ 0 + n + d <= Slots /\ n + d <= Slots /\ 0 + n = n
        /\ 0 + n <= Slots
    BY <1>1
  <2> HIDE DEF d
  <2>2. Run(a, 0, n + d) = Run(a, 0, n) + Run(a, 0 + n, d)
    BY <2>0, <2>1, RunSplit
  <2>3. Run(a, n, d) = 0
    BY <2>1, RunZero
  <2>4. Run(a, 0, n) \in Int
    BY <2>0, <2>1, RunSteps
  <2>5. QED BY <2>1, <2>2, <2>3, <2>4
<1>5. Run(a, 0, n) = SumFunction([s \in 0..(n - 1) |-> a[s]])
  BY DEF Run, Part
<1>6. QED BY <1>2, <1>3, <1>4, <1>5 DEF Total

(* Round e has copied slot 0 over 2^e slots, and nothing else. *)
LEMMA ReplicateRounds ==
  ASSUME NEW a \in Cts, Clean(a, 1), NEW n \in Nat, 2^n <= Slots, NEW g,
         TreeOf(a, RightShift, n, g)
  PROVE  \A s \in SlotIndex : g[n][s] = IF s < 2^n THEN a[0] ELSE 0
<1> DEFINE A == {e \in Nat : e <= n => \A s \in SlotIndex :
                    g[e][s] = IF s < 2^e THEN a[0] ELSE 0}
<1>v. a[0] \in Int /\ a[0] \in Field
  BY FieldType, SlotsType DEF Cts
<1>1. 0 \in A
  <2> SUFFICES ASSUME NEW s \in SlotIndex PROVE g[0][s] = IF s < 2^0 THEN a[0] ELSE 0
    OBVIOUS
  <2>1. g[0] = a
    BY TreeSteps
  <2>2. 2^0 = 1
    OBVIOUS
  <2>3. s < 1 => s = 0
    BY SlotsType
  <2>4. ~(s < 1) => a[s] = 0
    BY SlotsType DEF Clean
  <2>5. QED BY <2>1, <2>2, <2>3, <2>4
<1>2. ASSUME NEW e \in Nat, e \in A PROVE e + 1 \in A
  <2> DEFINE m == 2^e
  <2>1. m \in Nat /\ m >= 1 /\ 2^(e + 1) = m + m
    BY PowerType, PowerDouble
  <2>t. e + 1 <= n => 2^(e + 1) <= Slots
    <3>1. CASE e + 1 < n
      BY <3>1, PowerGrows, PowerType, SlotsType
    <3>2. CASE e + 1 = n
      BY <3>2
    <3>3. QED BY <3>1, <3>2
  <2> HIDE DEF m
  <2> SUFFICES ASSUME e + 1 <= n, NEW s \in SlotIndex
               PROVE  g[e + 1][s] = IF s < m + m THEN a[0] ELSE 0
    BY <2>1
  <2>2. e \in 0..(n - 1) /\ e \in 0..n /\ m + m <= Slots
    BY <2>t, <2>1
  <2>3. g[e + 1] = EvalAdd(g[e], EvalRotate(g[e], RightShift[e])) /\ RightShift[e] = -m
    BY <2>2, TreeSteps DEF RightShift, m
  <2> DEFINE t == (s + (-m)) % Slots
  <2>4. g[e + 1][s] = Reduce(g[e][s] + g[e][t])
    BY <2>3 DEF EvalAdd, EvalRotate
  <2>5. t \in SlotIndex /\ -m \in Int
    BY <2>1, RotationIndex
  <2>6. t = IF s < m THEN s - m + Slots ELSE s - m
    <3>1. CASE s < m
      <4>1. s + (-m) < 0 /\ s + (-m) >= -Slots
        BY <2>1, <2>2, <3>1, SlotsType
      <4>2. t = s + (-m) + Slots
        BY <2>5, <4>1, RotationIndex
      <4>3. QED BY <2>1, <3>1, <4>2, SlotsType
    <3>2. CASE ~(s < m)
      <4>1. s + (-m) \in SlotIndex
        BY <2>1, <3>2, SlotsType DEF SlotIndex
      <4>2. t = s + (-m)
        BY <2>5, <4>1, RotationIndex
      <4>3. QED BY <2>1, <3>2, <4>2, SlotsType
    <3>3. QED BY <3>1, <3>2
  <2> HIDE DEF t
  <2>7. /\ g[e][s] = IF s < m THEN a[0] ELSE 0
        /\ g[e][t] = IF t < m THEN a[0] ELSE 0
    BY <1>2, <2>2, <2>5 DEF m
  <2>8. Reduce(a[0] + 0) = a[0] /\ Reduce(0 + a[0]) = a[0] /\ Reduce(0 + 0) = 0
    <3>1. a[0] + 0 = a[0] /\ 0 + a[0] = a[0] /\ 0 + 0 = 0
      BY <1>v
    <3>2. QED BY <1>v, <3>1, PType, ReduceField
  <2>9. s \in Nat
    BY SlotsType
  <2>10. CASE s < m
    <3>1. ~(t < m) /\ s < m + m
      BY <2>1, <2>2, <2>6, <2>9, <2>10, SlotsType
    <3>2. QED BY <2>4, <2>7, <2>8, <2>10, <3>1
  <2>11. CASE ~(s < m)
    <3>1. t < m <=> s < m + m
      BY <2>1, <2>6, <2>9, <2>11
    <3>2. QED BY <2>4, <2>7, <2>8, <2>11, <3>1
  <2>12. QED BY <2>10, <2>11
<1>3. n \in A
  <2> HIDE DEF A
  <2>1. QED BY <1>1, <1>2, Induction
<1>4. QED BY <1>3

(* replicate_slot_0 fills the first n slots. *)
LEMMA ReplicateValue ==
  ASSUME NEW a \in Cts, Clean(a, 1), NEW n \in Nat, n >= 1, n <= Slots
  PROVE  \A s \in SlotIndex : s < n => ReplicateSlot0(a, n)[s] = a[0]
<1> DEFINE r == Rounds(n)
           m == 2^r
<1>1. r \in Nat /\ m \in Nat /\ n <= m /\ m <= Slots
  BY RoundsReach, PowerType
<1>2. PICK g : TreeOf(a, RightShift, r, g) /\ ReplicateSlot0(a, n) = g[r]
  BY ReplicateTree
<1>3. \A s \in SlotIndex : g[r][s] = IF s < m THEN a[0] ELSE 0
  BY <1>1, <1>2, ReplicateRounds
<1> HIDE DEF r, m
<1>4. QED BY <1>1, <1>2, <1>3, SlotsType

-----------------------------------------------------------------------------
(* The client's data and system. *)

Features == [0..(D - 1) -> Field]

LEMMA Sizes == NTrain \in Nat /\ Size \in Nat /\ Size = NTrain + 1 /\ Size <= Slots
                 /\ NTest \in Nat /\ D \in Nat /\ D >= 1 /\ D <= Slots /\ Slots \in Nat
<1>1. NTrain \in Nat /\ NTrain + 1 <= Slots
  BY ShapeAssumption
<1>2. NTest \in Nat
  BY DataAssumption, FS_CardinalityType DEF NTest
<1>3. D \in Nat /\ D >= 1 /\ D <= Slots
  BY ShapeAssumption, SlotsAssumption
<1>4. Slots \in Nat
  BY SlotsAssumption
<1> QED
  BY <1>1, <1>2, <1>3, <1>4 DEF Size

LEMMA Indices == Index \subseteq SlotIndex /\ IsFiniteSet(Index) /\ IsFiniteSet(1..NTrain)
                   /\ IsFiniteSet(0..(D - 1)) /\ 0 \in Index
<1>1. IsFiniteSet(Index) /\ IsFiniteSet(1..NTrain) /\ IsFiniteSet(0..(D - 1))
  BY Sizes, FS_Interval DEF Index
<1>2. Index \subseteq SlotIndex /\ 0 \in Index
  BY Sizes DEF Index, SlotIndex
<1>3. QED BY <1>1, <1>2

LEMMA ClientData ==
  ASSUME NEW t \in Clients, NEW i \in 1..NTrain
  PROVE  /\ t.y[i] \in Int /\ t.X[i] \in Features
         /\ \A f \in 0..(D - 1) : t.X[i][f] \in Int
<1>1. t.X \in [1..NTrain -> Samples] /\ t.y \in Labels
  BY DEF Clients
<1>2. t.y \in [1..NTrain -> {1, -1}] /\ t.X[i] \in Features
  BY <1>1, DataAssumption DEF Features
<1>3. \A f \in 0..(D - 1) : t.X[i][f] \in Field
  BY <1>2 DEF Features
<1>4. \A f \in 0..(D - 1) : t.X[i][f] \in Int
  BY <1>3, FieldType
<1>5. t.y[i] \in Int
  <2> DEFINE q == t.y
  <2>1. q \in [1..NTrain -> {1, -1}]
    BY <1>2
  <2> HIDE DEF q
  <2>2. q[i] = 1 \/ q[i] = -1
    BY <2>1
  <2>3. q[i] \in Int
    BY <2>2
  <2>4. QED BY <2>3 DEF q
<1>6. QED BY <1>2, <1>4, <1>5

LEMMA TestData ==
  ASSUME NEW n \in DOMAIN Tests
  PROVE  Tests[n] \in Features /\ \A f \in 0..(D - 1) : Tests[n][f] \in Int
<1>1. Tests[n] \in Features
  BY DataAssumption DEF Features
<1>2. QED BY <1>1, FieldType DEF Features

LEMMA DotType ==
  ASSUME NEW u \in Features, NEW v \in Features
  PROVE  Dot(u, v) \in Field /\ Dot(u, v) \in Int
<1> DEFINE h == [f \in 0..(D - 1) |-> u[f] * v[f]]
<1>1. h \in [0..(D - 1) -> Int]
  <2>1. ASSUME NEW f \in 0..(D - 1) PROVE u[f] * v[f] \in Int
    <3>1. u[f] \in Int /\ v[f] \in Int
      BY FieldType DEF Features
    <3>2. QED BY <3>1
  <2>2. QED BY <2>1
<1> HIDE DEF h
<1>2. Total(h) \in Field
  BY <1>1, Indices, TotalType
<1>3. Dot(u, v) \in Field
  BY <1>2 DEF Dot, h
<1>4. QED BY <1>3, FieldType

LEMMA SystemTypes ==
  ASSUME NEW t \in Clients
  PROVE  /\ SystemMatrix(t) \in [Index -> [Index -> Field]]
         /\ RightHandSide(t) \in [Index -> Field]
<1>1. ASSUME NEW i \in Index, i # 0 PROVE i \in 1..NTrain
  BY <1>1, Sizes DEF Index
<1>2. ASSUME NEW i \in Index, NEW j \in Index, i # 0, j # 0
      PROVE  Reduce(t.y[i] * t.y[j] * Dot(t.X[i], t.X[j])
                      + IF i = j THEN InvGamma ELSE 0) \in Field
  <2>1. t.y[i] \in Int /\ t.y[j] \in Int /\ Dot(t.X[i], t.X[j]) \in Int
    BY <1>1, <1>2, ClientData, DotType
  <2>2. InvGamma \in Int
    BY ShapeAssumption, FieldType
  <2> DEFINE d == Dot(t.X[i], t.X[j])
  <2>3. d \in Int
    BY <2>1
  <2> HIDE DEF d
  <2>4. t.y[i] * t.y[j] * d \in Int
    BY <2>1, <2>3
  <2>5. t.y[i] * t.y[j] * d + (IF i = j THEN InvGamma ELSE 0) \in Int
    BY <2>2, <2>4
  <2>6. QED BY <2>5, ReduceType DEF d
<1>3. ASSUME NEW i \in Index, i # 0 PROVE Reduce(t.y[i]) \in Field
  BY <1>1, <1>3, ClientData, ReduceType
<1>4. QED BY <1>2, <1>3, PType DEF SystemMatrix, RightHandSide

-----------------------------------------------------------------------------
(* Primal weights.                                                           *)

LEMMA ExtractValue ==
  ASSUME NEW a \in Cts, NEW j \in SlotIndex
  PROVE  Extract(a, j)[0] = a[j]
<1>1. j \in Int /\ 0 + j = j
  BY SlotsType
<1>2. EvalRotate(a, j) \in Cts
  BY <1>1, RotateType
<1>3. EvalRotate(a, j)[0] = a[j]
  <2>1. (0 + j) % Slots = j
    BY <1>1, SlotsType, RotationIndex
  <2>2. QED BY <2>1, SlotsType DEF EvalRotate
<1>4. QED BY <1>2, <1>3, Masked, SlotsType DEF Extract

(* One term of the weights: the multiplier over the features of the sample.  *)
LEMMA WeightTermValue ==
  ASSUME NEW t \in Clients, NEW a \in Cts, NEW j \in SlotIndex, NEW i \in 1..NTrain
  PROVE  /\ WeightTerm(t, a, j, i) \in Cts /\ Clean(WeightTerm(t, a, j, i), D)
         /\ \A s \in 0..(D - 1) :
              WeightTerm(t, a, j, i)[s] = Reduce(a[j] * (t.y[i] * t.X[i][s]))
<1> DEFINE val == [f \in 0..(D - 1) |-> t.y[i] * t.X[i][f]]
           e == Extract(a, j)
           spread == ReplicateSlot0(e, D)
           packed == Packed(D, val)
<1>1. \A s \in 0..(D - 1) : val[s] \in Int /\ val[s] = t.y[i] * t.X[i][s]
  BY ClientData
<1> HIDE DEF val
<1>2. packed \in Cts /\ Clean(packed, D)
  BY <1>1, Sizes, PackedType, CleanPacked
<1>3. e \in Cts /\ Clean(e, 1) /\ e[0] = a[j]
  <2>1. j \in Int
    BY SlotsType
  <2>2. QED BY <2>1, ExtractType, MaskedClean, ExtractValue
<1> HIDE DEF e
<1>4. spread \in Cts /\ \A s \in SlotIndex : s < D => spread[s] = a[j]
  BY <1>3, Sizes, TreesType, ReplicateValue
<1>5. \A s \in 0..(D - 1) : s \in SlotIndex /\ s < D
  BY Sizes DEF SlotIndex
<1>6. \A s \in 0..(D - 1) : packed[s] = Reduce(val[s])
  BY <1>5 DEF Packed
<1> HIDE DEF spread, packed
<1>7. WeightTerm(t, a, j, i) = EvalMult(spread, packed)
  BY DEF WeightTerm, spread, packed, e, val
<1>8. ASSUME NEW s \in 0..(D - 1)
      PROVE  EvalMult(spread, packed)[s] = Reduce(a[j] * (t.y[i] * t.X[i][s]))
  <2>1. EvalMult(spread, packed)[s] = Reduce(a[j] * Reduce(val[s]))
    BY <1>4, <1>5, <1>6 DEF EvalMult
  <2>2. a[j] \in Int /\ val[s] \in Int /\ Reduce(val[s]) \in Int
    BY <1>1, CtsAreInt, ReduceType DEF IntCts
  <2>3. a[j] * Reduce(val[s]) = Reduce(val[s]) * a[j] /\ val[s] * a[j] = a[j] * val[s]
    BY <2>2
  <2>4. Reduce(Reduce(val[s]) * a[j]) = Reduce(val[s] * a[j])
    BY <2>2, ReduceMult
  <2>5. QED BY <1>1, <2>1, <2>3, <2>4
<1>9. QED BY <1>2, <1>4, <1>7, <1>8, Sizes, SlotArithmetic, CleanArithmetic

WeightsOf(t, a, m) ==
  EvalTotal([i \in 1..NTrain |-> WeightTerm(t, a, m[i], i)])

LEMMA WeightsValue ==
  ASSUME NEW t \in Clients, NEW a \in Cts, NEW m \in [1..NTrain -> SlotIndex]
  PROVE  /\ WeightsOf(t, a, m) \in Cts /\ Clean(WeightsOf(t, a, m), D)
         /\ \A s \in 0..(D - 1) : WeightsOf(t, a, m)[s]
              = Total([i \in 1..NTrain |-> a[m[i]] * (t.y[i] * t.X[i][s])])
<1> DEFINE f == [i \in 1..NTrain |-> WeightTerm(t, a, m[i], i)]
<1>1. ASSUME NEW i \in 1..NTrain
      PROVE  /\ f[i] \in Cts /\ Clean(f[i], D)
             /\ \A s \in 0..(D - 1) : f[i][s] = Reduce(a[m[i]] * (t.y[i] * t.X[i][s]))
  BY WeightTermValue
<1>2. WeightsOf(t, a, m) = EvalTotal(f) /\ f \in [1..NTrain -> Cts]
  BY <1>1 DEF WeightsOf
<1> HIDE DEF f
<1>3. EvalTotal(f) \in Cts /\ Clean(EvalTotal(f), D)
  BY <1>1, <1>2, Indices, Sizes, EvalTotalType, CleanTotal
<1>4. ASSUME NEW s \in 0..(D - 1)
      PROVE  EvalTotal(f)[s] = Total([i \in 1..NTrain |-> a[m[i]] * (t.y[i] * t.X[i][s])])
  <2> DEFINE g == [i \in 1..NTrain |-> f[i][s]]
             h == [i \in 1..NTrain |-> a[m[i]] * (t.y[i] * t.X[i][s])]
  <2>1. s \in SlotIndex /\ DOMAIN f = 1..NTrain
    BY <1>2, Sizes DEF SlotIndex
  <2>2. EvalTotal(f)[s] = Total(g)
    BY <2>1 DEF EvalTotal
  <2>3. ASSUME NEW i \in 1..NTrain
        PROVE  /\ g[i] \in Int /\ h[i] \in Int /\ Reduce(g[i]) = Reduce(h[i])
    <3>1. a[m[i]] \in Int /\ t.y[i] \in Int /\ t.X[i][s] \in Int
      BY ClientData, CtsAreInt DEF IntCts
    <3>2. h[i] \in Int /\ h[i] = a[m[i]] * (t.y[i] * t.X[i][s])
      BY <3>1
    <3> HIDE DEF h
    <3>3. g[i] = Reduce(h[i])
      BY <1>1, <3>2
    <3>4. QED BY <3>2, <3>3, ReduceType, ReduceField
  <2>4. g \in [1..NTrain -> Int] /\ h \in [1..NTrain -> Int]
    BY <2>3
  <2> HIDE DEF g, h
  <2>5. Total(g) = Total(h)
    <3>1. IsFiniteSet(1..NTrain) /\ \A i \in 1..NTrain : Reduce(h[i]) = Reduce(g[i])
      BY ONLY <2>3, Indices
    <3> QED
      BY ONLY <2>4, <3>1, SumCongruent
  <2>6. QED BY <2>2, <2>5 DEF h
<1>5. QED BY <1>2, <1>3, <1>4

-----------------------------------------------------------------------------
(* Scores.                                                                   *)

(* The score of a test point, in the clear. *)
LEMMA ScoreValue ==
  ASSUME NEW bias \in Cts, NEW weights \in Cts, NEW n \in DOMAIN Tests
  PROVE  /\ Score(bias, weights, n) \in Cts /\ Clean(Score(bias, weights, n), 1)
         /\ Score(bias, weights, n)[0]
              = Reduce(bias[0] + SumFunction(
                         [f \in 0..(D - 1) |-> weights[f] * Tests[n][f]]))
<1> DEFINE z == Tests[n]
           packed == Packed(D, z)
           prod == EvalMult(weights, packed)
           total == SumSlots(prod, D)
           raw == EvalAdd(total, bias)
           h == [f \in 0..(D - 1) |-> weights[f] * z[f]]
           g == [f \in 0..(D - 1) |-> prod[f]]
<1>1. z \in Features /\ \A f \in 0..(D - 1) : z[f] \in Int /\ z[f] \in Field
  BY TestData DEF Features
<1> HIDE DEF z
<1>2. packed \in Cts /\ Clean(packed, D)
  BY <1>1, Sizes, PackedType, CleanPacked
<1>3. \A f \in 0..(D - 1) : f \in SlotIndex /\ f < D
  BY Sizes DEF SlotIndex
<1>4. \A f \in 0..(D - 1) : packed[f] = z[f]
  <2>1. \A f \in 0..(D - 1) : packed[f] = Reduce(z[f])
    BY <1>3 DEF Packed
  <2>2. \A f \in 0..(D - 1) : Reduce(z[f]) = z[f]
    BY <1>1, ReduceField
  <2>3. QED BY <2>1, <2>2
<1> HIDE DEF packed
<1>5. prod \in Cts /\ Clean(prod, D)
  BY <1>2, Sizes, SlotArithmetic, CleanArithmetic
<1>6. ASSUME NEW f \in 0..(D - 1)
      PROVE  /\ h[f] \in Int /\ g[f] \in Int /\ Reduce(g[f]) = Reduce(h[f])
  <2>1. weights[f] \in Int /\ z[f] \in Int
    BY <1>1, <1>3, CtsAreInt DEF IntCts
  <2>2. h[f] \in Int /\ h[f] = weights[f] * z[f]
    BY <2>1
  <2>3. g[f] = Reduce(weights[f] * packed[f])
    BY <1>3 DEF EvalMult
  <2> HIDE DEF h, g
  <2>4. g[f] = Reduce(h[f])
    BY <1>4, <2>2, <2>3
  <2>5. QED BY <2>2, <2>4, ReduceType, ReduceField
<1>7. g \in [0..(D - 1) -> Int] /\ h \in [0..(D - 1) -> Int]
  BY <1>6
<1> HIDE DEF prod
<1>8. total \in Cts /\ total[0] = Total(g)
  <2> HIDE DEF total
  <2>1. D \in Int
    BY Sizes
  <2>2. SumSlots(prod, D) \in Cts
    BY <1>5, <2>1, TreesType
  <2>3. SumSlots(prod, D)[0] = Total([f \in 0..(D - 1) |-> prod[f]])
    BY <1>5, Sizes, SumSlotsValue
  <2>4. QED BY <2>2, <2>3 DEF total
<1> HIDE DEF total, g, h
<1>9. Total(g) = Total(h) /\ SumFunction(h) \in Int
  <2> DEFINE S == 0..(D - 1)
  <2>1. /\ IsFiniteSet(S) /\ g \in [S -> Int] /\ h \in [S -> Int]
        /\ \A f \in S : Reduce(g[f]) = Reduce(h[f])
    BY <1>6, <1>7, Indices
  <2> HIDE DEF S
  <2>2. QED BY <2>1, SumCongruent, SumInt
<1>10. raw \in Cts
  BY <1>8, SlotArithmetic
<1>11. raw[0] = Reduce(bias[0] + SumFunction(h))
  <2>1. raw[0] = Reduce(Reduce(SumFunction(h)) + bias[0])
    BY <1>8, <1>9, SlotsType DEF EvalAdd, Total
  <2>2. bias[0] \in Int
    BY CtsAreInt, SlotsType DEF IntCts
  <2>3. Reduce(Reduce(SumFunction(h)) + bias[0]) = Reduce(SumFunction(h) + bias[0])
    BY <1>9, <2>2, ReduceAdd
  <2>4. SumFunction(h) + bias[0] = bias[0] + SumFunction(h)
    BY <1>9, <2>2
  <2>5. QED BY <2>1, <2>3, <2>4
<1> HIDE DEF raw
<1>12. Score(bias, weights, n) = EvalMult(raw, Unit(0))
  BY DEF Score, raw, total, prod, packed, z
<1>13. EvalMult(raw, Unit(0))[0] = raw[0]
  BY <1>10, SlotsType, Masked
<1>14. EvalMult(raw, Unit(0)) \in Cts /\ Clean(EvalMult(raw, Unit(0)), 1)
  <2>1. 0 \in Int
    OBVIOUS
  <2>2. Clean(EvalMult(raw, Unit(0)), 1)
    BY <1>10, <2>1, MaskedClean
  <2>3. QED BY <1>10, <2>2, SlotsType, Masked
<1>15. QED BY <1>11, <1>12, <1>13, <1>14 DEF h, z

(* With the weights of the multipliers a[m[i]], it is the decision value. *)
LEMMA ScoreIsDecision ==
  ASSUME NEW t \in Clients, NEW a \in Cts, NEW m \in [1..NTrain -> SlotIndex],
         NEW bias \in Cts, NEW n \in DOMAIN Tests
  PROVE  Score(bias, WeightsOf(t, a, m), n)[0]
           = Decision(t, bias[0], [i \in 1..NTrain |-> a[m[i]]], Tests[n])
<1> DEFINE S == 0..(D - 1)
           T == 1..NTrain
           weights == WeightsOf(t, a, m)
           z == Tests[n]
           e == [i \in T |-> a[m[i]] * t.y[i]]
           feature == [i \in T |-> [f \in S |-> t.X[i][f]]]
           Terms(f) == [i \in T |-> e[i] * feature[i][f]]
           left == [f \in S |-> weights[f] * z[f]]
           right == [i \in T |-> e[i] * Dot(t.X[i], z)]
<1>1. /\ weights \in Cts
      /\ \A f \in S : weights[f] = Total([i \in T |-> a[m[i]] * (t.y[i] * t.X[i][f])])
  BY WeightsValue
<1>2. z \in Features /\ z \in [S -> Int]
  <2>1. z \in Features /\ \A f \in S : z[f] \in Int
    BY TestData
  <2>2. QED BY <2>1 DEF Features
<1> HIDE DEF weights, z
<1>3. ASSUME NEW i \in T
      PROVE  /\ a[m[i]] \in Int /\ t.y[i] \in Int /\ \A f \in S : t.X[i][f] \in Int
             /\ t.X[i] \in Features /\ e[i] \in Int
             /\ \A f \in S : a[m[i]] * (t.y[i] * t.X[i][f]) = e[i] * feature[i][f]
  <2>1. a[m[i]] \in Int /\ t.y[i] \in Int /\ t.X[i] \in Features
        /\ \A f \in S : t.X[i][f] \in Int
    BY ClientData, CtsAreInt DEF IntCts
  <2> DEFINE p1 == a[m[i]]  p2 == t.y[i]
  <2>2. p1 \in Int /\ p2 \in Int /\ e[i] = p1 * p2
    BY <2>1
  <2> HIDE DEF p1, p2, e
  <2>3. ASSUME NEW f \in S PROVE p1 * (p2 * t.X[i][f]) = e[i] * feature[i][f]
    <3> DEFINE p3 == t.X[i][f]
    <3>1. p3 \in Int /\ feature[i][f] = p3
      BY <2>1
    <3> HIDE DEF p3, feature
    <3>2. p1 * (p2 * p3) = (p1 * p2) * p3
      BY <2>2, <3>1
    <3>3. QED BY <2>2, <3>1, <3>2 DEF p3
  <2>4. e[i] \in Int
    BY <2>2
  <2>5. QED BY <2>1, <2>3, <2>4 DEF p1, p2
<1>4. e \in [T -> Int] /\ feature \in [T -> [S -> Int]]
  BY <1>3
<1>5. ASSUME NEW f \in S PROVE weights[f] = Total(Terms(f))
  <2>1. [i \in T |-> a[m[i]] * (t.y[i] * t.X[i][f])] = Terms(f)
    <3> HIDE DEF e, feature
    <3>1. QED BY <1>3
  <2>2. QED BY <1>1, <2>1
<1>6. ASSUME NEW i \in T
      PROVE  Dot(t.X[i], z) = Total([f \in S |-> feature[i][f] * z[f]])
  <2>1. [f \in S |-> feature[i][f] * z[f]] = [f \in S |-> t.X[i][f] * z[f]]
    OBVIOUS
  <2>2. QED BY <2>1 DEF Dot
<1>7. left = [f \in S |-> Total([i \in T |-> e[i] * feature[i][f]]) * z[f]]
  <2> HIDE DEF e, feature
  <2>1. QED BY <1>5
<1>8. right = [i \in T |-> e[i] * Total([f \in S |-> feature[i][f] * z[f]])]
  <2> HIDE DEF e, feature
  <2>1. QED BY <1>6
<1>9. Total(left) = Total(right)
  <2>1. IsFiniteSet(S) /\ IsFiniteSet(T)
    BY Indices
  <2> HIDE DEF S, T, e, feature, left, right
  <2>2. RowsFirst(S, T, e, feature, z) = ColumnsFirst(S, T, e, feature, z)
    <3>1. IsFiniteSet(S)
      BY ONLY <2>1
    <3>2. IsFiniteSet(T)
      BY ONLY <2>1
    <3>3. e \in [T -> Int]
      BY ONLY <1>4
    <3>4. feature \in [T -> [S -> Int]]
      BY ONLY <1>4
    <3>5. z \in [S -> Int]
      BY ONLY <1>2
    <3> QED
      BY ONLY <3>1, <3>2, <3>3, <3>4, <3>5, SumBilinear
  <2>3. QED BY <1>7, <1>8, <2>2 DEF RowsFirst, ColumnsFirst
<1>10. left \in [S -> Int] /\ right \in [T -> Int]
  <2>1. ASSUME NEW f \in S PROVE weights[f] * z[f] \in Int
    <3>1. f \in SlotIndex
      BY Sizes DEF SlotIndex
    <3>2. weights[f] \in Int /\ z[f] \in Int
      BY <1>1, <1>2, <3>1, CtsAreInt DEF IntCts
    <3>3. QED BY <3>2
  <2>2. ASSUME NEW i \in T PROVE e[i] * Dot(t.X[i], z) \in Int
    <3>1. e[i] \in Int /\ Dot(t.X[i], z) \in Int
      BY <1>2, <1>3, DotType
    <3> HIDE DEF e
    <3>2. QED BY <3>1
  <2> HIDE DEF e
  <2>3. QED BY <2>1, <2>2
<1>11. Score(bias, weights, n)[0] = Reduce(bias[0] + SumFunction(left))
  BY <1>1, ScoreValue DEF z
<1>12. Decision(t, bias[0], [i \in T |-> a[m[i]]], z) = Reduce(bias[0] + SumFunction(right))
  <2> DEFINE alpha == [j \in T |-> a[m[j]]]
  <2>1. \A i \in T : alpha[i] = a[m[i]]
    OBVIOUS
  <2>2. [i \in T |-> alpha[i] * t.y[i] * Dot(t.X[i], z)] = right
    BY <2>1
  <2> HIDE DEF alpha, right
  <2>3. Decision(t, bias[0], alpha, z) = Reduce(bias[0] + SumFunction(right))
    BY <2>2 DEF Decision
  <2>4. QED BY <2>3 DEF alpha
<1>13. SumFunction(left) \in Int /\ SumFunction(right) \in Int /\ bias[0] \in Int
  <2>1. IsFiniteSet(S) /\ IsFiniteSet(T)
    BY Indices
  <2> HIDE DEF S, T, left, right
  <2>2. SumFunction(left) \in Int /\ SumFunction(right) \in Int
    BY <1>10, <2>1, SumInt
  <2>3. QED BY <2>2, CtsAreInt, SlotsType DEF IntCts
<1>14. Reduce(bias[0] + SumFunction(left)) = Reduce(bias[0] + SumFunction(right))
  <2> DEFINE y == SumFunction(left)  g == SumFunction(right)  h == bias[0]
  <2>1. y \in Int /\ g \in Int /\ h \in Int /\ Reduce(y) = Reduce(g)
    BY <1>9, <1>13 DEF Total
  <2> HIDE DEF y, g, h
  <2>2. Reduce(Reduce(y) + h) = Reduce(y + h) /\ Reduce(Reduce(g) + h) = Reduce(g + h)
    BY <2>1, ReduceAdd
  <2>3. y + h = h + y /\ g + h = h + g
    BY <2>1
  <2>4. QED BY <2>1, <2>2, <2>3 DEF y, g, h
<1>15. QED BY <1>11, <1>12, <1>14 DEF weights, z

-----------------------------------------------------------------------------
(* Batches. *)

\* The test points scored so far are the first ones.
FirstTests(done) == \E n \in 0..NTest : DOMAIN done = 0..(n - 1)

LEMMA BatchDomain ==
  ASSUME NEW done, FirstTests(done)
  PROVE  \E n \in 0..NTest :
           /\ DOMAIN done = 0..(n - 1) /\ Cardinality(DOMAIN done) = n
           /\ BatchSize(done) \in Nat /\ BatchSize(done) <= Slots
           /\ n + BatchSize(done) <= NTest
<1>1. PICK n \in 0..NTest : DOMAIN done = 0..(n - 1)
  BY DEF FirstTests
<1>2. Cardinality(DOMAIN done) = n
  BY <1>1, Sizes, FS_Interval
<1>3. BatchSize(done) = IF NTest - n < Slots THEN NTest - n ELSE Slots
  BY <1>2 DEF BatchSize
<1>4. n \in Nat /\ n <= NTest
  BY Sizes
<1>5. BatchSize(done) \in Nat /\ BatchSize(done) <= Slots /\ n + BatchSize(done) <= NTest
  BY <1>3, <1>4, Sizes
<1>6. QED BY <1>1, <1>2, <1>5

(* Every score of a batch is at the place of its test point, and those of    *)
(* earlier batches stay.                                                     *)
LEMMA BatchValue ==
  ASSUME NEW done, FirstTests(done), NEW bias \in Cts, NEW weights \in Cts
  PROVE  LET after == WithNextBatch(done, bias, weights)
         IN  /\ FirstTests(after)
             /\ \A t \in DOMAIN after :
                  /\ t \in DOMAIN Tests
                  /\ after[t] = IF t \in DOMAIN done THEN done[t]
                                ELSE Score(bias, weights, t)[0]
<1> DEFINE after == WithNextBatch(done, bias, weights)
           size == BatchSize(done)
<1>1. PICK n \in 0..NTest :
           /\ DOMAIN done = 0..(n - 1) /\ Cardinality(DOMAIN done) = n
           /\ size \in Nat /\ size <= Slots /\ n + size <= NTest
  BY BatchDomain
<1> DEFINE batch == EvalTotal([i \in 0..(size - 1) |->
                                  EvalRotate(Score(bias, weights, n + i), -i)])
<1>2. after = [t \in 0..(n + size - 1) |-> IF t < n THEN done[t] ELSE batch[t - n]]
  BY <1>1 DEF WithNextBatch
<1>3. n \in Nat /\ n + size \in 0..NTest /\ DOMAIN after = 0..(n + size - 1)
  BY <1>1, <1>2, Sizes
<1>4. DOMAIN Tests = 0..(NTest - 1)
  BY DataAssumption DEF NTest
<1>5. \A t \in DOMAIN after : t \in DOMAIN Tests /\ t \in Nat /\ (t \in DOMAIN done <=> t < n)
  BY <1>1, <1>3, <1>4, Sizes
<1>6. ASSUME NEW i \in 0..(size - 1)
      PROVE  /\ n + i \in DOMAIN Tests /\ i \in SlotIndex /\ -i \in Int
             /\ Score(bias, weights, n + i) \in Cts /\ Clean(Score(bias, weights, n + i), 1)
             /\ EvalRotate(Score(bias, weights, n + i), -i) \in Cts
             /\ \A s \in SlotIndex : EvalRotate(Score(bias, weights, n + i), -i)[s]
                                       = IF s = i THEN Score(bias, weights, n + i)[0] ELSE 0
  <2>1. n + i \in DOMAIN Tests /\ i \in SlotIndex /\ -i \in Int
    BY <1>1, <1>3, <1>4, Sizes DEF SlotIndex
  <2> DEFINE z == Score(bias, weights, n + i)
  <2>2. z \in Cts /\ Clean(z, 1)
    BY <2>1, ScoreValue
  <2> HIDE DEF z
  <2>3. EvalRotate(z, -i) \in Cts /\ \A s \in SlotIndex : EvalRotate(z, -i)[s] = IF s = i THEN z[0] ELSE 0
    BY <2>1, <2>2, RotateType, Placed
  <2>4. QED BY <2>1, <2>2, <2>3 DEF z
<1>7. ASSUME NEW i \in 0..(size - 1)
      PROVE  batch[i] = Score(bias, weights, n + i)[0]
  <2> DEFINE S == 0..(size - 1)
             cts == [j \in S |-> EvalRotate(Score(bias, weights, n + j), -j)]
             h == [j \in S |-> cts[j][i]]
  <2>1. i \in SlotIndex /\ DOMAIN cts = S /\ i \in S
    BY <1>6
  <2>2. batch[i] = Total(h)
    BY <2>1 DEF EvalTotal
  <2>3. \A j \in S : h[j] = IF i = j THEN Score(bias, weights, n + j)[0] ELSE 0
    BY <1>6, <2>1
  <2>4. Score(bias, weights, n + i)[0] \in Field
    <3> DEFINE z == Score(bias, weights, n + i)
    <3>1. z \in Cts
      BY <1>6
    <3> HIDE DEF z
    <3>2. z[0] \in Field
      BY <3>1, SlotsType DEF Cts
    <3>3. QED BY <3>2 DEF z
  <2> DEFINE y == Score(bias, weights, n + i)[0]
  <2>5. h[i] = y /\ y \in Field /\ \A j \in S : j # i => h[j] = 0
    BY <2>1, <2>3, <2>4
  <2>6. h \in [S -> Int]
    <3>1. y \in Int
      BY <2>5, FieldType
    <3>2. \A j \in S : h[j] \in Int
      <4> HIDE DEF h, y
      <4>1. QED BY <2>5, <3>1
    <3>3. QED BY <3>2
  <2>7. IsFiniteSet(S)
    BY <1>1, FS_Interval
  <2> HIDE DEF h, y, S, cts
  <2>8. SumFunction(h) = y
    BY <2>1, <2>5, <2>6, <2>7, SumSingle
  <2>9. Total(h) = y
    BY <2>5, <2>8, ReduceField DEF Total
  <2>10. QED BY <2>2, <2>9 DEF y
<1> HIDE DEF batch
<1>8. ASSUME NEW t \in DOMAIN after, ~(t < n)
      PROVE  after[t] = Score(bias, weights, t)[0]
  <2>1. t - n \in 0..(size - 1) /\ n + (t - n) = t
    BY <1>1, <1>3, <1>8
  <2>2. after[t] = batch[t - n]
    BY <1>2, <1>3, <1>8
  <2>3. batch[t - n] = Score(bias, weights, n + (t - n))[0]
    BY <1>7, <2>1
  <2>4. QED BY <2>1, <2>2, <2>3
<1>9. \A t \in DOMAIN after : t < n => after[t] = done[t]
  BY <1>2, <1>3
<1>10. FirstTests(after)
  <2> HIDE DEF after, size
  <2>1. PICK p \in 0..NTest : p = n + size
    BY <1>3
  <2>2. DOMAIN after = 0..(p - 1)
    BY <1>1, <1>3, <2>1, Sizes
  <2>3. QED BY <2>2 DEF FirstTests
<1> HIDE DEF after
<1>11. QED BY <1>5, <1>8, <1>9, <1>10 DEF after

-----------------------------------------------------------------------------
(* Which rotations have a key. *)

Keys == RotationIndices(Size, NTest, D)

(* Every positive index below the size of the system has a key.            *)
LEMMA LeftKeys == 1..(Size - 1) \subseteq Keys
  BY DEF Keys, RotationIndices

(* So has every negative one below the size or the number of test points.  *)
LEMMA RightKeys == ASSUME NEW j \in Nat, j < Size \/ j < NTest, j # 0
                   PROVE  -j \in Keys
<1>1. CASE Size > NTest
  <2>1. j \in 1..(Size - 1)
    BY <1>1, Sizes
  <2> QED
    BY <1>1, <2>1 DEF Keys, RotationIndices
<1>2. CASE ~(Size > NTest)
  <2>1. j \in 1..(NTest - 1)
    BY <1>2, Sizes
  <2> QED
    BY <1>2, <2>1 DEF Keys, RotationIndices
<1> QED
  BY <1>1, <1>2

(* safe_rotate in either direction.                                        *)
LEMMA SafeRotateLeft == ASSUME NEW j \in Nat, j < Size PROVE RotateKey(j) \subseteq Keys
  BY LeftKeys, Sizes DEF RotateKey
LEMMA SafeRotateRight == ASSUME NEW j \in Nat, j < Size \/ j < NTest
                         PROVE  RotateKey(-j) \subseteq Keys
<1>1. CASE j = 0
  BY <1>1 DEF RotateKey
<1>2. CASE j # 0
  <2>1. -j \in Keys
    BY <1>2, RightKeys
  <2> QED
    BY <2>1 DEF RotateKey
<1> QED
  BY <1>1, <1>2

(* The trees over the rows of the system and over the features.            *)
LEMMA TreesOfSize == SumKeys(Size) \cup ReplicateKeys(Size) \subseteq Keys
  BY DEF Keys, RotationIndices, SumKeys

LEMMA SumOfFeatures == SumKeys(D) \subseteq Keys
<1>1. CASE D > Size
  BY <1>1 DEF Keys, RotationIndices, SumKeys
<1>2. CASE ~(D > Size)
  <2>1. Steps(D) \subseteq 1..(Size - 1)
    BY <1>2, Sizes DEF Steps
  <2> QED
    BY <2>1, LeftKeys DEF SumKeys
<1> QED
  BY <1>1, <1>2

LEMMA ReplicateOverFeatures == ASSUME D <= Size \/ D <= NTest
                               PROVE  ReplicateKeys(D) \subseteq Keys
<1> SUFFICES ASSUME NEW st \in Steps(D) PROVE -st \in Keys
  BY DEF ReplicateKeys
<1>1. st \in Nat /\ st # 0 /\ (st < Size \/ st < NTest)
  BY Sizes DEF Steps
<1> QED
  BY <1>1, RightKeys

(* One batch of scores moves each of them to its slot, at most as many as   *)
(* there are test points.                                                   *)
LEMMA BatchRotations ==
  ASSUME NEW done, IsFiniteSet(DOMAIN done)
  PROVE  /\ Cardinality(DOMAIN done) \in Nat
         /\ BatchSize(done) \in Int /\ BatchSize(done) <= NTest
         /\ BatchKeys(done) \subseteq Keys
<1>1. Cardinality(DOMAIN done) \in Nat
  BY FS_CardinalityType
<1>2. BatchSize(done) \in Int /\ BatchSize(done) <= NTest
  BY <1>1, Sizes DEF BatchSize
<1>3. ASSUME NEW i \in 0..(BatchSize(done) - 1) PROVE RotateKey(-i) \subseteq Keys
  <2>1. i \in Nat /\ i < NTest
    BY <1>2, Sizes
  <2> QED
    BY <2>1, SafeRotateRight
<1> QED
  BY <1>1, <1>2, <1>3, SumOfFeatures DEF BatchKeys

(* The scores of the next batch again stand in finitely many places.        *)
LEMMA BatchFinite ==
  ASSUME NEW done, NEW bias, NEW weights, IsFiniteSet(DOMAIN done)
  PROVE  IsFiniteSet(DOMAIN WithNextBatch(done, bias, weights))
<1>1. Cardinality(DOMAIN done) + BatchSize(done) - 1 \in Int
  BY BatchRotations
<1>2. DOMAIN WithNextBatch(done, bias, weights)
        = 0..(Cardinality(DOMAIN done) + BatchSize(done) - 1)
  BY DEF WithNextBatch
<1> QED
  BY <1>1, <1>2, FS_Interval

(* A row of K and the multipliers are one shorter than the system.          *)
LEMMA TreesOfTrain == SumKeys(NTrain) \cup ReplicateKeys(NTrain) \subseteq Keys
<1>1. Steps(NTrain) \subseteq 1..(Size - 1)
  BY Sizes DEF Steps
<1>2. ASSUME NEW st \in Steps(NTrain) PROVE -st \in Keys
  <2>1. st \in Nat /\ st # 0 /\ st < Size
    BY <1>1, Sizes
  <2> QED
    BY <2>1, RightKeys
<1> QED
  BY <1>1, <1>2, LeftKeys DEF SumKeys, ReplicateKeys

(* A context loaded for inference has the number of features for the size   *)
(* of the matrix; that is enough for scoring.                               *)
LEMMA InferenceHasKeys ==
  ASSUME NEW done, IsFiniteSet(DOMAIN done)
  PROVE  BatchKeys(done) \subseteq RotationIndices(D, NTest, 0)
<1>1. SumKeys(D) \subseteq RotationIndices(D, NTest, 0)
  BY DEF SumKeys, RotationIndices
<1>2. BatchSize(done) \in Int /\ BatchSize(done) <= NTest
  BY BatchRotations
<1>3. ASSUME NEW i \in 0..(BatchSize(done) - 1), i # 0
      PROVE  -i \in RotationIndices(D, NTest, 0)
  <2>1. CASE D > NTest
    <3>1. i \in 1..(D - 1)
      BY <1>2, <1>3, <2>1, Sizes
    <3> QED
      BY <2>1, <3>1 DEF RotationIndices
  <2>2. CASE ~(D > NTest)
    <3>1. i \in 1..(NTest - 1)
      BY <1>2, <1>3, Sizes
    <3> QED
      BY <2>2, <3>1 DEF RotationIndices
  <2> QED
    BY <2>1, <2>2
<1>4. ASSUME NEW i \in 0..(BatchSize(done) - 1)
      PROVE  RotateKey(-i) \subseteq RotationIndices(D, NTest, 0)
  <2>1. CASE i = 0
    BY <2>1 DEF RotateKey
  <2>2. CASE i # 0
    BY <1>3, <2>2 DEF RotateKey
  <2> QED
    BY <2>1, <2>2
<1> QED
  BY <1>1, <1>4 DEF BatchKeys

-----------------------------------------------------------------------------
(* Numbers modulo P. *)

LEMMA FieldInt == Field \subseteq Int
BY PType

(* Numbers that are the same modulo P can stand for each other. *)
LEMMA Congruent ==
  ASSUME NEW m \in Int, NEW n \in Int, NEW z \in Int, Reduce(m) = Reduce(n)
  PROVE  /\ Reduce(m + z) = Reduce(n + z) /\ Reduce(z + m) = Reduce(z + n)
         /\ Reduce(m * z) = Reduce(n * z) /\ Reduce(z * m) = Reduce(z * n)
         /\ Reduce(z - m) = Reduce(z - n)
<1>1. Reduce(m + z) = Reduce(n + z) /\ Reduce(m * z) = Reduce(n * z)
  <2>1. /\ Reduce(Reduce(m) + z) = Reduce(m + z) /\ Reduce(Reduce(n) + z) = Reduce(n + z)
        /\ Reduce(Reduce(m) * z) = Reduce(m * z) /\ Reduce(Reduce(n) * z) = Reduce(n * z)
    BY ReduceAdd, ReduceMult
  <2> QED
    BY <2>1
<1>2. z + m = m + z /\ z + n = n + z /\ z * m = m * z /\ z * n = n * z
  OBVIOUS
<1>3. Reduce(z - m) = Reduce(z - n)
  <2>1. PICK g \in Int : m = P * g + Reduce(m)
    BY ReduceParts
  <2>2. PICK h \in Int : n = P * h + Reduce(n)
    BY ReduceParts
  <2> DEFINE j == Reduce(m)
  <2>3. j \in Int /\ P \in Int
    BY ReduceType, PType
  <2>4. m = P * g + j /\ n = P * h + j
    BY <2>1, <2>2
  <2> HIDE DEF j
  <2>5. h - g \in Int /\ z - n \in Int
    OBVIOUS
  <2>6. z - m = (z - n) + P * (h - g)
    BY <2>3, <2>4
  <2> QED
    BY <2>5, <2>6, ReduceShift
<1> QED
  BY <1>1, <1>2, <1>3

\* The difference of two such numbers is a multiple of P.
LEMMA CongruentShift ==
  ASSUME NEW m \in Int, NEW n \in Int, Reduce(m) = Reduce(n)
  PROVE  \E g \in Int : P * g \in Int /\ m = n + P * g
<1> DEFINE j == Reduce(m)
<1>1. PICK g \in Int : m = P * g + Reduce(m)
  BY ReduceParts
<1>2. PICK h \in Int : n = P * h + Reduce(n)
  BY ReduceParts
<1>3. j \in Int /\ P \in Int
  BY ReduceType, PType
<1>4. m = P * g + j /\ n = P * h + j
  BY <1>1, <1>2
<1> HIDE DEF j
<1>5. P * (g - h) \in Int /\ m = n + P * (g - h) /\ g - h \in Int
  BY <1>3, <1>4
<1> QED
  BY <1>5

\* One of them as a factor.
LEMMA CongruentTimes ==
  ASSUME NEW m \in Int, NEW n \in Int, NEW z \in Int, Reduce(m) = Reduce(n)
  PROVE  Reduce(m * z) = Reduce(n * z)
BY Congruent

\* Reducing twice is reducing once.
LEMMA FieldReduced ==
  ASSUME NEW m \in Int
  PROVE  Reduce(m) \in Int /\ Reduce(Reduce(m)) = Reduce(m)
<1>1. Reduce(m) \in Field
  BY ReduceType
<1> QED
  BY <1>1, ReduceField, FieldInt

\* Sums and differences of such numbers.
LEMMA CongruentSum ==
  ASSUME NEW m \in Int, NEW n \in Int, NEW m2 \in Int, NEW n2 \in Int,
         Reduce(m) = Reduce(m2), Reduce(n) = Reduce(n2)
  PROVE  Reduce(m + n) = Reduce(m2 + n2)
<1>1. Reduce(m + n) = Reduce(m2 + n)
  BY Congruent
<1>2. Reduce(m2 + n) = Reduce(m2 + n2)
  BY Congruent
<1> QED
  BY <1>1, <1>2

LEMMA CongruentMinus ==
  ASSUME NEW m \in Int, NEW n \in Int, NEW z \in Int, Reduce(m) = Reduce(n)
  PROVE  Reduce(z - m) = Reduce(z - n)
BY Congruent

\* What is zero modulo P.
LEMMA ZeroMultiple ==
  ASSUME NEW m \in Int
  PROVE  /\ Reduce(m) = 0 => \E g \in Int : P * g \in Int /\ m = P * g
         /\ (\E g \in Int : m = P * g) => Reduce(m) = 0
<1>1. P \in Int /\ Reduce(0) = 0
  BY PType, ReduceField
<1>2. ASSUME Reduce(m) = 0 PROVE \E g \in Int : P * g \in Int /\ m = P * g
  <2>1. PICK g \in Int : m = P * g + Reduce(m)
    BY ReduceParts
  <2>2. P * g \in Int /\ m = P * g
    BY <1>1, <1>2, <2>1
  <2> QED
    BY <2>2
<1>3. ASSUME NEW g \in Int, m = P * g PROVE Reduce(m) = 0
  <2>1. Reduce(0 + P * g) = Reduce(0)
    BY ReduceShift
  <2>2. 0 + P * g = m
    BY <1>3
  <2> QED
    BY <1>1, <2>1, <2>2
<1> QED
  BY <1>2, <1>3

LEMMA SquareZero ==
  ASSUME NEW m \in Int, Reduce(m) = 0
  PROVE  Reduce(m * m) = 0
<1>1. PICK g \in Int : m = P * g
  BY ZeroMultiple
<1>2. g * m \in Int /\ m * m \in Int /\ m * m = (P * g) * m
  BY <1>1
<1>3. (P * g) * m = P * (g * m)
  BY PType
<1> QED
  BY <1>2, <1>3, ZeroMultiple

(* The field has no divisors of zero, and 2 is not one. *)
LEMMA NonzeroProduct ==
  ASSUME NEW m \in Field \ {0}, NEW n \in Field \ {0}
  PROVE  Reduce(m * n) \in Field \ {0}
<1>1. m \in Int /\ n \in Int /\ m * n \in Int
  BY FieldInt
<1>2. Reduce(m * n) \in Field
  BY <1>1, ReduceType
<1> DEFINE inv == Reciprocal[n]
<1>3. inv \in Int /\ Reduce(n * inv) = 1
  BY ReciprocalType, FieldInt
<1> HIDE DEF inv
<1>4. ASSUME Reduce(m * n) = 0 PROVE FALSE
  <2>1. Reduce(0) = 0 /\ 0 \in Int
    BY PType, ReduceField
  <2>2. Reduce((m * n) * inv) = Reduce(0 * inv)
    BY <1>1, <1>3, <1>4, <2>1, CongruentTimes
  <2>3. (m * n) * inv = (n * inv) * m /\ 0 * inv = 0 /\ n * inv \in Int
    BY <1>1, <1>3
  <2>4. Reduce((n * inv) * m) = Reduce(Reduce(n * inv) * m)
    BY <1>1, <2>3, ReduceMult
  <2>5. Reduce(n * inv) * m = m
    BY <1>1, <1>3
  <2>6. Reduce(m) = m
    BY ReduceField
  <2> QED
    BY <2>1, <2>2, <2>3, <2>4, <2>5, <2>6
<1> QED
  BY <1>2, <1>4

\* P is an odd prime.
LEMMA TwoIsNotZero == 2 \in Field \ {0}
BY PType DEF Field

(* The square of a root; it is not zero if the square is not. *)
LEMMA SignedRoot ==
  ASSUME NEW ns \in Squares \ {0}, NEW sign \in {1, -1}
  PROVE  /\ Root[ns] \in Field \ {0} /\ sign * Root[ns] \in Int
         /\ Reduce((sign * Root[ns]) * (sign * Root[ns])) = ns
<1>1. Root[ns] \in Field /\ Reduce(Root[ns] * Root[ns]) = ns
  BY RootType
<1> DEFINE z == Root[ns]
<1>2. z \in Field /\ z \in Int /\ Reduce(z * z) = ns
  BY <1>1, FieldInt
<1> HIDE DEF z
<1>3. z # 0
  <2>1. Reduce(0) = 0
    BY PType, ReduceField
  <2>2. z = 0 => z * z = 0
    OBVIOUS
  <2> QED
    BY <1>2, <2>1, <2>2
<1>4. sign * z \in Int /\ (sign * z) * (sign * z) = z * z
  BY <1>2
<1> QED
  BY <1>2, <1>3, <1>4 DEF z

TwoOver(n) == Reduce(2 * Reciprocal[n])

\* tau is in the field, and tau times the squared length is two.
LEMMA TwoOverType ==
  ASSUME NEW n \in Field \ {0}
  PROVE  TwoOver(n) \in Field
<1> DEFINE inv == Reciprocal[n]
<1>1. inv \in Int
  BY ReciprocalType, FieldInt
<1> HIDE DEF inv
<1>2. 2 * inv \in Int
  BY <1>1
<1> QED
  BY <1>2, ReduceType DEF TwoOver, inv

LEMMA TwoOverTimes ==
  ASSUME NEW n \in Field \ {0}
  PROVE  Reduce(TwoOver(n) * n) = 2
<1> DEFINE inv == Reciprocal[n]
           two == 2 * inv
           ni == n * inv
<1>1. inv \in Int /\ n \in Int /\ Reduce(ni) = 1
  BY ReciprocalType, FieldInt
<1> HIDE DEF inv
<1>2. two \in Int /\ ni \in Int /\ two * n = ni * 2
  BY <1>1
<1>3. TwoOver(n) = Reduce(two)
  BY DEF TwoOver, two, inv
<1> HIDE DEF two, ni
<1>4. Reduce(Reduce(two) * n) = Reduce(two * n)
  BY <1>1, <1>2, ReduceMult
<1>5. Reduce(Reduce(ni) * 2) = Reduce(ni * 2)
  BY <1>2, ReduceMult
<1>6. Reduce(ni) * 2 = 2 /\ Reduce(2) = 2
  BY <1>1, TwoIsNotZero, ReduceField
<1> QED
  BY <1>2, <1>3, <1>4, <1>5, <1>6

(* One Householder reflection, in numbers: e is the pivot, rest the sum of   *)
(* the squares below it, first the pivot of the reflector, length what the   *)
(* reflector has for its square.                                             *)
PivotNumbers(e, rest, z, first, length, cross, twice) ==
  /\ e \in Int /\ rest \in Int /\ z \in Int
  /\ first = Reduce(e + z) /\ Reduce(z * z) = Reduce(e * e + rest)
  /\ length = first * first + rest /\ cross = (2 * z) * first
  /\ twice = 2 * (first * e + rest)

LEMMA PivotAlgebra ==
  ASSUME NEW e, NEW rest, NEW z, NEW first, NEW length, NEW cross, NEW twice,
         PivotNumbers(e, rest, z, first, length, cross, twice)
  PROVE  Reduce(length) = Reduce(cross) /\ Reduce(length) = Reduce(twice)
<1>0. /\ e \in Int /\ rest \in Int /\ z \in Int
      /\ first = Reduce(e + z) /\ Reduce(z * z) = Reduce(e * e + rest)
      /\ length = first * first + rest /\ cross = (2 * z) * first
      /\ twice = 2 * (first * e + rest)
  BY DEF PivotNumbers
<1> DEFINE ee == e * e
           ez == e * z
           zz == z * z
           fe == first * e
           fz == first * z
           ff == first * first
<1>1. e + z \in Int /\ first \in Field /\ first \in Int
  <2>1. e + z \in Int
    BY <1>0
  <2> QED
    BY <1>0, <2>1, ReduceType, FieldInt
<1>2. /\ ee \in Int /\ ez \in Int /\ zz \in Int /\ fe \in Int /\ fz \in Int /\ ff \in Int
      /\ (e + z) * e = ee + ez /\ (e + z) * z = ez + zz /\ (e + z) * first = fe + fz
  BY <1>0, <1>1
<1>1a. e \in Int /\ z \in Int
  BY <1>0
<1>3. Reduce(first) = Reduce(e + z)
  BY <1>0, <1>1, FieldReduced
<1>4. Reduce(fe) = Reduce(ee + ez)
  <2>1. Reduce(first * e) = Reduce((e + z) * e)
    BY ONLY <1>1, <1>3, <1>1a, CongruentTimes, Zenon
  <2> QED
    BY <1>2, <2>1
<1>5. Reduce(fz) = Reduce(ez + zz)
  <2>1. Reduce(first * z) = Reduce((e + z) * z)
    BY ONLY <1>1, <1>3, <1>1a, CongruentTimes, Zenon
  <2> QED
    BY <1>2, <2>1
<1>6. Reduce(ff) = Reduce(fe + fz)
  <2>1. Reduce(first * first) = Reduce((e + z) * first)
    BY ONLY <1>1, <1>3, <1>1a, CongruentTimes, Zenon
  <2> QED
    BY <1>2, <2>1
<1>7. Reduce(zz) = Reduce(ee + rest)
  BY <1>0
<1>8. (2 * z) * first = 2 * fz
  BY <1>0, <1>1
<1> HIDE DEF ee, ez, zz, fe, fz, ff
<1> DEFINE goal == 2 * ez + 2 * zz
<1>9. PICK g1 \in Int : P * g1 \in Int /\ fe = (ee + ez) + P * g1
  BY <1>2, <1>4, CongruentShift
<1>10. PICK g2 \in Int : P * g2 \in Int /\ fz = (ez + zz) + P * g2
  BY <1>2, <1>5, CongruentShift
<1>11. PICK g3 \in Int : P * g3 \in Int /\ ff = (fe + fz) + P * g3
  BY <1>2, <1>6, CongruentShift
<1>12. PICK g4 \in Int : P * g4 \in Int /\ zz = (ee + rest) + P * g4
  BY <1>0, <1>2, <1>7, CongruentShift
<1>13. P \in Int /\ goal \in Int
  BY <1>2, PType
<1>14. /\ ff + rest = goal + P * (g1 + g2 + g3 - g4)
       /\ 2 * fz = goal + P * (2 * g2)
       /\ 2 * (fe + rest) = goal + P * (2 * g1 - 2 * g4)
  BY <1>0, <1>2, <1>9, <1>10, <1>11, <1>12, <1>13
<1> HIDE DEF goal
<1>15. /\ Reduce(ff + rest) = Reduce(goal) /\ Reduce(2 * fz) = Reduce(goal)
       /\ Reduce(2 * (fe + rest)) = Reduce(goal)
  <2>1. g1 + g2 + g3 - g4 \in Int /\ 2 * g2 \in Int /\ 2 * g1 - 2 * g4 \in Int
    BY <1>9, <1>10, <1>11, <1>12
  <2>2. /\ Reduce(goal + P * (g1 + g2 + g3 - g4)) = Reduce(goal)
        /\ Reduce(goal + P * (2 * g2)) = Reduce(goal)
        /\ Reduce(goal + P * (2 * g1 - 2 * g4)) = Reduce(goal)
    BY ONLY <1>13, <2>1, ReduceShift, Zenon
  <2> QED
    BY ONLY <1>14, <2>2, Zenon
<1> QED
  BY <1>0, <1>8, <1>15 DEF ff, fe

\* The pivot becomes minus the signed norm.
LEMMA NewPivot ==
  ASSUME NEW e \in Int, NEW z \in Int, NEW first \in Int, first = Reduce(e + z),
         NEW m \in Int, Reduce(first - m) = 0, Reduce(e - m) = 0
  PROVE  Reduce(z) = 0
<1>1. e + z \in Int /\ first - m \in Int /\ e - m \in Int /\ P \in Int
  BY PType
<1>2. PICK g \in Int : e + z = P * g + first
  BY <1>1, ReduceParts
<1>3. PICK h \in Int : P * h \in Int /\ first - m = P * h
  BY <1>1, ZeroMultiple
<1>4. PICK i \in Int : P * i \in Int /\ e - m = P * i
  BY <1>1, ZeroMultiple
<1>5. g + h - i \in Int /\ z = P * (g + h - i)
  BY <1>1, <1>2, <1>3, <1>4
<1> QED
  BY <1>5, ZeroMultiple

\* The unknown of a row: the rest of its right-hand side over the pivot.
LEMMA RowValue ==
  ASSUME NEW e \in Field, NEW d \in Field, NEW n \in Field \ {0},
         NEW m, m = Reduce(Reduce(e - d) * Reciprocal[n])
  PROVE  m \in Field /\ Reduce(d + m * n) = e
<1> DEFINE inv == Reciprocal[n]
           diff == e - d
           in == n * inv
           mn == m * n
<1>1. inv \in Int /\ e \in Int /\ d \in Int /\ n \in Int /\ Reduce(in) = 1
  BY ReciprocalType, FieldInt
<1> HIDE DEF inv
<1>2. diff \in Int /\ in \in Int
  BY <1>1
<1>3. Reduce(diff) \in Int /\ Reduce(Reduce(diff)) = Reduce(diff)
  BY <1>2, FieldReduced
<1> DEFINE rd == Reduce(diff)
           prod == rd * inv
<1>4. m = Reduce(prod) /\ rd \in Int
  BY <1>3 DEF inv
<1> HIDE DEF diff, rd
<1>5. prod \in Int /\ prod * n = in * rd
  BY <1>1, <1>4
<1> HIDE DEF prod, in
<1>6. m \in Field /\ m \in Int
  BY <1>4, <1>5, ReduceType
<1>7. Reduce(Reduce(prod) * n) = Reduce(prod * n)
  BY <1>1, <1>5, ReduceMult
<1>8. Reduce(Reduce(in) * rd) = Reduce(in * rd)
  BY <1>2, <1>4, ReduceMult
<1>9. Reduce(in) * rd = rd
  BY <1>1, <1>4
<1>10. mn \in Int /\ Reduce(mn) = Reduce(diff)
  <2>1. Reduce(rd) = Reduce(diff)
    BY <1>3 DEF rd
  <2>2. mn \in Int
    BY <1>1, <1>6
  <2> QED
    BY <1>4, <1>5, <1>7, <1>8, <1>9, <2>1, <2>2
<1> HIDE DEF mn
<1>11. Reduce(d + mn) = Reduce(d + diff)
  BY ONLY <1>1, <1>2, <1>10, Congruent
<1>12. d + diff = e /\ Reduce(e) = e
  BY <1>1, ReduceField DEF diff
<1> QED
  BY <1>6, <1>11, <1>12 DEF mn

\* A quotient, and what it cancels.
LEMMA Quotient ==
  ASSUME NEW e \in Field, NEW n \in Field \ {0}, NEW m, m = Reduce(e * Reciprocal[n])
  PROVE  m \in Field /\ Reduce(m * n) = e
<1>1. e \in Int /\ n \in Int /\ 0 \in Field
  BY FieldInt, PType
<1>2. Reduce(e - 0) = e
  BY <1>1, ReduceField
<1>3. m = Reduce(Reduce(e - 0) * Reciprocal[n])
  BY <1>2
<1>4. m \in Field /\ Reduce(0 + m * n) = e
  BY ONLY <1>1, <1>3, e \in Field, n \in Field \ {0}, RowValue
<1>5. m \in Int
  BY <1>4, FieldInt
<1>6. 0 + m * n = m * n
  BY <1>1, <1>5
<1> QED
  BY <1>4, <1>6

LEMMA QuotientCancels ==
  ASSUME NEW e \in Field, NEW n \in Field \ {0}, NEW m, m = Reduce(e * Reciprocal[n])
  PROVE  m \in Field /\ Reduce(e + (-m) * n) = 0
<1>1. m \in Field /\ Reduce(m * n) = e
  BY Quotient
<1>2. m \in Int /\ n \in Int /\ e \in Int
  BY <1>1, FieldInt
<1> DEFINE mn == m * n
<1>3. mn \in Int /\ e + (-m) * n = e - mn
  BY <1>2
<1>4. Reduce(mn) = Reduce(e)
  BY <1>1, ReduceField
<1> HIDE DEF mn
<1>5. Reduce(e - mn) = Reduce(e - e)
  BY <1>2, <1>3, <1>4, CongruentMinus
<1>6. e - e = 0 /\ Reduce(0) = 0
  BY <1>2, PType, ReduceField
<1> QED
  BY <1>1, <1>3, <1>5, <1>6

\* Non-zero numbers have non-zero reciprocals, and cancel.
LEMMA ReciprocalNotZero ==
  ASSUME NEW n \in Field \ {0}
  PROVE  Reciprocal[n] \in Field \ {0}
<1> DEFINE inv == Reciprocal[n]
<1>1. inv \in Field /\ Reduce(n * inv) = 1
  BY ReciprocalType
<1> HIDE DEF inv
<1>2. inv # 0
  <2>1. SUFFICES ASSUME inv = 0 PROVE FALSE
    OBVIOUS
  <2>2. n * 0 = 0 /\ Reduce(0) = 0
    BY FieldInt, PType, ReduceField
  <2> QED
    BY <1>1, <2>1, <2>2
<1> QED
  BY <1>1, <1>2 DEF inv

LEMMA FactorCancels ==
  ASSUME NEW s \in Field \ {0}, NEW m \in Field, NEW n \in Field, Reduce(s * m) = Reduce(s * n)
  PROVE  m = n
<1> DEFINE inv == Reciprocal[s]
<1>1. inv \in Field /\ Reduce(s * inv) = 1
  BY ReciprocalType
<1> HIDE DEF inv
<1>2. s \in Int /\ m \in Int /\ n \in Int /\ inv \in Int
  BY <1>1, FieldInt
<1>3. ASSUME NEW e \in Field PROVE Reduce((s * e) * inv) = e
  <2>1. e \in Int
    BY FieldInt
  <2>2. s * inv \in Int /\ (s * e) * inv = (s * inv) * e
    BY <1>2, <2>1
  <2>3. Reduce(Reduce(s * inv) * e) = Reduce((s * inv) * e)
    BY <2>1, <2>2, ReduceMult
  <2>4. Reduce(s * inv) * e = e /\ Reduce(e) = e
    BY <1>1, <2>1, ReduceField
  <2> QED
    BY <2>2, <2>3, <2>4
<1> DEFINE sm == s * m
           sn == s * n
<1>4. sm \in Int
  BY <1>2
<1>5. sn \in Int
  BY <1>2
<1>6. Reduce(sm) = Reduce(sn)
  OBVIOUS
<1>7. inv \in Int
  BY <1>2
<1> HIDE DEF sm, sn
<1>8. Reduce(sm * inv) = Reduce(sn * inv)
  BY ONLY <1>4, <1>5, <1>6, <1>7, CongruentTimes
<1> QED
  BY <1>3, <1>8 DEF sm, sn

LEMMA FactorZero ==
  ASSUME NEW st \in Field \ {0}, NEW m \in Field, Reduce(0 + (-st) * m) = 0
  PROVE  m = 0
<1>1. SUFFICES ASSUME m # 0 PROVE FALSE
  OBVIOUS
<1> DEFINE sm == st * m
<1>2. st \in Int /\ m \in Int
  BY FieldInt
<1>3. sm \in Int /\ 0 + (-st) * m = -sm /\ P \in Int
  BY <1>2, PType
<1>4. Reduce(sm) # 0
  BY <1>1, NonzeroProduct
<1> HIDE DEF sm
<1>5. PICK g \in Int : -sm = P * g
  BY <1>3, ZeroMultiple
<1>6. sm = P * (-g) /\ -g \in Int
  BY <1>3, <1>5
<1>7. Reduce(sm) = 0
  BY <1>3, <1>6, ZeroMultiple
<1> QED
  BY <1>4, <1>7

-----------------------------------------------------------------------------
(* Sums over the rows from a pivot on. *)

(* The reflection of PlainQR, for a matrix and a pivot. *)

From(p) == p..(Size - 1)

\* The rows from the pivot on.
LEMMA FromType ==
  ASSUME NEW p \in Index
  PROVE  /\ From(p) \subseteq Index /\ IsFiniteSet(From(p)) /\ p \in From(p)
         /\ p \in Nat /\ p < Size
<1> USE Sizes
<1>1. From(p) \subseteq Index /\ p \in From(p) /\ p \in Nat /\ p < Size
  BY DEF From, Index
<1> QED
  BY <1>1, Indices, FS_Subset

(* A sum of products over the rows from the pivot on: the pivot and the rest. *)
LEMMA PivotAndRest ==
  ASSUME NEW p \in Index, NEW f \in [From(p) -> Int]
  PROVE  /\ SumFunction([i \in From(p) \ {p} |-> f[i]]) \in Int
         /\ Total(f) = Reduce(f[p] + SumFunction([i \in From(p) \ {p} |-> f[i]]))
<1>1. IsFiniteSet(From(p)) /\ p \in From(p)
  BY FromType
<1>2. SumFunction(f) = f[p] + SumFunction([i \in From(p) \ {p} |-> f[i]])
  BY <1>1, SumRemove
<1>3. IsFiniteSet(From(p) \ {p})
  BY <1>1, FS_Subset
<1> DEFINE h == [i \in From(p) \ {p} |-> f[i]]
<1>4. h \in [From(p) \ {p} -> Int]
  OBVIOUS
<1> HIDE DEF h
<1>5. SumFunction(h) \in Int
  BY <1>3, <1>4, SumInt
<1> QED
  BY <1>2, <1>5 DEF h, Total

(* Zeros do not count in a sum. *)
LEMMA SumSupport ==
  ASSUME NEW S, IsFiniteSet(S), NEW f \in [S -> Int], NEW T \in SUBSET S,
         \A i \in S \ T : f[i] = 0
  PROVE  SumFunction(f) = SumFunction([i \in T |-> f[i]])
<1>1. Adds(S, f)
  BY PartialSums
<1> DEFINE A == {Z \in SUBSET (S \ T) : Part(f, T \cup Z) = Part(f, T)}
<1>2. {} \in A
  <2>1. T \cup {} = T
    OBVIOUS
  <2> QED
    BY <2>1
<1>3. ASSUME NEW Z \in SUBSET (S \ T), NEW i \in S \ T, Z \in A, i \notin Z
      PROVE  Z \cup {i} \in A
  <2>1. T \cup Z \in SUBSET S /\ i \in S \ (T \cup Z) /\ T \cup (Z \cup {i}) = (T \cup Z) \cup {i}
        /\ Z \cup {i} \in SUBSET (S \ T)
    BY <1>3
  <2>2. Part(f, (T \cup Z) \cup {i}) = f[i] + Part(f, T \cup Z) /\ f[i] = 0
        /\ Part(f, T \cup Z) \in Int
    BY <1>1, <2>1 DEF Adds
  <2>3. Part(f, T \cup (Z \cup {i})) = Part(f, T \cup Z)
    <3>1. Part(f, (T \cup Z) \cup {i}) = Part(f, T \cup Z)
      BY ONLY <2>2
    <3> QED
      BY ONLY <2>1, <3>1, Zenon
  <2> QED
    BY <1>3, <2>1, <2>3
<1>4. IsFiniteSet(S \ T)
  BY FS_Subset
<1> HIDE DEF A
<1>5. S \ T \in A
  BY <1>2, <1>3, <1>4, PartInduction
<1>6. Part(f, T \cup (S \ T)) = Part(f, T)
  BY <1>5 DEF A
<1>7. T \cup (S \ T) = S
  OBVIOUS
<1> QED
  BY <1>1, <1>6, <1>7 DEF Adds, Part

\* A sum over the rows of the system: the first, and the others counted from 0.
LEMMA FirstAndRest ==
  ASSUME NEW f \in [Index -> Int], NEW g \in [0..(NTrain - 1) -> Int],
         \A i \in 0..(NTrain - 1) : g[i] = f[i + 1]
  PROVE  SumFunction(f) = f[0] + SumFunction(g)
<1> DEFINE S == 1..NTrain
           T == 0..(NTrain - 1)
           rest == [i \in S |-> f[i]]
           A == {n \in Nat : n <= NTrain => Part(rest, 1..n) = Part(g, 0..(n - 1))}
<1>1. NTrain \in Nat /\ Index \ {0} = S /\ S \subseteq Index
  BY Sizes DEF Index
<1>2. SumFunction(f) = f[0] + SumFunction(rest)
  <2>1. IsFiniteSet(Index) /\ 0 \in Index
    BY Indices
  <2>2. SumFunction(f) = f[0] + SumFunction([i \in Index \ {0} |-> f[i]])
    BY ONLY <2>1, f \in [Index -> Int], SumRemove
  <2> QED
    BY <1>1, <2>2
<1>3. rest \in [S -> Int] /\ IsFiniteSet(S) /\ IsFiniteSet(T)
  BY <1>1, FS_Interval
<1>4. \A n \in Nat : n < NTrain => rest[n + 1] = g[n]
  BY <1>1
<1> HIDE DEF rest
<1>5. Adds(S, rest) /\ Adds(T, g)
  BY <1>3, PartialSums
<1>6. Part(rest, {}) = 0 /\ Part(g, {}) = 0
  BY <1>5 DEF Adds
<1>7. 0 \in A
  BY <1>6
<1>8. ASSUME NEW n \in Nat, n \in A PROVE n + 1 \in A
  <2> SUFFICES ASSUME n + 1 <= NTrain
               PROVE  Part(rest, 1..(n + 1)) = Part(g, 0..n)
    OBVIOUS
  <2>1. Part(rest, 1..n) = Part(g, 0..(n - 1))
    BY <1>1, <1>8
  <2>2. /\ 1..(n + 1) = (1..n) \cup {n + 1} /\ 1..n \in SUBSET S /\ n + 1 \in S \ (1..n)
        /\ 0..n = (0..(n - 1)) \cup {n} /\ 0..(n - 1) \in SUBSET T /\ n \in T \ (0..(n - 1))
    BY <1>1
  <2> HIDE DEF S, T
  <2>3. Part(rest, 1..(n + 1)) = rest[n + 1] + Part(rest, 1..n)
    BY <1>5, <2>2 DEF Adds
  <2>4. Part(g, 0..n) = g[n] + Part(g, 0..(n - 1))
    BY <1>5, <2>2 DEF Adds
  <2>5. rest[n + 1] = g[n]
    BY <1>1, <1>4
  <2> QED
    BY <2>1, <2>3, <2>4, <2>5
<1> HIDE DEF A
<1>9. NTrain \in A
  BY <1>1, <1>7, <1>8, Induction
<1>10. Part(rest, S) = Part(g, T)
  BY <1>1, <1>9 DEF A
<1>11. SumFunction(rest) = SumFunction(g)
  BY <1>5, <1>10 DEF Adds
<1> QED
  BY <1>2, <1>11

\* A sum over all rows of terms that vanish above the pivot.
LEMMA TotalFrom ==
  ASSUME NEW p \in Index, NEW f \in [Index -> Field],
         NEW g \in [From(p) -> Field], NEW h \in [From(p) -> Field],
         \A s \in Index : f[s] = IF s \in From(p) THEN Reduce(g[s] * h[s]) ELSE 0
  PROVE  Total(f) = Total([i \in From(p) |-> g[i] * h[i]])
<1> DEFINE f1 == [i \in From(p) |-> f[i]]
           f2 == [i \in From(p) |-> g[i] * h[i]]
<1>1. From(p) \in SUBSET Index /\ IsFiniteSet(From(p)) /\ IsFiniteSet(Index)
      /\ f \in [Index -> Int]
  <2>1. \A s \in Index : f[s] \in Int
    BY FieldInt
  <2> QED
    BY <2>1, FromType, Indices
<1>2. SumFunction(f) = SumFunction(f1)
  BY <1>1, SumSupport
<1>3. \A i \in From(p) : g[i] \in Int /\ h[i] \in Int
  BY FieldInt
<1>4. \A i \in From(p) : g[i] * h[i] \in Int
  BY <1>3
<1>5. \A i \in From(p) : Reduce(g[i] * h[i]) \in Int /\ Reduce(Reduce(g[i] * h[i])) = Reduce(g[i] * h[i])
  BY <1>4, FieldReduced
<1>6. f1 \in [From(p) -> Int] /\ f2 \in [From(p) -> Int]
      /\ \A i \in From(p) : Reduce(f1[i]) = Reduce(f2[i])
  BY <1>1, <1>4, <1>5
<1> HIDE DEF f1, f2
<1>7. Total(f1) = Total(f2)
  BY ONLY <1>1, <1>6, SumCongruent
<1> QED
  BY <1>2, <1>7 DEF Total, f2

(* The sum of a family of products, in one slot. *)
LEMMA FamilyTotal ==
  ASSUME NEW S, IsFiniteSet(S), NEW family \in [S -> Cts], NEW s \in SlotIndex,
         NEW g \in [S -> Field], NEW h \in [S -> Field],
         \A i \in S : family[i][s] = Reduce(g[i] * h[i])
  PROVE  EvalTotal(family)[s] = Total([i \in S |-> g[i] * h[i]])
<1> DEFINE f1 == [i \in S |-> family[i][s]]
           f2 == [i \in S |-> g[i] * h[i]]
<1>1. \A i \in S : g[i] \in Int /\ h[i] \in Int
  BY FieldInt
<1>2. \A i \in S : g[i] * h[i] \in Int
  BY <1>1
<1>3. \A i \in S : Reduce(g[i] * h[i]) \in Int /\ Reduce(Reduce(g[i] * h[i])) = Reduce(g[i] * h[i])
  BY <1>2, FieldReduced
<1>4. f1 \in [S -> Int] /\ f2 \in [S -> Int] /\ \A i \in S : Reduce(f1[i]) = Reduce(f2[i])
  BY <1>2, <1>3
<1>5. EvalTotal(family)[s] = Total(f1)
  BY DEF EvalTotal
<1> HIDE DEF f1, f2
<1>6. Total(f1) = Total(f2)
  BY ONLY IsFiniteSet(S), <1>4, SumCongruent
<1> QED
  BY <1>5, <1>6 DEF f2

-----------------------------------------------------------------------------
(* What a reflection subtracts from an entry. *)

(* What one reflection makes of an entry. *)
Less(entry, t, m, y) == Reduce(entry - Reduce(Reduce(t * m) * y))

(* A slot of a ciphertext from which a multiple is subtracted. *)
LEMMA LessSlot ==
  ASSUME NEW ct, NEW tau, NEW vt, NEW total, NEW s \in SlotIndex,
         NEW t, tau[s] = t, NEW m, vt[s] = m, NEW y, total[s] = y
  PROVE  EvalSub(ct, EvalMult(EvalMult(tau, vt), total))[s] = Less(ct[s], t, m, y)
BY DEF EvalSub, EvalMult, Less

(* Subtracting nothing. *)
LEMMA LessNothing ==
  ASSUME NEW entry \in Field, NEW t \in Field, NEW y \in Field
  PROVE  Less(entry, t, 0, y) = entry
<1>1. t \in Int /\ y \in Int /\ entry \in Int /\ Reduce(0) = 0 /\ Reduce(entry) = entry
  BY FieldInt, PType, ReduceField
<1>2. t * 0 = 0 /\ 0 * y = 0 /\ entry - 0 = entry
  BY <1>1
<1> QED
  BY <1>1, <1>2 DEF Less

\* Subtracting a multiple of zero.
LEMMA LessZero ==
  ASSUME NEW entry \in Field, NEW t \in Field, NEW m \in Field
  PROVE  Less(entry, t, m, 0) = entry
<1>1. t \in Int /\ m \in Int /\ entry \in Int /\ Reduce(0) = 0 /\ Reduce(entry) = entry
  BY FieldInt, PType, ReduceField
<1>2. t * m \in Int
  BY <1>1
<1>3. Reduce(t * m) \in Int
  BY <1>2, FieldReduced
<1>4. Reduce(t * m) * 0 = 0 /\ entry - 0 = entry
  BY <1>1, <1>3
<1> QED
  BY <1>1, <1>4 DEF Less

(* The other things a reflection can subtract.                               *)
LEMMA LessItself ==
  ASSUME NEW entry \in Field, NEW t \in Field, NEW y \in Field, Reduce(t * y) = 1
  PROVE  Less(entry, t, entry, y) = 0
<1>1. t \in Int /\ y \in Int /\ entry \in Int /\ Reduce(0) = 0 /\ Reduce(entry) = entry
  BY FieldInt, PType, ReduceField
<1> DEFINE ty == t * y
           te == t * entry
<1>2. ty \in Int /\ te \in Int /\ te * y = ty * entry
  BY <1>1
<1>3. Reduce(ty) = 1
  OBVIOUS
<1> HIDE DEF ty, te
<1>4. Reduce(Reduce(te) * y) = Reduce(ty * entry)
  <2>1. te \in Int /\ y \in Int
    BY ONLY <1>1, <1>2
  <2>2. Reduce(Reduce(te) * y) = Reduce(te * y)
    BY ONLY <2>1, ReduceMult
  <2> QED
    BY ONLY <1>2, <2>2
<1>5. Reduce(ty * entry) = Reduce(Reduce(ty) * entry)
  BY <1>1, <1>2, ReduceMult
<1>6. Reduce(ty) * entry = entry
  BY <1>1, <1>3
<1>7. Reduce(Reduce(te) * y) = entry /\ entry - entry = 0
  BY <1>1, <1>4, <1>5, <1>6
<1> QED
  BY <1>1, <1>7 DEF Less, te

\* The multiple as PlainQR writes it.
LEMMA LessPlain ==
  ASSUME NEW entry \in Field, NEW n \in Field \ {0}, NEW m \in Field, NEW y \in Field
  PROVE  /\ Less(entry, TwoOver(n), m, y) = Reduce(entry - 2 * Reciprocal[n] * (m * y))
         /\ Less(entry, TwoOver(n), m, y) = Reduce(entry - 2 * Reciprocal[n] * (y * m))
<1> DEFINE inv == Reciprocal[n]
           two == 2 * inv
           my == m * y
           mt == two * m
           all == two * my
           tm == Reduce(two) * m
<1>1. inv \in Int /\ m \in Int /\ y \in Int /\ entry \in Int
  BY ReciprocalType, FieldInt
<1> HIDE DEF inv
<1>2. two \in Int /\ my \in Int /\ y * m = my
  BY <1>1
<1> HIDE DEF two, my
<1>3. mt \in Int /\ all \in Int /\ mt * y = all
  BY <1>1, <1>2 DEF my
<1> HIDE DEF mt, all
<1>4. tm \in Int /\ Reduce(tm) = Reduce(mt)
  <2>1. Reduce(two) \in Int
    BY <1>2, ReduceType
  <2> QED
    BY <1>1, <1>2, <2>1, ReduceMult DEF mt
<1> HIDE DEF tm
<1>5. Reduce(Reduce(tm) * y) = Reduce(all)
  <2>1. Reduce(Reduce(mt) * y) = Reduce(mt * y)
    BY <1>1, <1>3, ReduceMult
  <2> QED
    BY ONLY <1>3, <1>4, <2>1, Zenon
<1>6. Reduce(all) \in Int /\ Reduce(Reduce(all)) = Reduce(all)
  BY <1>3, FieldReduced
<1>7. Reduce(entry - Reduce(all)) = Reduce(entry - all)
  BY <1>1, <1>3, <1>6, Congruent
<1>8. Less(entry, TwoOver(n), m, y) = Reduce(entry - Reduce(Reduce(tm) * y))
  BY DEF Less, TwoOver, tm, two, inv
<1> QED
  BY <1>2, <1>5, <1>7, <1>8 DEF all, two, inv, my

\* The multiple in one product, in either order.
LEMMA LessValue ==
  ASSUME NEW entry \in Field, NEW t \in Field, NEW m \in Field, NEW y \in Field
  PROVE  /\ Less(entry, t, m, y) = Reduce(entry + (-(t * y)) * m)
         /\ Less(entry, t, m, y) = Less(entry, t, y, m)
         /\ Less(entry, t, m, y) \in Field
<1>1. t \in Int /\ m \in Int /\ y \in Int /\ entry \in Int
  BY FieldInt
<1>2. ASSUME NEW m0 \in Int, NEW y0 \in Int, NEW all, all = t * m0 * y0
      PROVE  Less(entry, t, m0, y0) = Reduce(entry - all)
  <2> DEFINE tm == t * m0
  <2>1. tm \in Int /\ all \in Int /\ tm * y0 = all
    BY <1>1, <1>2
  <2>1a. all \in Int /\ entry \in Int
    BY <1>1, <2>1
  <2> HIDE DEF tm
  <2>2. Reduce(Reduce(tm) * y0) = Reduce(all)
    BY <2>1, ReduceMult
  <2>3. Reduce(all) \in Int /\ Reduce(Reduce(all)) = Reduce(all)
    BY <2>1, FieldReduced
  <2>4. Reduce(entry - Reduce(all)) = Reduce(entry - all)
    <3> DEFINE m1 == Reduce(all)
    <3>1. m1 \in Int /\ Reduce(m1) = Reduce(all)
      BY <2>3
    <3> HIDE DEF m1
    <3>2. Reduce(entry - m1) = Reduce(entry - all)
      BY ONLY <2>1a, <3>1, CongruentMinus
    <3> QED
      BY <3>2 DEF m1
  <2> QED
    BY <2>2, <2>4 DEF Less, tm
<1> DEFINE prod == t * m * y
<1>3. /\ prod = t * m * y /\ prod = t * y * m /\ prod \in Int
      /\ entry - prod = entry + (-(t * y)) * m /\ entry - prod \in Int
  BY <1>1
<1> HIDE DEF prod
<1>4. Less(entry, t, m, y) = Reduce(entry - prod) /\ Less(entry, t, y, m) = Reduce(entry - prod)
  BY <1>1, <1>2, <1>3
<1>5. Reduce(entry - prod) \in Field
  BY <1>3, ReduceType
<1> QED
  BY <1>3, <1>4, <1>5

LEMMA LessSwap ==
  ASSUME NEW entry \in Field, NEW t \in Field, NEW m \in Field, NEW y \in Field
  PROVE  Less(entry, t, m, y) = Less(entry, t, y, m)
BY LessValue

-----------------------------------------------------------------------------
(* Lines of a system and their products. *)

\* Rows and columns of a system, and their products.
Line == [Index -> Field]

DotProduct(u, v) == Total([i \in Index |-> u[i] * v[i]])

LEMMA DotProducts ==
  ASSUME NEW y \in Line, NEW z \in Line
  PROVE  /\ [i \in Index |-> y[i] * z[i]] \in [Index -> Int]
         /\ DotProduct(y, z) \in Field /\ DotProduct(y, z) = DotProduct(z, y)
<1>1. \A i \in Index : y[i] \in Int /\ z[i] \in Int
  BY FieldInt DEF Line
<1>2. \A i \in Index : y[i] * z[i] \in Int /\ y[i] * z[i] = z[i] * y[i]
  BY <1>1
<1> DEFINE f == [i \in Index |-> y[i] * z[i]]
           g == [i \in Index |-> z[i] * y[i]]
<1>3. f \in [Index -> Int]
  BY <1>2
<1>4. f = g
  BY <1>2
<1> HIDE DEF f
<1>5. Total(f) \in Field
  BY <1>3, Indices, TotalType
<1> QED
  BY <1>3, <1>4, <1>5 DEF f, DotProduct

\* The product is linear in each of its lines.
LEMMA DotShift ==
  ASSUME NEW y \in Line, NEW z \in Line, NEW m \in Line, NEW n \in Int, NEW sum \in Line,
         \A i \in Index : sum[i] = Reduce(y[i] + n * m[i])
  PROVE  DotProduct(sum, z) = Reduce(DotProduct(y, z) + n * DotProduct(m, z))
<1> DEFINE f == [i \in Index |-> y[i] * z[i]]
           g == [i \in Index |-> m[i] * z[i]]
           ng == [i \in Index |-> n * g[i]]
           h == [i \in Index |-> f[i] + ng[i]]
           e == [i \in Index |-> sum[i] * z[i]]
<1>1. \A i \in Index : y[i] \in Int /\ z[i] \in Int /\ m[i] \in Int
  BY FieldInt DEF Line
<1>2. f \in [Index -> Int] /\ g \in [Index -> Int] /\ e \in [Index -> Int]
  BY DotProducts
<1>3. ng \in [Index -> Int]
  <2>1. \A i \in Index : g[i] \in Int
    BY <1>2
  <2> HIDE DEF g
  <2>2. \A i \in Index : n * g[i] \in Int
    BY <2>1
  <2> QED
    BY <2>2
<1>4. h \in [Index -> Int]
  <2>1. \A i \in Index : f[i] \in Int /\ ng[i] \in Int
    BY <1>2, <1>3
  <2> HIDE DEF f, ng
  <2>2. \A i \in Index : f[i] + ng[i] \in Int
    BY <2>1
  <2> QED
    BY <2>2
<1>5. ASSUME NEW i \in Index PROVE Reduce(h[i]) = Reduce(e[i])
  <2> DEFINE w1 == y[i] + n * m[i]
  <2>1. w1 \in Int /\ w1 * z[i] \in Int
    BY <1>1
  <2>2. h[i] = w1 * z[i]
    BY <1>1
  <2>3. e[i] = Reduce(w1) * z[i]
    OBVIOUS
  <2> HIDE DEF w1
  <2>4. Reduce(Reduce(w1) * z[i]) = Reduce(w1 * z[i])
    BY <1>1, <2>1, ReduceMult
  <2> QED
    BY <2>2, <2>3, <2>4
<1>6. \A i \in Index : h[i] = f[i] + ng[i]
  OBVIOUS
<1>6a. \A i \in Index : ng[i] = n * g[i]
  OBVIOUS
<1>7. DotProduct(y, z) = Total(f) /\ DotProduct(m, z) = Total(g) /\ DotProduct(sum, z) = Total(e)
  BY DEF DotProduct
<1>8. IsFiniteSet(Index)
  BY Indices
<1> HIDE DEF f, g, ng, h, e
<1>9. Total(h) = Total(e)
  BY ONLY <1>2, <1>4, <1>5, <1>8, SumCongruent
<1>10. SumFunction(h) = SumFunction(f) + SumFunction(ng)
  BY ONLY <1>2, <1>3, <1>4, <1>6, <1>8, SumPlus
<1>11. SumFunction(ng) = n * SumFunction(g)
  BY ONLY <1>2, <1>3, <1>6a, <1>8, SumScale
<1>12. SumFunction(f) \in Int /\ SumFunction(g) \in Int
  BY ONLY <1>2, <1>8, SumInt
<1> DEFINE F == SumFunction(f)
           G == SumFunction(g)
<1>13. F \in Int /\ G \in Int /\ Total(f) = Reduce(F) /\ Total(g) = Reduce(G)
       /\ Total(e) = Reduce(F + n * G)
  BY <1>9, <1>10, <1>11, <1>12 DEF Total
<1> HIDE DEF F, G
<1>14. Reduce(F + n * G) = Reduce(Reduce(F) + n * Reduce(G))
  <2>1. PICK i \in Int, j \in Int : F = P * i + Reduce(F) /\ G = P * j + Reduce(G)
    BY <1>13, ReduceParts
  <2>2. Reduce(F) \in Int /\ Reduce(G) \in Int /\ P \in Int
    BY <1>13, ReduceType, PType
  <2> DEFINE Fr == Reduce(F)
             Gr == Reduce(G)
  <2>3. Fr \in Int /\ Gr \in Int /\ F = P * i + Fr /\ G = P * j + Gr
    BY <2>1, <2>2
  <2> HIDE DEF Fr, Gr
  <2>4. F + n * G = (Fr + n * Gr) + P * (i + n * j)
    BY <2>2, <2>3
  <2>5. Fr + n * Gr \in Int /\ i + n * j \in Int
    BY <2>3
  <2>6. Reduce(F + n * G) = Reduce(Fr + n * Gr)
    BY <2>4, <2>5, ReduceShift
  <2> QED
    BY <2>6 DEF Fr, Gr
<1> QED
  BY <1>7, <1>13, <1>14

\* A line that vanishes above the pivot.
LEMMA DotFrom ==
  ASSUME NEW p \in Index, NEW g \in [From(p) -> Field], NEW h \in Line, NEW m \in Line,
         \A i \in Index : m[i] = IF i \in From(p) THEN g[i] ELSE 0
  PROVE  DotProduct(h, m) = Total([i \in From(p) |-> g[i] * h[i]])
<1> DEFINE f == [i \in Index |-> Reduce(h[i] * m[i])]
           e == [i \in Index |-> h[i] * m[i]]
           hf == [i \in From(p) |-> h[i]]
<1>1. \A i \in Index : h[i] \in Field /\ m[i] \in Field /\ h[i] \in Int /\ m[i] \in Int
  BY FieldInt DEF Line
<1>2. e \in [Index -> Int]
  BY DotProducts
<1>3. f \in [Index -> Field] /\ f \in [Index -> Int]
  <2>1. \A i \in Index : e[i] \in Int
    BY <1>2
  <2>2. \A i \in Index : f[i] = Reduce(e[i])
    OBVIOUS
  <2> HIDE DEF e
  <2>3. \A i \in Index : Reduce(e[i]) \in Field /\ Reduce(e[i]) \in Int
    BY <2>1, ReduceType
  <2> QED
    BY <2>2, <2>3
<1>4. Total(f) = Total(e)
  <2>1. \A i \in Index : Reduce(f[i]) = Reduce(e[i])
    <3>1. \A i \in Index : f[i] = Reduce(e[i]) /\ e[i] \in Int
      BY <1>2
    <3> HIDE DEF f, e
    <3> QED
      BY <3>1, FieldReduced
  <2>2. IsFiniteSet(Index)
    BY Indices
  <2> HIDE DEF f, e
  <2> QED
    BY ONLY <1>2, <1>3, <2>1, <2>2, SumCongruent
<1>5. hf \in [From(p) -> Field] /\ From(p) \subseteq Index
  BY <1>1, FromType
<1>6. \A s \in Index : f[s] = IF s \in From(p) THEN Reduce(g[s] * hf[s]) ELSE 0
  <2> SUFFICES ASSUME NEW s \in Index
               PROVE  f[s] = IF s \in From(p) THEN Reduce(g[s] * hf[s]) ELSE 0
    OBVIOUS
  <2>1. CASE s \in From(p)
    <3>1. m[s] = g[s] /\ h[s] * g[s] = g[s] * h[s]
      BY <1>1, <2>1
    <3> QED
      BY <2>1, <3>1
  <2>2. CASE s \notin From(p)
    <3>1. m[s] = 0 /\ h[s] * 0 = 0 /\ Reduce(0) = 0
      BY <1>1, <2>2, PType, ReduceField
    <3> QED
      BY <2>2, <3>1
  <2> QED
    BY <2>1, <2>2
<1>7. [i \in From(p) |-> g[i] * hf[i]] = [i \in From(p) |-> g[i] * h[i]]
  OBVIOUS
<1> HIDE DEF f, hf
<1>8. Total(f) = Total([i \in From(p) |-> g[i] * hf[i]])
  BY <1>3, <1>5, <1>6, TotalFrom
<1> QED
  BY <1>4, <1>7, <1>8 DEF DotProduct

\* The columns of a matrix.
Column(a, j) == [i \in Index |-> a[i][j]]

Columns(a) == [j \in Index |-> Column(a, j)]

LEMMA LinesOf ==
  ASSUME NEW a \in [Index -> [Index -> Field]], NEW i \in Index
  PROVE  /\ a[i] \in Line /\ Column(a, i) \in Line /\ Columns(a)[i] = Column(a, i)
         /\ \A j \in Index : Column(a, i)[j] = a[j][i]
BY DEF Line, Column, Columns

\* The rows of the identity, and orthonormal rows.
UnitLine(i) == [j \in Index |-> IF i = j THEN 1 ELSE 0]

Orthonormal(lines) ==
  \A i, j \in Index : DotProduct(lines[i], lines[j]) = UnitLine(i)[j]

\* A product with a row of the identity picks an entry.
LEMMA UnitLines ==
  ASSUME NEW i \in Index, NEW z \in Line
  PROVE  /\ UnitLine(i) \in Line
         /\ DotProduct(UnitLine(i), z) = z[i] /\ DotProduct(z, UnitLine(i)) = z[i]
<1>1. UnitLine(i) \in Line
  BY PType DEF UnitLine, Line
<1> DEFINE f == [j \in Index |-> UnitLine(i)[j] * z[j]]
<1>2. f \in [Index -> Int]
  BY <1>1, DotProducts
<1>3. \A j \in Index : z[j] \in Field /\ z[j] \in Int
  BY FieldInt DEF Line
<1>4. f[i] = z[i] /\ \A j \in Index : j # i => f[j] = 0
  <2>1. f[i] = 1 * z[i] /\ \A j \in Index : j # i => f[j] = 0 * z[j]
    BY DEF UnitLine
  <2>2. \A j \in Index : 1 * z[j] = z[j] /\ 0 * z[j] = 0
    BY <1>3
  <2> HIDE DEF f
  <2> QED
    BY <2>1, <2>2
<1>5. DotProduct(UnitLine(i), z) = Total(f)
  BY DEF DotProduct
<1> HIDE DEF f
<1>6. SumFunction(f) = z[i]
  BY <1>2, <1>4, Indices, SumSingle
<1>7. Total(f) = z[i]
  BY <1>3, <1>6, ReduceField DEF Total
<1> QED
  BY <1>1, <1>5, <1>7, DotProducts

\* Multiplying by a matrix on the one side or on the other.
LEMMA ThroughMatrix ==
  ASSUME NEW q \in [Index -> [Index -> Field]], NEW m \in Line, NEW e \in Line,
         NEW rho \in Line, \A i \in Index : rho[i] = DotProduct(q[i], m)
  PROVE  DotProduct(e, rho) = DotProduct([h \in Index |-> DotProduct(e, Column(q, h))], m)
<1>1. e \in [Index -> Int] /\ m \in [Index -> Int] /\ q \in [Index -> [Index -> Int]]
      /\ IsFiniteSet(Index)
  <2>1. \A i, j \in Index : q[i][j] \in Int
    BY FieldInt
  <2> QED
    BY <2>1, FieldInt, Indices DEF Line
<1>2. RowsFirst(Index, Index, e, q, m) = ColumnsFirst(Index, Index, e, q, m)
  BY ONLY <1>1, SumBilinear
<1>3. ColumnsFirst(Index, Index, e, q, m) = DotProduct(e, rho)
  <2>1. \A i \in Index : rho[i] = Total([j \in Index |-> q[i][j] * m[j]])
    BY DEF DotProduct
  <2> QED
    BY <2>1 DEF ColumnsFirst, DotProduct
<1>4. RowsFirst(Index, Index, e, q, m)
        = DotProduct([h \in Index |-> DotProduct(e, Column(q, h))], m)
  <2>1. ASSUME NEW h \in Index
        PROVE  DotProduct(e, Column(q, h)) = Total([i \in Index |-> e[i] * q[i][h]])
    <3>1. [i \in Index |-> e[i] * Column(q, h)[i]] = [i \in Index |-> e[i] * q[i][h]]
      BY DEF Column
    <3> QED
      BY <3>1 DEF DotProduct
  <2>2. [j \in Index |-> Total([i \in Index |-> e[i] * q[i][j]]) * m[j]]
          = [j \in Index |-> [h \in Index |-> DotProduct(e, Column(q, h))][j] * m[j]]
    BY <2>1
  <2> QED
    BY <2>2 DEF RowsFirst, DotProduct
<1> QED
  BY <1>2, <1>3, <1>4

\* The entries of a ciphertext that a line of the system meets.
OnIndex(ct) == [i \in Index |-> ct[i]]

LEMMA OnIndexType ==
  ASSUME NEW ct \in Cts
  PROVE  OnIndex(ct) \in Line /\ \A i \in Index : OnIndex(ct)[i] = ct[i]
BY Indices DEF OnIndex, Line, Cts

\* The numbers of two reflected lines: duv, y, z and l2 are the products of
\* the lines with each other and with the reflector.
TwoReflected(duv, t, y, z, l2, n1, n2, first, second, total) ==
  /\ duv \in Int /\ t \in Int /\ y \in Int /\ z \in Int /\ l2 \in Int
  /\ Reduce(t * l2) = 2
  /\ n1 = -(t * y) /\ n2 = -(t * z)
  /\ first = Reduce(duv + n2 * y) /\ second = Reduce(z + n2 * l2)
  /\ total = first + n1 * second

\* What the two lines gain and lose in the reflection cancels.
LEMMA ReflectedNumbers ==
  ASSUME NEW duv, NEW t, NEW y, NEW z, NEW l2, NEW n1, NEW n2, NEW first, NEW second, NEW total,
         TwoReflected(duv, t, y, z, l2, n1, n2, first, second, total)
  PROVE  Reduce(total) = Reduce(duv)
<1>0. /\ duv \in Int /\ t \in Int /\ y \in Int /\ z \in Int /\ l2 \in Int
      /\ Reduce(t * l2) = 2
      /\ n1 = -(t * y) /\ n2 = -(t * z)
      /\ first = Reduce(duv + n2 * y) /\ second = Reduce(z + n2 * l2)
      /\ total = first + n1 * second
  BY DEF TwoReflected
<1> DEFINE tl == t * l2
           ty == t * y
           tz == t * z
           tyz == t * y * z
           zl == z * tl
           sum1 == duv + n2 * y
           sum2 == z + n2 * l2
<1>1. /\ tl \in Int /\ ty \in Int /\ tz \in Int /\ tyz \in Int /\ zl \in Int
      /\ n1 \in Int /\ n2 \in Int
      /\ n2 * y = -tyz /\ ty * z = tyz /\ n2 * l2 = -zl
  BY <1>0
<1>2. sum1 \in Int /\ sum2 \in Int /\ sum1 = duv - tyz /\ sum2 = z - zl
  BY <1>0, <1>1
<1>3. PICK g \in Int : tl = P * g + 2
  <2>1. PICK g \in Int : tl = P * g + Reduce(tl)
    BY <1>1, ReduceParts
  <2> QED
    BY <1>0, <2>1
<1>4. zl = P * (z * g) + 2 * z /\ z * g \in Int /\ P \in Int
  <2> HIDE DEF tl
  <2>1. P \in Int
    BY PType
  <2>2. zl = z * (P * g + 2)
    BY <1>3
  <2>3. z * (P * g + 2) = P * (z * g) + 2 * z
    BY <1>0, <2>1
  <2> QED
    BY <1>0, <1>3, <2>1, <2>2, <2>3
<1> HIDE DEF tl, ty, tz, tyz, zl, sum1, sum2
<1> DEFINE zg == z * g
<1>5. zg \in Int /\ zl = P * zg + 2 * z
  BY <1>4
<1> HIDE DEF zg
<1>6. sum2 = (-z) + P * (-zg) /\ -z \in Int /\ -zg \in Int
  BY <1>0, <1>2, <1>4, <1>5
<1>7. second = Reduce(-z)
  <2>1. Reduce((-z) + P * (-zg)) = Reduce(-z)
    BY <1>6, ReduceShift
  <2> QED
    BY <1>0, <1>6, <2>1 DEF sum2
<1>8. second \in Int /\ first \in Int /\ first = Reduce(sum1) /\ Reduce(first) = Reduce(sum1)
      /\ Reduce(second) = Reduce(-z)
  <2>1. Reduce(sum1) \in Int /\ Reduce(Reduce(sum1)) = Reduce(sum1)
    BY <1>2, FieldReduced
  <2>2. Reduce(-z) \in Int /\ Reduce(Reduce(-z)) = Reduce(-z)
    BY <1>6, FieldReduced
  <2>3. first = Reduce(sum1)
    BY <1>0 DEF sum1
  <2> QED
    BY <1>7, <2>1, <2>2, <2>3
<1>9. Reduce(n1 * second) = Reduce(n1 * (-z)) /\ n1 * second \in Int /\ n1 * (-z) = tyz
  <2>1. Reduce(second * n1) = Reduce((-z) * n1)
    <3> DEFINE minus == -z
    <3>1. minus \in Int /\ second \in Int /\ n1 \in Int /\ Reduce(second) = Reduce(minus)
      BY <1>1, <1>6, <1>8
    <3> HIDE DEF minus
    <3>2. Reduce(second * n1) = Reduce(minus * n1)
      BY ONLY <3>1, CongruentTimes
    <3> QED
      BY <3>2 DEF minus
  <2>2. second * n1 = n1 * second /\ (-z) * n1 = n1 * (-z) /\ n1 * second \in Int
    BY <1>0, <1>1, <1>6, <1>8
  <2>3. n1 * (-z) = tyz
    BY <1>0, <1>1 DEF ty
  <2> QED
    BY <2>1, <2>2, <2>3
<1> DEFINE ns == n1 * second
<1>10. ns \in Int /\ Reduce(ns) = Reduce(tyz)
  BY <1>9
<1> HIDE DEF ns
<1>11. Reduce(first + ns) = Reduce(sum1 + tyz)
  <2>1. /\ first \in Int /\ ns \in Int /\ sum1 \in Int /\ tyz \in Int
        /\ Reduce(first) = Reduce(sum1) /\ Reduce(ns) = Reduce(tyz)
    BY <1>1, <1>2, <1>8, <1>10
  <2> QED
    BY ONLY <2>1, CongruentSum
<1>12. sum1 + tyz = duv
  BY <1>0, <1>1, <1>2
<1> QED
  BY <1>0, <1>11, <1>12 DEF ns

\* A reflection keeps the product of two lines.
LEMMA ReflectionKeepsProducts ==
  ASSUME NEW u1 \in Line, NEW v1 \in Line, NEW m \in Line, NEW t \in Field,
         NEW y \in Field, y = DotProduct(u1, m), NEW z \in Field, z = DotProduct(v1, m),
         Reduce(t * DotProduct(m, m)) = 2,
         NEW u2 \in Line, \A i \in Index : u2[i] = Less(u1[i], t, m[i], y),
         NEW v2 \in Line, \A i \in Index : v2[i] = Less(v1[i], t, m[i], z)
  PROVE  DotProduct(u2, v2) = DotProduct(u1, v1)
<1> DEFINE n1 == -(t * y)
           n2 == -(t * z)
           duv == DotProduct(u1, v1)
           l2 == DotProduct(m, m)
<1>1. t \in Int /\ y \in Int /\ z \in Int
  BY FieldInt
<1>2. n1 \in Int /\ n2 \in Int
  BY <1>1
<1>3. duv \in Field /\ duv \in Int /\ l2 \in Int
  BY DotProducts, FieldInt
<1>4. /\ \A i \in Index : u2[i] = Reduce(u1[i] + n1 * m[i])
      /\ \A i \in Index : v2[i] = Reduce(v1[i] + n2 * m[i])
  <2>1. \A i \in Index : u1[i] \in Field /\ v1[i] \in Field /\ m[i] \in Field
    BY DEF Line
  <2> SUFFICES ASSUME NEW i \in Index
               PROVE  u2[i] = Reduce(u1[i] + n1 * m[i]) /\ v2[i] = Reduce(v1[i] + n2 * m[i])
    OBVIOUS
  <2> DEFINE e1 == u1[i]
             e2 == v1[i]
             mi == m[i]
  <2>2. e1 \in Field /\ e2 \in Field /\ mi \in Field
    BY <2>1
  <2> HIDE DEF e1, e2, mi
  <2>3. /\ Less(e1, t, mi, y) = Reduce(e1 + (-(t * y)) * mi)
        /\ Less(e2, t, mi, z) = Reduce(e2 + (-(t * z)) * mi)
    BY <2>2, LessValue
  <2> QED
    BY <2>3 DEF e1, e2, mi
<1> HIDE DEF n1, n2
<1>5. DotProduct(u2, v2) = Reduce(DotProduct(u1, v2) + n1 * DotProduct(m, v2))
  BY <1>2, <1>4, DotShift
<1>6. DotProduct(v2, u1) = Reduce(DotProduct(v1, u1) + n2 * DotProduct(m, u1))
  BY <1>2, <1>4, DotShift
<1>7. DotProduct(v2, m) = Reduce(DotProduct(v1, m) + n2 * DotProduct(m, m))
  BY <1>2, <1>4, DotShift
<1>8. /\ DotProduct(u1, v2) = DotProduct(v2, u1) /\ DotProduct(m, v2) = DotProduct(v2, m)
      /\ DotProduct(v1, u1) = duv /\ DotProduct(m, u1) = y
  BY DotProducts
<1>9. /\ DotProduct(u1, v2) = Reduce(duv + n2 * y)
      /\ DotProduct(m, v2) = Reduce(z + n2 * l2)
  BY <1>6, <1>7, <1>8
<1> HIDE DEF duv, l2
<1>10. Reduce(t * l2) = 2 /\ n1 = -(t * y) /\ n2 = -(t * z)
  BY DEF l2, n1, n2
<1> DEFINE first == DotProduct(u1, v2)
           second == DotProduct(m, v2)
           total == first + n1 * second
<1>11. TwoReflected(duv, t, y, z, l2, n1, n2, first, second, total)
  BY <1>1, <1>3, <1>9, <1>10 DEF TwoReflected
<1> HIDE DEF total
<1>12. Reduce(total) = Reduce(duv)
  BY <1>11, ReflectedNumbers
<1>13. Reduce(duv) = duv
  BY <1>3, ReduceField
<1> QED
  BY <1>5, <1>12, <1>13 DEF total, duv
=============================================================================
