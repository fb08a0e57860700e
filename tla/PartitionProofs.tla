--------------------------- MODULE PartitionProofs ---------------------------
(***************************************************************************)
(* Proofs about module Partition, for every set of samples, number of      *)
(* clients and configured cap.  The counting arguments are here: k clients *)
(* at the cap hold all samples, so that the dealing never gives up; and    *)
(* when no client has two samples and one has none, there are fewer        *)
(* samples than clients, so that the largest client can always spare one.  *)
(***************************************************************************)
EXTENDS Partition, FiniteSetTheorems, FunctionTheorems, TLAPS

USE DEF Client

-----------------------------------------------------------------------------
(* Arithmetic and counting. *)

(* -(-a // b) is a / b rounded up: b of them are at least a. *)
LEMMA CeilDivBounds ==
  ASSUME NEW a \in Nat, NEW b \in Nat \ {0}
  PROVE  CeilDiv(a, b) \in Int /\ b * CeilDiv(a, b) >= a
<1> DEFINE q == (-a) \div b
<1>1. q \in Int /\ b * q <= -a
  OBVIOUS
<1>2. CeilDiv(a, b) = -q
  BY DEF CeilDiv
<1>3. b * (-q) = -(b * q) /\ b * q \in Int
  BY <1>1
<1> HIDE DEF q
<1>4. QED BY <1>1, <1>2, <1>3

(* ... and it is the least number with that property. *)
LEMMA CeilDivLeast ==
  ASSUME NEW a \in Nat, NEW b \in Nat \ {0}, NEW s \in Int, b * s >= a
  PROVE  CeilDiv(a, b) <= s
<1> DEFINE q == (-a) \div b
<1>1. q \in Int /\ b * q > -a - b
  OBVIOUS
<1>2. CeilDiv(a, b) = -q
  BY DEF CeilDiv
<1> HIDE DEF q
<1>3. b * (q + s + 1) = b * q + b * s + b /\ b * q \in Int /\ b * s \in Int
  BY <1>1
<1>4. b * (q + s + 1) > 0
  BY <1>1, <1>3
<1>5. \A x \in Int : x <= 0 => b * x <= 0
  OBVIOUS
<1>6. q + s + 1 \in Int /\ q + s + 1 > 0
  BY <1>1, <1>4, <1>5
<1>7. QED BY <1>1, <1>2, <1>6

(* A chunk of n samples is less than one above n / k. *)
LEMMA ChunkBound ==
  ASSUME NEW n \in Nat, NEW i \in Client
  PROVE  Chunk(n, i) \in Nat /\ NClients * Chunk(n, i) <= n + NClients - 1
<1> DEFINE q == n \div NClients  r == n % NClients
<1>1. NClients \in Nat \ {0}
  BY PartitionAssumption
<1>2. q \in Nat /\ r \in Nat /\ r < NClients /\ n = NClients * q + r
  BY <1>1
<1>3. Chunk(n, i) = q + (IF i < r THEN 1 ELSE 0)
  BY DEF Chunk
<1> HIDE DEF q, r
<1>4. NClients * (q + 1) = NClients * q + NClients /\ NClients * (q + 0) = NClients * q
      /\ NClients * q \in Int
  BY <1>1, <1>2
<1>5. CASE i < r
  <2>1. Chunk(n, i) = q + 1 /\ r >= 1
    BY <1>2, <1>3, <1>5
  <2>2. QED BY <2>1, <1>1, <1>2, <1>4
<1>6. CASE ~(i < r)
  BY <1>1, <1>2, <1>3, <1>4, <1>6
<1>7. QED BY <1>5, <1>6

(* All sets of samples are finite and no larger than the whole. *)
LEMMA SampleFinite ==
  /\ IsFiniteSet(Sample) /\ Total \in Nat
  /\ \A S \in SUBSET Sample : IsFiniteSet(S) /\ Cardinality(S) \in Nat
                              /\ Cardinality(S) <= Total
<1>1. IsFiniteSet(Sample)
  BY PartitionAssumption, FS_Union DEF Sample
<1>2. QED BY <1>1, FS_Subset, FS_CardinalityType DEF Total

(* k clients at the cap have room for every sample. *)
LEMMA CapFits ==
  Cap \in Nat /\ Cap >= 1 /\ NClients * Cap >= Total
<1> DEFINE even == CeilDiv(Total, NClients)
<1>1. even \in Int /\ NClients * even >= Total
  BY CeilDivBounds, SampleFinite, PartitionAssumption
<1>2. Cap = IF even > MaxSize THEN even ELSE MaxSize
  BY DEF Cap
<1> HIDE DEF even
<1>3. Cap \in Nat /\ Cap >= 1 /\ Cap >= even
  BY <1>1, <1>2, PartitionAssumption
<1>4. NClients * Cap >= NClients * even
  <2>1. \A k, x, y \in Int : k >= 0 /\ x >= y => k * x >= k * y
    OBVIOUS
  <2>2. QED BY <2>1, <1>1, <1>3, PartitionAssumption
<1>5. NClients * Cap \in Int /\ NClients * even \in Int
  BY <1>1, <1>3, PartitionAssumption
<1>6. QED BY <1>1, <1>3, <1>4, <1>5, SampleFinite

(* There are k clients. *)
LEMMA ClientFinite ==
  IsFiniteSet(Client) /\ Cardinality(Client) = NClients
<1>1. 0 \in Int /\ NClients - 1 \in Int /\ NClients - 1 >= 0
  BY PartitionAssumption
<1>2. QED BY <1>1, FS_Interval, PartitionAssumption

(* When every client is at the cap, no sample is left over: k times the cap *)
(* distinct samples are as many as there are.                               *)
LEMMA FullMeansNothingLeft ==
  ASSUME NEW p \in [Client -> SUBSET Sample], NEW left \in SUBSET Sample,
         \A i, j \in Client : i # j => p[i] \cap p[j] = {},
         \A i \in Client : p[i] \cap left = {},
         \A i \in Client : Cardinality(p[i]) >= Cap
  PROVE  left = {}
<1> SUFFICES ASSUME NEW s \in left PROVE FALSE
  OBVIOUS
<1> DEFINE seat(i) == CHOOSE f : f \in Injection(1 .. Cap, p[i])
<1>1. ASSUME NEW i \in Client
      PROVE  seat(i) \in Injection(1 .. Cap, p[i])
  <2>1. IsFiniteSet(p[i]) /\ Cardinality(p[i]) \in Nat
    BY SampleFinite
  <2>2. PICK f : f \in Bijection(1 .. Cardinality(p[i]), p[i])
    BY <2>1, FS_CardinalityType DEF ExistsBijection
  <2>3. 1 .. Cap \subseteq 1 .. Cardinality(p[i])
    BY <2>1, CapFits
  <2>4. [n \in 1 .. Cap |-> f[n]] \in Injection(1 .. Cap, p[i])
    BY <2>2, <2>3 DEF Bijection, Injection, IsInjective
  <2>5. QED BY <2>4
<1> DEFINE g == [x \in Client \X (1 .. Cap) |-> seat(x[1])[x[2]]]
<1>2. ASSUME NEW x \in Client \X (1 .. Cap)
      PROVE  g[x] \in p[x[1]] /\ g[x] \in Sample \ {s}
  <2>1. seat(x[1]) \in [1 .. Cap -> p[x[1]]]
    BY <1>1 DEF Injection
  <2> HIDE DEF seat
  <2>2. QED BY <2>1
<1>3. ASSUME NEW x \in Client \X (1 .. Cap), NEW y \in Client \X (1 .. Cap),
             g[x] = g[y]
      PROVE  x = y
  <2>1. x[1] = y[1]
    <3>1. g[x] \in p[x[1]] /\ g[y] \in p[y[1]]
      BY <1>2
    <3> HIDE DEF g
    <3>2. QED BY <3>1, <1>3
  <2>2. seat(x[1]) \in Injection(1 .. Cap, p[x[1]])
    BY <1>1
  <2> HIDE DEF seat
  <2>3. seat(x[1])[x[2]] = seat(x[1])[y[2]]
    BY <1>3, <2>1
  <2>4. x[2] = y[2]
    BY <2>2, <2>3 DEF Injection, IsInjective
  <2>5. QED BY <2>1, <2>4
<1>4. g \in Injection(Client \X (1 .. Cap), Sample \ {s})
  <2>1. g \in [Client \X (1 .. Cap) -> Sample \ {s}]
    BY <1>2
  <2> HIDE DEF g
  <2>2. QED BY <2>1, <1>3 DEF Injection, IsInjective
<1> HIDE DEF g
<1>5. IsFiniteSet(Sample \ {s}) /\ Cardinality(Sample \ {s}) = Total - 1
  BY SampleFinite, FS_RemoveElement DEF Total
<1>6. Cardinality(Client \X (1 .. Cap)) <= Total - 1
  BY <1>4, <1>5, FS_Injection
<1>7. Cardinality(Client \X (1 .. Cap)) = NClients * Cap
  <2>1. 1 \in Int /\ Cap \in Int /\ Cap >= 1
    BY CapFits
  <2>2. IsFiniteSet(1 .. Cap) /\ Cardinality(1 .. Cap) = Cap
    BY <2>1, FS_Interval
  <2> DEFINE T == 1 .. Cap
  <2> HIDE DEF T, Client
  <2>3. IsFiniteSet(T) /\ Cardinality(T) = Cap
    BY <2>2 DEF T
  <2>4. Cardinality(Client \X T) = NClients * Cap
    BY <2>3, ClientFinite, FS_Product
  <2>5. QED BY <2>4 DEF T
<1>8. NClients * Cap \in Int
  BY CapFits, PartitionAssumption
<1>9. QED BY <1>6, <1>7, <1>8, CapFits, SampleFinite

(* When no client has two samples and one has none, the samples are fewer   *)
(* than the clients.                                                        *)
LEMMA SomeoneHasTwo ==
  ASSUME NEW p \in [Client -> SUBSET Sample], NEW i \in Client, p[i] = {},
         UNION {p[h] : h \in Client} = Sample,
         \A h \in Client : Cardinality(p[h]) <= 1
  PROVE  Total < NClients
<1> DEFINE owner == [s \in Sample |-> CHOOSE h \in Client : s \in p[h]]
<1>1. ASSUME NEW s \in Sample
      PROVE  owner[s] \in Client \ {i} /\ s \in p[owner[s]]
  <2>1. \E h \in Client : s \in p[h]
    OBVIOUS
  <2>2. QED BY <2>1
<1> HIDE DEF owner
<1>2. ASSUME NEW s \in Sample, NEW t \in Sample, owner[s] = owner[t]
      PROVE  s = t
  <2> DEFINE S == p[owner[s]]
  <2>1. S \in SUBSET Sample /\ s \in S /\ t \in S /\ Cardinality(S) <= 1
    BY <1>1, <1>2
  <2>2. IsFiniteSet(S) /\ Cardinality(S) \in Nat
    BY <2>1, SampleFinite
  <2> HIDE DEF S
  <2>3. Cardinality(S) = 1
    BY <2>1, <2>2, FS_EmptySet
  <2>4. QED BY <2>1, <2>2, <2>3, FS_Singleton
<1>3. owner \in Injection(Sample, Client \ {i})
  <2>1. owner \in [Sample -> Client \ {i}]
    BY <1>1 DEF owner
  <2>2. QED BY <2>1, <1>2 DEF Injection, IsInjective
<1>4. IsFiniteSet(Client \ {i}) /\ Cardinality(Client \ {i}) = NClients - 1
  BY ClientFinite, FS_RemoveElement
<1>5. QED
  BY <1>3, <1>4, FS_Injection, SampleFinite, PartitionAssumption DEF Total

-----------------------------------------------------------------------------
(* The inductive invariant. *)

(* Every sample is with a client or in the overflow, which is not there     *)
(* before the split and not any more when the empty clients are filled.     *)
Placed ==
  /\ phase = "split" => overflow = {}
  /\ phase # "split" => overflow \cup UNION {part[i] : i \in Client} = Sample
  /\ phase \in {"fill", "done"} => overflow = {}

(* A round that has dealt nothing so far has only met full clients. *)
Stuck ==
  /\ phase \in {"split", "trim"} => visited = {}
  /\ phase = "deal" /\ ~progressed => \A i \in visited : Size(i) >= Cap

(* Exactly the clients that still wait are empty, if any has to be. *)
Filling ==
  /\ phase \in {"fill", "done"} =>
       /\ \A i \in empties : part[i] = {}
       /\ Total >= NClients => \A i \in Client \ empties : part[i] # {}
  /\ phase = "done" => empties = {}

PartInv == TypeOK /\ Disjoint /\ Placed /\ Stuck /\ Capped /\ Filling

(* Nothing is placed anywhere at the start. *)
LEMMA PartInit == Init => PartInv
  BY DEF Init, PartInv, TypeOK, Disjoint, Placed, Stuck, Capped, Filling

(* Every step keeps the types. *)
LEMMA TypeNext == TypeOK /\ [Next]_vars => TypeOK'
<1> SUFFICES ASSUME TypeOK, [Next]_vars PROVE TypeOK'
  OBVIOUS
<1> USE DEF TypeOK
<1>1. CASE SplitIid
  BY <1>1 DEF SplitIid, OwnedBy, dealVars
<1>2. CASE SplitDirichlet
  BY <1>2 DEF SplitDirichlet, OwnedBy, dealVars
<1>3. ASSUME NEW i \in Client, Trim(i) PROVE TypeOK'
  BY <1>3 DEF Trim, dealVars
<1>4. ASSUME NEW i \in Client, Deal(i) PROVE TypeOK'
  BY <1>4 DEF Deal
<1>5. ASSUME NEW i \in Client, Pass(i) PROVE TypeOK'
  BY <1>5 DEF Pass
<1>6. CASE Trimmed \/ NewRound \/ Dealt \/ Filled
  BY <1>6 DEF Trimmed, NewRound, Dealt, Filled, dealVars
<1>7. ASSUME NEW i \in Client, NEW j \in Client, Fill(i, j) PROVE TypeOK'
  BY <1>7 DEF Fill, dealVars
<1>8. CASE UNCHANGED vars
  BY <1>8 DEF vars, dealVars
<1>9. QED
  BY <1>1, <1>2, <1>3, <1>4, <1>5, <1>6, <1>7, <1>8 DEF Next, Split, Cut

(* A step of filling moves one sample of a client that has some to one that *)
(* has none.                                                                *)
LEMMA FillMoves ==
  ASSUME TypeOK, Filling, NEW i \in Client, NEW j \in Client, Fill(i, j),
         part' # part
  PROVE  /\ i # j /\ part[i] = {}
         /\ \E s \in part[j] :
              part' = [part EXCEPT ![j] = part[j] \ {s}, ![i] = {s}]
<1>1. part[i] = {}
  BY DEF Fill, Filling
<1>2. PICK s \in part[j] : part' = [part EXCEPT ![j] = part[j] \ {s}, ![i] = {s}]
  BY DEF Fill
<1>3. QED BY <1>1, <1>2

(* No step gives one sample to two. *)
LEMMA DisjointNext ==
  TypeOK /\ Disjoint /\ Filling /\ Placed /\ [Next]_vars => Disjoint'
<1> SUFFICES ASSUME TypeOK, Disjoint, Filling, Placed, [Next]_vars
             PROVE  Disjoint'
  OBVIOUS
<1> USE DEF Disjoint
<1>1. CASE SplitIid
  BY <1>1 DEF SplitIid, OwnedBy, Placed
<1>2. CASE SplitDirichlet
  BY <1>2 DEF SplitDirichlet, OwnedBy, Placed
<1>3. ASSUME NEW i \in Client, Trim(i) PROVE Disjoint'
  <2>1. PICK kept \in SUBSET part[i] :
          /\ part' = [part EXCEPT ![i] = kept]
          /\ overflow' = overflow \cup (part[i] \ kept)
    BY <1>3 DEF Trim
  <2>2. \A h \in Client : part'[h] = IF h = i THEN kept ELSE part[h]
    BY <2>1 DEF TypeOK
  <2>3. QED BY <2>1, <2>2
<1>4. ASSUME NEW i \in Client, Deal(i) PROVE Disjoint'
  <2>1. PICK s \in overflow :
          /\ part' = [part EXCEPT ![i] = @ \cup {s}]
          /\ overflow' = overflow \ {s}
    BY <1>4 DEF Deal
  <2>2. \A h \in Client : part'[h] = IF h = i THEN part[i] \cup {s} ELSE part[h]
    BY <2>1 DEF TypeOK
  <2>3. QED BY <2>1, <2>2
<1>5. ASSUME NEW i \in Client, NEW j \in Client, Fill(i, j) PROVE Disjoint'
  <2>1. CASE part' = part
    BY <1>5, <2>1 DEF Fill
  <2>2. CASE part' # part
    <3>1. PICK s \in part[j] :
            part' = [part EXCEPT ![j] = part[j] \ {s}, ![i] = {s}]
      BY <1>5, <2>2, FillMoves
    <3>2. \A h \in Client : part'[h] = IF h = i THEN {s}
                                      ELSE IF h = j THEN part[j] \ {s}
                                      ELSE part[h]
      BY <3>1 DEF TypeOK
    <3>3. overflow' = overflow
      BY <1>5 DEF Fill
    <3>4. QED BY <3>2, <3>3
  <2>3. QED BY <2>1, <2>2
<1>6. CASE (\E i \in Client : Pass(i)) \/ Trimmed \/ NewRound \/ Dealt \/ Filled
           \/ UNCHANGED vars
  BY <1>6 DEF Pass, Trimmed, NewRound, Dealt, Filled, vars
<1>7. QED
  BY <1>1, <1>2, <1>3, <1>4, <1>5, <1>6 DEF Next, Split, Cut

(* A whole round in which nobody had room leaves nothing to deal. *)
LEMMA RoundsSuffice ==
  ASSUME TypeOK, Disjoint, Stuck, phase = "deal", visited = Client, ~progressed
  PROVE  overflow = {}
<1>1. \A i \in Client : Cardinality(part[i]) >= Cap
  BY DEF Stuck, Size
<1>2. QED BY <1>1, FullMeansNothingLeft DEF TypeOK, Disjoint

(* No step loses a sample, and dealing ends with an empty overflow. *)
LEMMA PlacedNext == PartInv /\ [Next]_vars => Placed'
<1> SUFFICES ASSUME PartInv, [Next]_vars PROVE Placed'
  OBVIOUS
<1> USE DEF Placed
<1>t. TypeOK /\ Disjoint /\ Placed /\ Stuck /\ Filling
  BY DEF PartInv
<1>1. CASE SplitIid
  BY <1>1, <1>t DEF SplitIid, OwnedBy
<1>2. CASE SplitDirichlet
  BY <1>2, <1>t DEF SplitDirichlet, OwnedBy
<1>3. ASSUME NEW i \in Client, Trim(i) PROVE Placed'
  <2>1. PICK kept \in SUBSET part[i] :
          /\ part' = [part EXCEPT ![i] = kept]
          /\ overflow' = overflow \cup (part[i] \ kept)
    BY <1>3 DEF Trim
  <2>2. \A h \in Client : part'[h] = IF h = i THEN kept ELSE part[h]
    BY <2>1, <1>t DEF TypeOK
  <2>3. phase = "trim" /\ phase' = "trim"
    BY <1>3 DEF Trim
  <2>4. overflow' \cup UNION {part'[h] : h \in Client}
          = overflow \cup UNION {part[h] : h \in Client}
    BY <2>1, <2>2
  <2>5. QED BY <2>3, <2>4, <1>t
<1>4. ASSUME NEW i \in Client, Deal(i) PROVE Placed'
  <2>1. PICK s \in overflow :
          /\ part' = [part EXCEPT ![i] = @ \cup {s}]
          /\ overflow' = overflow \ {s}
    BY <1>4 DEF Deal
  <2>2. \A h \in Client : part'[h] = IF h = i THEN part[i] \cup {s} ELSE part[h]
    BY <2>1, <1>t DEF TypeOK
  <2>3. phase = "deal" /\ phase' = "deal"
    BY <1>4 DEF Deal
  <2>4. overflow' \cup UNION {part'[h] : h \in Client}
          = overflow \cup UNION {part[h] : h \in Client}
    BY <2>1, <2>2
  <2>5. QED BY <2>3, <2>4, <1>t
<1>5. ASSUME NEW i \in Client, NEW j \in Client, Fill(i, j) PROVE Placed'
  <2>1. phase = "fill" /\ phase' = "fill" /\ overflow' = overflow
    BY <1>5 DEF Fill
  <2>2. CASE part' = part
    BY <2>1, <2>2, <1>t
  <2>3. CASE part' # part
    <3>1. i # j /\ part[i] = {}
      BY <1>5, <1>t, <2>3, FillMoves
    <3>2. PICK s \in part[j] :
            part' = [part EXCEPT ![j] = part[j] \ {s}, ![i] = {s}]
      BY <1>5, <1>t, <2>3, FillMoves
    <3>3. \A h \in Client : part'[h] = IF h = i THEN {s}
                                      ELSE IF h = j THEN part[j] \ {s}
                                      ELSE part[h]
      BY <3>2, <1>t DEF TypeOK
    <3>4. UNION {part'[h] : h \in Client} = UNION {part[h] : h \in Client}
      BY <3>1, <3>3
    <3>5. QED BY <2>1, <3>4, <1>t
  <2>4. QED BY <2>2, <2>3
<1>6. CASE Dealt
  BY <1>6, <1>t, RoundsSuffice DEF Dealt
<1>7. CASE (\E i \in Client : Pass(i)) \/ Trimmed \/ NewRound \/ Filled
           \/ UNCHANGED vars
  BY <1>7, <1>t DEF Pass, Trimmed, NewRound, Filled, vars
<1>8. QED
  BY <1>1, <1>2, <1>3, <1>4, <1>5, <1>6, <1>7 DEF Next, Split, Cut

(* Whoever is passed over is full. *)
LEMMA StuckNext == PartInv /\ [Next]_vars => Stuck'
<1> SUFFICES ASSUME PartInv, [Next]_vars PROVE Stuck'
  OBVIOUS
<1> USE DEF Stuck
<1>t. TypeOK /\ Stuck
  BY DEF PartInv
<1>1. CASE Split \/ Dealt \/ Filled
  BY <1>1, <1>t DEF Split, SplitIid, SplitDirichlet, Dealt, Filled, dealVars
<1>2. ASSUME NEW i \in Client, Trim(i) PROVE Stuck'
  BY <1>2, <1>t DEF Trim, dealVars
<1>3. CASE Trimmed \/ NewRound
  BY <1>3, <1>t DEF Trimmed, NewRound, dealVars
<1>4. ASSUME NEW i \in Client, Deal(i) PROVE Stuck'
  BY <1>4 DEF Deal
<1>5. ASSUME NEW i \in Client, Pass(i) PROVE Stuck'
  <2>1. Size(i) >= Cap
    <3>1. Size(i) \in Nat /\ Cap \in Nat
      BY <1>t, SampleFinite, CapFits DEF TypeOK, Size
    <3>2. QED BY <1>5, <3>1 DEF Pass, Room
  <2>2. /\ phase = "deal" /\ phase' = "deal" /\ progressed' = progressed
        /\ visited' = visited \cup {i} /\ part' = part
    BY <1>5 DEF Pass
  <2>3. \A h \in Client : Size(h)' = Size(h)
    BY <2>2 DEF Size
  <2>4. QED BY <2>1, <2>2, <2>3, <1>t DEF TypeOK
<1>6. ASSUME NEW i \in Client, NEW j \in Client, Fill(i, j) PROVE Stuck'
  BY <1>6 DEF Fill
<1>7. CASE UNCHANGED vars
  BY <1>7, <1>t DEF vars, Size
<1>8. QED
  BY <1>1, <1>2, <1>3, <1>4, <1>5, <1>6, <1>7 DEF Next, Cut

(* Dealing stops at the cap, and filling only takes from the larger. *)
LEMMA CappedNext == PartInv /\ [Next]_vars => Capped'
<1> SUFFICES ASSUME PartInv, [Next]_vars PROVE Capped'
  OBVIOUS
<1> USE DEF Capped
<1>t. TypeOK /\ Disjoint /\ Capped /\ Filling
  BY DEF PartInv
<1>s. \A h \in Client : IsFiniteSet(part[h]) /\ Size(h) \in Nat
  BY <1>t, SampleFinite DEF TypeOK, Size
<1>1. CASE Split
  BY <1>1 DEF Split, SplitIid, SplitDirichlet
<1>2. ASSUME NEW i \in Client, Trim(i) PROVE Capped'
  BY <1>2 DEF Trim
<1>3. CASE Trimmed
  BY <1>3 DEF Trimmed, Size
<1>4. ASSUME NEW i \in Client, Deal(i) PROVE Capped'
  <2>1. PICK s \in overflow : part' = [part EXCEPT ![i] = @ \cup {s}]
    BY <1>4 DEF Deal
  <2>2. \A h \in Client : part'[h] = IF h = i THEN part[i] \cup {s} ELSE part[h]
    BY <2>1, <1>t DEF TypeOK
  <2>3. Cardinality(part[i] \cup {s}) <= Cap
    <3>1. Cardinality(part[i] \cup {s}) <= Size(i) + 1
      <4>1. IsFiniteSet(part[i]) /\ Size(i) \in Nat
        BY <1>s
      <4>2. Cardinality(part[i] \cup {s}) \in {Size(i), Size(i) + 1}
        BY ONLY <4>1, FS_AddElement DEF Size
      <4>3. QED BY <4>1, <4>2
    <3>2. Cardinality(part[i] \cup {s}) \in Nat
      BY <1>s, FS_AddElement, FS_CardinalityType
    <3>3. Size(i) < Cap
      BY <1>4 DEF Deal, Room
    <3>4. QED BY <3>1, <3>2, <3>3, <1>s, CapFits
  <2>4. phase = "deal" /\ kind' = kind
    BY <1>4 DEF Deal
  <2>5. QED BY <2>2, <2>3, <2>4, <1>t DEF Size
<1>5. ASSUME NEW i \in Client, NEW j \in Client, Fill(i, j) PROVE Capped'
  <2>1. phase = "fill" /\ kind' = kind
    BY <1>5 DEF Fill
  <2>2. CASE part' = part
    BY <2>1, <2>2, <1>t DEF Size
  <2>3. CASE part' # part
    <3>1. PICK s \in part[j] :
            part' = [part EXCEPT ![j] = part[j] \ {s}, ![i] = {s}]
      BY <1>5, <1>t, <2>3, FillMoves
    <3>2. \A h \in Client : part'[h] = IF h = i THEN {s}
                                      ELSE IF h = j THEN part[j] \ {s}
                                      ELSE part[h]
      BY <3>1, <1>t DEF TypeOK
    <3>3. Cardinality({s}) <= Cap
      BY FS_Singleton, CapFits
    <3>4. Cardinality(part[j] \ {s}) <= Size(j)
      BY <1>s, FS_Subset DEF Size
    <3>5. Cardinality(part[j] \ {s}) \in Nat
      BY <1>s, FS_RemoveElement, FS_CardinalityType
    <3>6. QED BY <2>1, <3>2, <3>3, <3>4, <3>5, <1>s, <1>t, CapFits DEF Size
  <2>4. QED BY <2>2, <2>3
<1>6. CASE (\E i \in Client : Pass(i)) \/ NewRound \/ Dealt \/ Filled
           \/ UNCHANGED vars
  BY <1>6, <1>t DEF Pass, NewRound, Dealt, Filled, vars, Size
<1>7. QED
  BY <1>1, <1>2, <1>3, <1>4, <1>5, <1>6 DEF Next, Cut

(* The largest client can spare a sample as long as another has none. *)
LEMMA DonorHasTwo ==
  ASSUME PartInv, NEW i \in Client, NEW j \in Client, Fill(i, j),
         Total >= NClients
  PROVE  Size(j) >= 2
<1>t. TypeOK /\ Placed /\ Filling
  BY DEF PartInv
<1>1. \A h \in Client : Size(h) \in Nat
  BY <1>t, SampleFinite DEF TypeOK, Size
<1> SUFFICES ASSUME Size(j) <= 1 PROVE FALSE
  BY <1>1
<1>2. \A h \in Client : Cardinality(part[h]) <= 1
  BY <1>1 DEF Fill, Donor, Size
<1>3. part[i] = {} /\ UNION {part[h] : h \in Client} = Sample
  BY <1>t DEF Fill, Filling, Placed
<1>4. Total < NClients
  BY <1>2, <1>3, <1>t, SomeoneHasTwo DEF TypeOK
<1>5. QED BY <1>4, SampleFinite, PartitionAssumption

(* Filling a client does not empty another. *)
LEMMA FillingNext == PartInv /\ [Next]_vars => Filling'
<1> SUFFICES ASSUME PartInv, [Next]_vars PROVE Filling'
  OBVIOUS
<1> USE DEF Filling
<1>t. TypeOK /\ Filling
  BY DEF PartInv
<1>1. CASE SplitIid
  BY <1>1 DEF SplitIid
<1>2. CASE Dealt
  BY <1>2 DEF Dealt
<1>3. ASSUME NEW i \in Client, NEW j \in Client, Fill(i, j) PROVE Filling'
  <2>1. /\ phase = "fill" /\ phase' = "fill" /\ i \in empties
        /\ empties' = empties \ {i}
    BY <1>3 DEF Fill
  <2>2. Total >= NClients => part[j] # {} /\ Size(j) >= 2
    <3>1. Total >= NClients => Size(j) >= 2
      BY <1>3, DonorHasTwo
    <3>2. part[j] = {} => Size(j) = 0
      BY FS_EmptySet DEF Size
    <3>3. QED BY <3>1, <3>2
  <2>3. CASE part[j] = {}
    <3>1. part' = part /\ ~(Total >= NClients)
      BY <1>3, <2>2, <2>3 DEF Fill
    <3>2. QED BY <2>1, <3>1, <1>t
  <2>4. CASE part[j] # {}
    <3>1. PICK s \in part[j] :
            part' = [part EXCEPT ![j] = part[j] \ {s}, ![i] = {s}]
      BY <1>3, <2>4 DEF Fill
    <3>2. \A h \in Client : part'[h] = IF h = i THEN {s}
                                      ELSE IF h = j THEN part[j] \ {s}
                                      ELSE part[h]
      BY <3>1, <1>t DEF TypeOK
    <3>3. j \notin empties
      BY <2>1, <2>4, <1>t
    <3>4. Total >= NClients => part[j] \ {s} # {}
      <4> SUFFICES ASSUME Total >= NClients, part[j] \ {s} = {} PROVE FALSE
        OBVIOUS
      <4>1. part[j] = {s}
        OBVIOUS
      <4>2. Cardinality({s}) = 1
        BY FS_Singleton
      <4>3. QED BY <4>1, <4>2, <2>2 DEF Size
    <3>5. \A h \in empties' : part'[h] = {}
      BY <2>1, <3>2, <3>3, <1>t DEF TypeOK
    <3>6. Total >= NClients => \A h \in Client \ empties' : part'[h] # {}
      BY <2>1, <3>2, <3>4, <1>t
    <3>7. QED BY <2>1, <3>5, <3>6 DEF Total
  <2>5. QED BY <2>3, <2>4
<1>4. CASE Filled
  BY <1>4, <1>t DEF Filled
<1>5. CASE SplitDirichlet \/ (\E i \in Client : Trim(i) \/ Deal(i) \/ Pass(i))
           \/ Trimmed \/ NewRound
  BY <1>5 DEF SplitDirichlet, Trim, Deal, Pass, Trimmed, NewRound
<1>6. CASE UNCHANGED vars
  BY <1>6, <1>t DEF vars
<1>7. QED
  BY <1>1, <1>2, <1>3, <1>4, <1>5, <1>6 DEF Next, Split, Cut

(* The largest iid client is less than two samples above Total / k. *)
Even ==
  /\ phase \in {"trim", "deal"} => kind = "dirichlet"
  /\ kind = "iid" /\ phase # "split" =>
       \A i \in Client : NClients * Size(i) <= Total + 2 * NClients - 2

(* Each label's chunk is less than one above its share, and a client that   *)
(* is filled has one sample.                                                *)
LEMMA EvenNext == PartInv /\ Even /\ [Next]_vars => Even'
<1> SUFFICES ASSUME PartInv, Even, [Next]_vars PROVE Even'
  OBVIOUS
<1> USE DEF Even
<1>t. TypeOK /\ Filling
  BY DEF PartInv
<1>s. \A h \in Client : IsFiniteSet(part[h]) /\ Size(h) \in Nat
  BY <1>t, SampleFinite DEF TypeOK, Size
<1>n. NClients \in Nat \ {0} /\ Total \in Nat
  BY PartitionAssumption, SampleFinite
<1>1. CASE SplitIid
  <2>1. PICK owner \in [Sample -> Client] :
          /\ \A i \in Client, S \in {Pos, Neg} :
               Cardinality(OwnedBy(owner, i, S)) = Chunk(Cardinality(S), i)
          /\ part' = [i \in Client |-> OwnedBy(owner, i, Sample)]
    BY <1>1 DEF SplitIid
  <2>2. ASSUME NEW i \in Client
        PROVE  NClients * Size(i)' <= Total + 2 * NClients - 2
    <3> DEFINE p == OwnedBy(owner, i, Pos)  n == OwnedBy(owner, i, Neg)
    <3>1. part'[i] = p \cup n /\ p \cap n = {}
      BY <2>1, PartitionAssumption DEF OwnedBy, Sample
    <3>2. p \subseteq Pos /\ n \subseteq Neg
      BY DEF OwnedBy
    <3>3. /\ IsFiniteSet(Pos) /\ Cardinality(Pos) \in Nat
          /\ IsFiniteSet(Neg) /\ Cardinality(Neg) \in Nat
      BY PartitionAssumption, FS_CardinalityType
    <3>4. IsFiniteSet(p) /\ IsFiniteSet(n)
      BY <3>2, <3>3, FS_Subset
    <3>5. Total = Cardinality(Pos) + Cardinality(Neg)
      <4>1. Cardinality(Pos \cap Neg) = 0
        BY PartitionAssumption, FS_EmptySet
      <4>2. Cardinality(Pos \cup Neg)
              = Cardinality(Pos) + Cardinality(Neg) - Cardinality(Pos \cap Neg)
        BY <3>3, FS_Union
      <4>3. QED BY <4>1, <4>2, <3>3 DEF Total, Sample
    <3>6. Cardinality(p) = Chunk(Cardinality(Pos), i)
          /\ Cardinality(n) = Chunk(Cardinality(Neg), i)
      BY <2>1
    <3> HIDE DEF p, n
    <3>7. Cardinality(p \cup n) = Cardinality(p) + Cardinality(n)
      <4>1. Cardinality(p \cap n) = 0
        BY <3>1, FS_EmptySet
      <4>2. Cardinality(p) \in Nat /\ Cardinality(n) \in Nat
        BY <3>4, FS_CardinalityType
      <4>3. Cardinality(p \cup n) = Cardinality(p) + Cardinality(n) - Cardinality(p \cap n)
        BY <3>4, FS_Union
      <4>4. QED BY <4>1, <4>2, <4>3
    <3> DEFINE a == Chunk(Cardinality(Pos), i)  b == Chunk(Cardinality(Neg), i)
    <3>8. /\ a \in Nat /\ NClients * a <= Cardinality(Pos) + NClients - 1
          /\ b \in Nat /\ NClients * b <= Cardinality(Neg) + NClients - 1
      BY <3>3, ChunkBound
    <3>9. Size(i)' = a + b
      BY <3>1, <3>6, <3>7 DEF Size
    <3> HIDE DEF a, b
    <3>10. NClients * (a + b) = NClients * a + NClients * b
           /\ NClients * a \in Int /\ NClients * b \in Int
      BY <1>n, <3>8
    <3>11. NClients * (a + b) <= Total + 2 * NClients - 2
      BY <1>n, <3>3, <3>5, <3>8, <3>10
    <3>12. QED BY <3>9, <3>11
  <2>3. phase' = "fill"
    BY <1>1 DEF SplitIid
  <2>4. QED BY <2>2, <2>3 DEF Total
<1>2. CASE SplitDirichlet
  BY <1>2 DEF SplitDirichlet
<1>3. CASE (\E i \in Client : Trim(i) \/ Deal(i) \/ Pass(i))
           \/ Trimmed \/ NewRound \/ Dealt
  BY <1>3 DEF Trim, Deal, Pass, Trimmed, NewRound, Dealt
<1>4. ASSUME NEW i \in Client, NEW j \in Client, Fill(i, j) PROVE Even'
  <2>1. kind' = kind /\ phase = "fill" /\ phase' = "fill"
    BY <1>4 DEF Fill
  <2>2. CASE part' = part
    BY <2>1, <2>2 DEF Size
  <2>3. CASE part' # part
    <3>1. PICK s \in part[j] :
            part' = [part EXCEPT ![j] = part[j] \ {s}, ![i] = {s}]
      BY <1>4, <1>t, <2>3, FillMoves
    <3>2. \A h \in Client : part'[h] = IF h = i THEN {s}
                                      ELSE IF h = j THEN part[j] \ {s}
                                      ELSE part[h]
      BY <3>1, <1>t DEF TypeOK
    <3>3. Cardinality({s}) = 1
      BY FS_Singleton
    <3>4. Cardinality(part[j] \ {s}) <= Size(j)
      BY <1>s, FS_Subset DEF Size
    <3>5. Cardinality(part[j] \ {s}) \in Nat
      BY <1>s, FS_RemoveElement, FS_CardinalityType
    <3>6. \A h \in Client : h # i => Size(h)' \in Nat /\ Size(h)' <= Size(h)
      BY <3>2, <3>4, <3>5, <1>s DEF Size
    <3>7. Size(i)' = 1
      BY <3>2, <3>3 DEF Size
    <3>8. Total >= 1
      <4>1. s \in Sample
        BY <3>1, <1>t DEF TypeOK
      <4>2. Sample # {}
        BY <4>1
      <4>3. Total # 0
        BY <4>2, SampleFinite, FS_EmptySet DEF Total
      <4>4. QED BY <4>3, <1>n
    <3>9. \A x, y \in Nat : x <= y => NClients * x <= NClients * y
                                     /\ NClients * x \in Int /\ NClients * y \in Int
      BY <1>n
    <3>10. NClients * 1 <= Total + 2 * NClients - 2
      BY <1>n, <3>8
    <3>11. ASSUME NEW h \in Client, kind = "iid"
           PROVE  NClients * Size(h)' <= Total + 2 * NClients - 2
      <4>1. CASE h = i
        BY <4>1, <3>7, <3>10
      <4>2. CASE h # i
        <5>1. NClients * Size(h) <= Total + 2 * NClients - 2
          BY <2>1, <3>11
        <5>2. NClients * Size(h)' <= NClients * Size(h)
              /\ NClients * Size(h)' \in Int /\ NClients * Size(h) \in Int
          BY <3>6, <3>9, <4>2, <1>s
        <5>3. QED BY <5>1, <5>2, <1>n
      <4>3. QED BY <4>1, <4>2
    <3>12. QED BY <2>1, <3>11 DEF Total
  <2>4. QED BY <2>2, <2>3
<1>5. CASE Filled \/ UNCHANGED vars
  BY <1>5 DEF Filled, vars, Size
<1>6. QED BY <1>1, <1>2, <1>3, <1>4, <1>5 DEF Next, Split, Cut

(* What the advised number of clients means: a share that leaves room for   *)
(* the bias row.                                                            *)
LEMMA AdviceIsAShare ==
  ASSUME NEW slots \in 2 .. (Total + 1), NClients >= MinK(slots)
  PROVE  NClients * (slots - 1) >= Total
<1>1. Total \in Nat /\ NClients \in Nat /\ slots \in Nat /\ slots - 1 \in Nat \ {0}
  BY SampleFinite, PartitionAssumption
<1>2. MinK(slots) \in Int /\ (slots - 1) * MinK(slots) >= Total
  BY <1>1, CeilDivBounds DEF MinK
<1>3. \A a \in Nat, x, y \in Int : x >= y => x * a >= a * y /\ x * a \in Int /\ a * y \in Int
  OBVIOUS
<1>4. QED BY <1>1, <1>2, <1>3

-----------------------------------------------------------------------------
(* The theorems. *)

(* The conjunction is inductive. *)
LEMMA PartInvariance == Spec => []PartInv
<1>1. PartInv /\ [Next]_vars => PartInv'
  BY TypeNext, DisjointNext, PlacedNext, StuckNext, CappedNext, FillingNext
     DEF PartInv
<1>2. QED BY PartInit, <1>1, PTL DEF Spec

(* Every variable of the partitioner keeps its type. *)
THEOREM PartitionTypeCorrect == Spec => []TypeOK
BY PartInvariance, PTL DEF PartInv

(* No two clients ever get the same training sample. *)
THEOREM ClientsAreDisjoint == Spec => []Disjoint
BY PartInvariance, PTL DEF PartInv

(* However skewed the Dirichlet draw, capping and dealing out again drops   *)
(* no training sample: the cap _cap_client_sizes raises to ceil(total / k)  *)
(* leaves room for all of them, so its "not progressed" branch never drops  *)
(* anything.                                                                *)
THEOREM NoSampleIsLost == Spec => []NothingLost
<1>1. PartInv => NothingLost
  BY DEF PartInv, Placed, NothingLost
<1>2. QED BY PartInvariance, <1>1, PTL

(* If there are at least as many samples as clients, partition_all leaves   *)
(* no client without one, iid or Dirichlet.                                 *)
THEOREM NoClientIsEmpty == Spec => []NobodyEmpty
<1>1. PartInv => NobodyEmpty
  BY DEF PartInv, Filling, NobodyEmpty
<1>2. QED BY PartInvariance, <1>1, PTL

(* No Dirichlet client is above the cap from the trimming on. *)
THEOREM CapIsKept == Spec => []Capped
BY PartInvariance, PTL DEF PartInv

(* What the advice is worth: with the number of clients advised for a slot  *)
(* count, or more, a Dirichlet split fits the slots if the configured cap    *)
(* does; an even one may be one row above, and no more.                     *)
WithinOneRow ==
  phase = "done" =>
    \A slots \in 2 .. (Total + 1) : NClients >= MinK(slots) =>
      \A i \in Client :
        /\ kind = "iid" => MatrixSize(i) <= slots + 1
        /\ kind = "dirichlet" /\ MaxSize < slots => MatrixSize(i) <= slots

(* With the number of clients that assert_fits_bootstrap_slots advises, a    *)
(* Dirichlet client fits the slots if the configured cap does, and an iid    *)
(* client is at most one row too large.                                      *)
THEOREM AdviceNearlyHolds == Spec => []WithinOneRow
<1>1. Init => Even
  BY DEF Init, Even
<1>2. Spec => []Even
  BY <1>1, EvenNext, PartInvariance, PTL DEF Spec
<1>3. TypeOK /\ Even /\ Capped => WithinOneRow
  <2> SUFFICES ASSUME TypeOK, Even, Capped, phase = "done",
                      NEW slots \in 2 .. (Total + 1), NClients >= MinK(slots),
                      NEW i \in Client
               PROVE  /\ kind = "iid" => MatrixSize(i) <= slots + 1
                      /\ kind = "dirichlet" /\ MaxSize < slots => MatrixSize(i) <= slots
    BY DEF WithinOneRow
  <2>1. /\ Total \in Nat /\ NClients \in Nat \ {0} /\ slots \in Int
        /\ Size(i) \in Nat /\ MaxSize \in Nat
    BY SampleFinite, PartitionAssumption DEF TypeOK, Size
  <2>2. NClients * (slots - 1) >= Total /\ NClients * (slots - 1) \in Int
    BY <2>1, AdviceIsAShare
  <2>3. ASSUME kind = "iid" PROVE Size(i) <= slots
    <3>1. NClients * Size(i) <= Total + 2 * NClients - 2
      BY <2>3 DEF Even
    <3>2. NClients * Size(i) \in Int /\ NClients * (slots + 1) \in Int
          /\ NClients * (slots + 1) = NClients * (slots - 1) + 2 * NClients
      BY <2>1
    <3>3. NClients * Size(i) < NClients * (slots + 1)
      BY <2>1, <2>2, <3>1, <3>2
    <3>4. \A x, y \in Int : x >= y => NClients * x >= NClients * y
      BY <2>1
    <3>5. ~(Size(i) >= slots + 1)
      BY <2>1, <3>2, <3>3, <3>4
    <3>6. QED BY <2>1, <3>5
  <2>4. ASSUME kind = "dirichlet", MaxSize < slots PROVE Size(i) <= slots - 1
    <3>1. CeilDiv(Total, NClients) \in Int /\ CeilDiv(Total, NClients) <= slots - 1
      BY <2>1, <2>2, CeilDivBounds, CeilDivLeast
    <3>2. Cap <= slots - 1 /\ Cap \in Nat
      BY <2>1, <2>4, <3>1, CapFits DEF Cap
    <3>3. Size(i) <= Cap
      BY <2>4 DEF Capped
    <3>4. QED BY <2>1, <3>2, <3>3
  <2>5. QED BY <2>1, <2>3, <2>4 DEF MatrixSize
<1>4. QED BY <1>2, <1>3, PartitionTypeCorrect, CapIsKept, PTL
=============================================================================
