------------------------------ MODULE Partition ------------------------------
(***************************************************************************)
(* partition_all: the training samples of one class are dealt out to the   *)
(* k clients, evenly (iid) or by a Dirichlet draw that may give a client    *)
(* anything from nothing to everything.  _cap_client_sizes then trims and   *)
(* deals the overflow out again, and clients left empty get a sample of the *)
(* largest one.  Which sample is moved is random or a matter of array order *)
(* and is left open.                                                        *)
(*                                                                         *)
(* Operators named Defect... are plausible mistakes, not the program.      *)
(***************************************************************************)
EXTENDS Integers, FiniteSets

CONSTANTS
  Pos, Neg,    \* indices of the training samples with label +1 and -1
  NClients,    \* k
  Kinds,       \* the partitions asked for: "iid", "dirichlet"
  MaxSize      \* MAX_DIRICHLET_CLIENT_SIZE

ASSUME PartitionAssumption ==
  /\ IsFiniteSet(Pos) /\ IsFiniteSet(Neg) /\ Pos \cap Neg = {}
  /\ NClients \in Nat \ {0} /\ Kinds \subseteq {"iid", "dirichlet"}
  /\ MaxSize \in Nat \ {0}

Sample == Pos \cup Neg
Total  == Cardinality(Sample)
Client == 0 .. NClients - 1

CeilDiv(a, b) == -((-a) \div b)           \* Python's -(-a // b)

DefectCap == MaxSize
Cap == LET even == CeilDiv(Total, NClients)
       IN  IF even > MaxSize THEN even ELSE MaxSize

(* assert_fits_bootstrap_slots: the number of clients it advises when a      *)
(* client's matrix, its samples plus one, does not fit the bootstrap slots.  *)
MinK(slots) == CeilDiv(Total, slots - 1)

VARIABLES
  phase,       \* "split", "trim", "deal", "fill", "done"
  kind,        \* the partition asked for
  part,        \* client -> its samples
  overflow,    \* samples trimmed and not yet dealt out
  visited,     \* clients this round of dealing has come to
  progressed,  \* whether this round has dealt any sample
  empties      \* clients that wait for a sample of the largest one

vars == <<phase, kind, part, overflow, visited, progressed, empties>>
dealVars == <<visited, progressed>>

TypeOK ==
  /\ phase \in {"split", "trim", "deal", "fill", "done"}
  /\ kind \in Kinds
  /\ part \in [Client -> SUBSET Sample] /\ overflow \in SUBSET Sample
  /\ visited \in SUBSET Client /\ progressed \in BOOLEAN
  /\ empties \in SUBSET Client

Init ==
  /\ phase = "split" /\ kind \in Kinds
  /\ part = [i \in Client |-> {}] /\ overflow = {}
  /\ visited = {} /\ progressed = FALSE /\ empties = {}

Size(i) == Cardinality(part[i])
MatrixSize(i) == Size(i) + 1         \* compute_problem_dims

-----------------------------------------------------------------------------
(* The two ways to split the label pools. *)

OwnedBy(owner, i, S) == {s \in S : owner[s] = i}

(* np.array_split: the first n mod k chunks are one longer. *)
Chunk(n, i) == n \div NClients + (IF i < n % NClients THEN 1 ELSE 0)

SplitIid ==
  /\ phase = "split" /\ kind = "iid"
  /\ \E owner \in [Sample -> Client] :
       /\ \A i \in Client, S \in {Pos, Neg} :
            Cardinality(OwnedBy(owner, i, S)) = Chunk(Cardinality(S), i)
       /\ part' = [i \in Client |-> OwnedBy(owner, i, Sample)]
  /\ empties' = {i \in Client : part'[i] = {}}
  /\ phase' = "fill"
  /\ UNCHANGED <<kind, overflow, dealVars>>

(* _dirichlet_split: cut points anywhere. *)
SplitDirichlet ==
  /\ phase = "split" /\ kind = "dirichlet"
  /\ \E owner \in [Sample -> Client] :
       part' = [i \in Client |-> OwnedBy(owner, i, Sample)]
  /\ phase' = "trim"
  /\ UNCHANGED <<kind, overflow, dealVars, empties>>

-----------------------------------------------------------------------------
(* _cap_client_sizes. *)

Trim(i) ==
  /\ phase = "trim" /\ Size(i) > Cap
  /\ \E kept \in SUBSET part[i] :
       /\ Cardinality(kept) = Cap
       /\ part' = [part EXCEPT ![i] = kept]
       /\ overflow' = overflow \cup (part[i] \ kept)
  /\ UNCHANGED <<phase, kind, dealVars, empties>>

Trimmed ==
  /\ phase = "trim" /\ \A i \in Client : Size(i) <= Cap
  /\ phase' = "deal"
  /\ UNCHANGED <<kind, part, overflow, dealVars, empties>>

(* One client of the shuffled order: it takes a sample if it has room. *)
DefectRoom(i) == Size(i) <= Cap
Room(i) == Size(i) < Cap

Deal(i) ==
  /\ phase = "deal" /\ overflow # {} /\ i \notin visited /\ Room(i)
  /\ \E s \in overflow : /\ part' = [part EXCEPT ![i] = @ \cup {s}]
                         /\ overflow' = overflow \ {s}
  /\ visited' = visited \cup {i} /\ progressed' = TRUE
  /\ UNCHANGED <<phase, kind, empties>>

Pass(i) ==
  /\ phase = "deal" /\ overflow # {} /\ i \notin visited /\ ~Room(i)
  /\ visited' = visited \cup {i}
  /\ UNCHANGED <<phase, kind, part, overflow, progressed, empties>>

NewRound ==
  /\ phase = "deal" /\ overflow # {} /\ visited = Client /\ progressed
  /\ visited' = {} /\ progressed' = FALSE
  /\ UNCHANGED <<phase, kind, part, overflow, empties>>

(* Everything is dealt out, or a round has dealt nothing: what is left of   *)
(* the overflow is then dropped.                                            *)
Dealt ==
  /\ phase = "deal"
  /\ overflow = {} \/ (visited = Client /\ ~progressed)
  /\ phase' = "fill" /\ empties' = {i \in Client : part[i] = {}}
  /\ UNCHANGED <<kind, part, overflow, dealVars>>

-----------------------------------------------------------------------------
(* The clients that are empty get a sample of the largest, in their order. *)

DefectDonor(j) == \A i \in Client : Size(j) <= Size(i)
Donor(j) == \A i \in Client : Size(j) >= Size(i) /\ (i < j => Size(j) > Size(i))

DefectFill(i, j) ==
  /\ phase = "fill" /\ i \in empties /\ \A h \in empties : i <= h
  /\ Donor(j)
  /\ \E s \in part[j] : part' = [part EXCEPT ![i] = {s}]
  /\ empties' = empties \ {i}
  /\ UNCHANGED <<phase, kind, overflow, dealVars>>

Fill(i, j) ==
  /\ phase = "fill" /\ i \in empties /\ \A h \in empties : i <= h
  /\ Donor(j)
  /\ IF part[j] = {} THEN UNCHANGED part
     ELSE \E s \in part[j] :
            part' = [part EXCEPT ![j] = @ \ {s}, ![i] = {s}]
  /\ empties' = empties \ {i}
  /\ UNCHANGED <<phase, kind, overflow, dealVars>>

Filled ==
  /\ phase = "fill" /\ empties = {} /\ phase' = "done"
  /\ UNCHANGED <<kind, part, overflow, dealVars, empties>>

Split == SplitIid \/ SplitDirichlet
Cut   == (\E i \in Client : Trim(i) \/ Deal(i) \/ Pass(i))
         \/ Trimmed \/ NewRound \/ Dealt
Next  == Split \/ Cut \/ (\E i, j \in Client : Fill(i, j)) \/ Filled

Spec == Init /\ [][Next]_vars

-----------------------------------------------------------------------------
(* Properties *)

(* The clients' data is disjoint, at every moment.                          *)
Disjoint ==
  /\ \A i, j \in Client : i # j => part[i] \cap part[j] = {}
  /\ \A i \in Client : part[i] \cap overflow = {}

(* No sample is dropped: trimming and dealing out again never gives up with *)
(* overflow left (the last comment of _cap_client_sizes).                   *)
NothingLost ==
  phase \in {"fill", "done"} =>
    overflow = {} /\ UNION {part[i] : i \in Client} = Sample

(* No client is empty when there are samples enough to go round; an empty   *)
(* one would break the FHE matrix build.                                    *)
NobodyEmpty ==
  phase = "done" /\ Total >= NClients => \A i \in Client : part[i] # {}

(* No Dirichlet draw makes a client's matrix larger than the cap, not even  *)
(* after the empty clients were filled.                                     *)
Capped ==
  phase \in {"deal", "fill", "done"} /\ kind = "dirichlet" =>
    \A i \in Client : Size(i) <= Cap

(* What assert_fits_bootstrap_slots promises with "Increase clients to        *)
(* k>={min_k}" (train.py:589): with that many clients every client's matrix  *)
(* fits the slots.  An even split breaks it, see the run "advice": min_k      *)
(* divides the samples of both labels together, partition_all rounds each     *)
(* label up on its own.                                                     *)
AdvisedKFits ==
  phase = "done" /\ kind = "iid" =>
    \A slots \in 2 .. Total : NClients >= MinK(slots) =>
      \A i \in Client : MatrixSize(i) <= slots
=============================================================================
