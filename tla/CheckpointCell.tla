--------------------------- MODULE CheckpointCell ---------------------------
(***************************************************************************)
(* What solve_client_checkpointed promises for one sub-problem: a cell     *)
(* that the first finite solve fills and that answers every call from then *)
(* on.  ClientCheckpoint implements it.                                    *)
(***************************************************************************)
EXTENDS Integers

CONSTANTS Proc,     \* the processes that call it
          Solves    \* identities of the solves, naturals

None == 0           \* nothing stored, nothing answered
Bad  == -1          \* an answer that is not finite

VARIABLES cell,     \* the solve that is stored
          answer    \* the last answer each process got

cellVars == <<cell, answer>>

CellInit == cell = None /\ answer = [p \in Proc |-> None]

(* A finite solve is stored and returned. *)
Keep(p) == /\ cell = None /\ cell' \in Solves
           /\ answer' = [answer EXCEPT ![p] = cell']

(* The stored solve is returned as it is. *)
Recall(p) == /\ cell # None /\ UNCHANGED cell
             /\ answer' = [answer EXCEPT ![p] = cell]

(* A solve came out not finite: it is returned, but the cell stays open. *)
Spoil(p) == /\ cell = None /\ UNCHANGED cell
            /\ answer' = [answer EXCEPT ![p] = Bad]

CellNext == \E p \in Proc : Keep(p) \/ Recall(p) \/ Spoil(p)
CellSpec == CellInit /\ [][CellNext]_cellVars
=============================================================================
