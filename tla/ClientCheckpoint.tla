-------------------------- MODULE ClientCheckpoint --------------------------
(***************************************************************************)
(* The checkpoint of one sub-problem (a directory client_i or baseline) at *)
(* the level of files: solve_client_checkpointed looks for bias.bin and    *)
(* weights.bin, loads and checks them, or solves and saves through _save_cts*)
(* - write a temporary name, then rename - any step of which may be the    *)
(* last of its process.  An open file keeps its inode when the name moves. *)
(* Calls for one sub-problem come one after the other: the shards of a pool *)
(* share no task (OneSolver of ForkPool), and a run begins when the last    *)
(* one has ended.  Two calls at once, which orphans of a killed pool can    *)
(* make and which share the temporary names, are not modelled here.         *)
(*                                                                         *)
(* Operators named Defect... are plausible mistakes, not the program.      *)
(***************************************************************************)
EXTENDS Integers

CONSTANTS
  Proc,        \* processes that call for this sub-problem
  Outcomes,    \* the parts of a solve that may come out finite
  MaxSolves,   \* bound on the solves of a behaviour
  MaxKills     \* bound on the kills

Parts  == {"bias", "weights"}

ASSUME CheckpointAssumption ==
  /\ Proc # {} /\ Outcomes # {} /\ Outcomes \subseteq SUBSET Parts
  /\ MaxSolves \in Nat /\ MaxKills \in Nat

Solves == 1 .. MaxSolves
Inode  == 1 .. 2 * MaxSolves
NoFile == 0
Torn   == -1         \* content of a file that is not a whole ciphertext

VARIABLES
  bin, tmp,    \* part -> inode under the name <part>.bin, <part>.bin.tmp
  content,     \* inode -> the solve whose ciphertext it holds, or Torn
  pc,          \* where each process is
  fd,          \* the inode each process writes
  pair,        \* the pair of ciphertexts each process has in memory
  answer,      \* the last pair each call returned
  finite,      \* the parts of each solve that decrypt to finite numbers
  solved,      \* number of solves so far
  inodes,      \* number of inodes ever created
  kills        \* number of kills so far

vars == <<bin, tmp, content, pc, fd, pair, answer, finite, solved, inodes,
          kills>>
files == <<bin, tmp, content, fd, inodes>>

Pair   == [Parts -> {NoFile, Torn} \cup Solves]
NoPair == [part \in Parts |-> NoFile]

Init ==
  /\ bin = [part \in Parts |-> NoFile] /\ tmp = bin
  /\ content = [n \in Inode |-> Torn] /\ fd = [p \in Proc |-> NoFile]
  /\ pc = [p \in Proc |-> <<"idle", "bias">>]
  /\ pair = [p \in Proc |-> NoPair] /\ answer = pair
  /\ finite = [s \in Solves |-> {}]
  /\ solved = 0 /\ inodes = 0 /\ kills = 0

At(p, step, part) == pc[p] = <<step, part>>
GoTo(p, step, part) == pc' = [pc EXCEPT ![p] = <<step, part>>]

-----------------------------------------------------------------------------
(* Resume: _cts_exist, _load_cts, _cts_are_finite. *)

CtsExist == \A part \in Parts : bin[part] # NoFile

Read(part) == content[bin[part]]

InCall(p) == pc[p][1] # "idle"

(* A call, of the process or of the rerun of one that was killed, while no  *)
(* other is in progress: with both names there the bias is loaded, else it  *)
(* solves.                                                                  *)
Call(p) ==
  /\ \A q \in Proc : ~InCall(q)
  /\ IF CtsExist
     THEN /\ GoTo(p, "load", "weights")
          /\ pair' = [pair EXCEPT ![p]["bias"] = Read("bias")]
     ELSE GoTo(p, "solve", "bias") /\ UNCHANGED pair
  /\ UNCHANGED <<files, answer, finite, solved, kills>>

AreFinite(q) == \A part \in Parts : q[part] \in Solves /\ part \in finite[q[part]]

DefectNeverResumes(p) ==
  /\ At(p, "load", "weights") /\ GoTo(p, "solve", "bias")
  /\ pair' = [pair EXCEPT ![p] = NoPair]
  /\ UNCHANGED <<files, answer, finite, solved, kills>>

(* The weights are loaded; a pair that is whole and finite is returned. *)
Resume(p) ==
  /\ At(p, "load", "weights")
  /\ LET q == [pair[p] EXCEPT !["weights"] = Read("weights")]
     IN  IF AreFinite(q)
         THEN GoTo(p, "idle", "bias") /\ answer' = [answer EXCEPT ![p] = q]
         ELSE GoTo(p, "solve", "bias") /\ UNCHANGED answer
  /\ pair' = [pair EXCEPT ![p] = NoPair]
  /\ UNCHANGED <<files, finite, solved, kills>>

-----------------------------------------------------------------------------
(* Solve and save. *)

(* The order in which _save_cts saves the two parts. *)
DefectFirst == "weights"
First  == "bias"
Second == CHOOSE part \in Parts : part # First

(* The bias is the last value back-substitution computes: it may be the    *)
(* only part that has run out of precision.                                *)
Solve(p) ==
  /\ At(p, "solve", "bias") /\ solved < MaxSolves
  /\ solved' = solved + 1
  /\ \E parts \in Outcomes : finite' = [finite EXCEPT ![solved'] = parts]
  /\ pair' = [pair EXCEPT ![p] = [part \in Parts |-> solved']]
  /\ GoTo(p, "open", First)
  /\ UNCHANGED <<files, answer, kills>>

DefectWritesInPlace(p, part) ==
  /\ At(p, "open", part) /\ GoTo(p, "write", part)
  /\ IF bin[part] = NoFile
     THEN /\ inodes' = inodes + 1 /\ bin' = [bin EXCEPT ![part] = inodes']
          /\ fd' = [fd EXCEPT ![p] = inodes'] /\ UNCHANGED content
     ELSE /\ content' = [content EXCEPT ![bin[part]] = Torn]
          /\ fd' = [fd EXCEPT ![p] = bin[part]] /\ UNCHANGED <<bin, inodes>>
  /\ tmp' = [tmp EXCEPT ![part] = fd'[p]]
  /\ UNCHANGED <<pair, answer, finite, solved, kills>>

(* SerializeToFile opens the temporary name: a new file, or the one that is *)
(* there truncated.                                                         *)
Open(p, part) ==
  /\ At(p, "open", part) /\ GoTo(p, "write", part)
  /\ IF tmp[part] = NoFile
     THEN /\ inodes' = inodes + 1
          /\ tmp' = [tmp EXCEPT ![part] = inodes']
          /\ fd' = [fd EXCEPT ![p] = inodes'] /\ UNCHANGED content
     ELSE /\ content' = [content EXCEPT ![tmp[part]] = Torn]
          /\ fd' = [fd EXCEPT ![p] = tmp[part]] /\ UNCHANGED <<tmp, inodes>>
  /\ UNCHANGED <<bin, pair, answer, finite, solved, kills>>

(* It writes all of it. *)
Write(p, part) ==
  /\ At(p, "write", part) /\ GoTo(p, "replace", part)
  /\ content' = [content EXCEPT ![fd[p]] = pair[p][part]]
  /\ fd' = [fd EXCEPT ![p] = NoFile]
  /\ UNCHANGED <<bin, tmp, inodes, pair, answer, finite, solved, kills>>

(* os.replace, one part after the other; then the call returns. *)
Replace(p, part) ==
  /\ At(p, "replace", part) /\ tmp[part] # NoFile
  /\ bin' = [bin EXCEPT ![part] = tmp[part]]
  /\ tmp' = [tmp EXCEPT ![part] = NoFile]
  /\ IF part = First
     THEN GoTo(p, "open", Second) /\ UNCHANGED <<pair, answer>>
     ELSE /\ GoTo(p, "idle", "bias")
          /\ answer' = [answer EXCEPT ![p] = pair[p]]
          /\ pair' = [pair EXCEPT ![p] = NoPair]
  /\ UNCHANGED <<content, fd, inodes, finite, solved, kills>>

-----------------------------------------------------------------------------
(* A process is killed in the middle of a call; a rerun takes its place. *)
Kill(p) ==
  /\ InCall(p) /\ kills < MaxKills /\ kills' = kills + 1
  /\ GoTo(p, "idle", "bias") /\ fd' = [fd EXCEPT ![p] = NoFile]
  /\ pair' = [pair EXCEPT ![p] = NoPair]
  /\ UNCHANGED <<bin, tmp, content, inodes, answer, finite, solved>>

Advance(p) ==
  \/ Call(p) \/ Resume(p) \/ Solve(p)
  \/ \E part \in Parts : Open(p, part) \/ Write(p, part) \/ Replace(p, part)

Next == \E p \in Proc : Advance(p) \/ Kill(p)

Spec == Init /\ [][Next]_vars

-----------------------------------------------------------------------------
(* Properties *)

(* A killed process never leaves a truncated bias.bin or weights.bin that   *)
(* _cts_exist would take for a checkpoint (the comment of _save_cts).       *)
NeverTruncated ==
  \A part \in Parts : bin[part] # NoFile => content[bin[part]] # Torn

(* What a call returns, resumed or solved, is the bias and the weights of   *)
(* one and the same solve: FedAvg never gets half of one model and half of  *)
(* another.                                                                 *)
AnswerIsOneSolve ==
  \A p \in Proc : answer[p]["bias"] = answer[p]["weights"]

(* The first finite solve that is saved answers every later call, whichever *)
(* process was killed where in between.                                     *)
Stored == LET q == [part \in Parts |-> IF bin[part] = NoFile THEN Torn
                                       ELSE content[bin[part]]]
          IN  IF AreFinite(q) /\ q["bias"] = q["weights"] THEN q["bias"] ELSE 0
Returned(p) == IF answer[p] = NoPair THEN 0
               ELSE IF AreFinite(answer[p]) THEN answer[p]["bias"] ELSE -1
Cell == INSTANCE CheckpointCell
          WITH cell <- Stored, answer <- [p \in Proc |-> Returned(p)]
ImplementsCell == Cell!CellSpec
=============================================================================
