------------------------ MODULE ClientCheckpointProofs ------------------------
(***************************************************************************)
(* Proofs about ClientCheckpoint for any number of processes, solves and   *)
(* kills.                                                                  *)
(***************************************************************************)
EXTENDS ClientCheckpoint, TLAPS

(* No solve loses its bias alone.  The code does not promise that: the      *)
(* violation run shows the pair of two solves that a call may then return,  *)
(* and the theorems below that this is the only way to it.                  *)
BiasHoldsOut == \A parts \in Outcomes : "weights" \in parts => "bias" \in parts

-----------------------------------------------------------------------------
(* The inductive invariant. *)

Steps == {"idle", "load", "solve", "open", "write", "replace"}
TypeOK ==
  /\ bin \in [Parts -> {NoFile} \cup Inode] /\ tmp \in [Parts -> {NoFile} \cup Inode]
  /\ content \in [Inode -> {Torn} \cup Solves]
  /\ fd \in [Proc -> {NoFile} \cup Inode] /\ pc \in [Proc -> Steps \X Parts]
  /\ pair \in [Proc -> Pair] /\ answer \in [Proc -> Pair]
  /\ finite \in [Solves -> SUBSET Parts]
  /\ solved \in 0 .. MaxSolves /\ inodes \in Nat

(* Of all processes at most one is in a call, and nobody else has a file    *)
(* open.                                                                    *)
Alone ==
  /\ \A p, q \in Proc : InCall(p) /\ InCall(q) => p = q
  /\ \A p \in Proc : ~(\E part \in Parts : At(p, "write", part)) => fd[p] = NoFile

(* The inodes that a call may still create have numbers in Inode.          *)
Unopened(p) == IF At(p, "open", First) THEN 2
               ELSE IF pc[p][1] \in {"write", "replace"} /\ pc[p][2] = First THEN 1
               ELSE IF At(p, "open", Second) THEN 1 ELSE 0
Numbered == /\ inodes <= 2 * solved
            /\ \A p \in Proc : inodes + Unopened(p) <= 2 * solved
            /\ \A n \in Inode : n > inodes => content[n] = Torn

(* Four names, four inodes. *)
Names == /\ \A part \in Parts : bin[part] <= inodes /\ tmp[part] <= inodes
         /\ \A x, y \in Parts : bin[x] # NoFile => bin[x] # tmp[y]
         /\ bin["bias"] # NoFile => bin["bias"] # bin["weights"]
         /\ tmp["bias"] # NoFile => tmp["bias"] # tmp["weights"]

(* Where the process in a call is with its solve. *)
Saving == {"open", "write", "replace"}
InHand ==
  \A p \in Proc :
    /\ pc[p][1] \in Saving => solved > 0 /\ pair[p] = [part \in Parts |-> solved]
    /\ \A part \in Parts :
         /\ At(p, "write", part) => /\ tmp[part] # NoFile /\ fd[p] = tmp[part]
                                    /\ content[tmp[part]] = Torn
         /\ At(p, "replace", part) => /\ tmp[part] # NoFile
                                      /\ content[tmp[part]] = solved
    /\ pc[p][1] \in Saving /\ pc[p][2] = Second =>
         bin["bias"] # NoFile /\ content[bin["bias"]] = solved

(* What is under the names: whole ciphertexts of solves so far, the bias    *)
(* there if the weights are.                                                *)
Held(part) == content[bin[part]]
Whole == /\ \A part \in Parts : bin[part] # NoFile => Held(part) \in 1 .. solved
         /\ bin["weights"] # NoFile => bin["bias"] # NoFile

(* The weights are missing or useless; or they are of the bias's solve.     *)
Useless == bin["weights"] = NoFile \/ "weights" \notin finite[Held("weights")]
Matched == CtsExist /\ Held("bias") = Held("weights")
Consistent ==
  /\ Useless \/ Matched
  /\ \A p \in Proc :
       /\ pc[p][1] \in {"solve"} \cup Saving => Useless
       /\ At(p, "load", "weights") => CtsExist /\ pair[p]["bias"] = Held("bias")

(* A call has returned the two parts of one solve. *)
Answered ==
  /\ \A p \in Proc : \E s \in 0 .. solved : answer[p] = [part \in Parts |-> s]
  /\ \A s \in 1 .. solved : finite[s] \in Outcomes

StorageInv == TypeOK /\ Alone /\ Numbered /\ Names /\ InHand /\ Whole
CellInv    == StorageInv /\ Consistent /\ Answered

-----------------------------------------------------------------------------
LEMMA Order == /\ Parts = {"bias", "weights"} /\ First = "bias" /\ Second = "weights"
               /\ First # Second /\ First \in Parts /\ Second \in Parts
<1>1. Second = "weights"
  BY DEF Second, First, Parts
<1>2. QED BY <1>1 DEF First, Parts

LEMMA Bounds ==
  /\ MaxSolves \in Nat /\ MaxKills \in Nat
  /\ NoFile = 0 /\ Torn = -1 /\ NoFile \notin Inode /\ Torn \notin Solves /\ NoFile \notin Solves
  /\ Outcomes \subseteq SUBSET Parts
BY CheckpointAssumption DEF NoFile, Torn, Inode, Solves

(* Where a step takes its process, and what it leaves of the others.        *)
LEMMA GoneTo ==
  ASSUME TypeOK, NEW p \in Proc, NEW step \in Steps, NEW part \in Parts, GoTo(p, step, part)
  PROVE  /\ pc' \in [Proc -> Steps \X Parts]
         /\ pc'[p] = <<step, part>> /\ pc'[p][1] = step /\ pc'[p][2] = part
         /\ \A q \in Proc : q # p => pc'[q] = pc[q]
BY DEF TypeOK, GoTo

LEMMA Where ==
  ASSUME TypeOK, NEW p \in Proc, NEW step, NEW part, At(p, step, part)
  PROVE  pc[p][1] = step /\ pc[p][2] = part
BY DEF At

-----------------------------------------------------------------------------
(* The storage, whatever comes out finite. *)
LEMMA StorageInit == Init => StorageInv
<1> SUFFICES ASSUME Init PROVE StorageInv
  OBVIOUS
<1>0. NoFile = 0 /\ Torn \in {Torn} \cup Solves /\ MaxSolves \in Nat
  BY Bounds
<1>1. \A p \in Proc : pc[p] = <<"idle", "bias">> /\ fd[p] = NoFile
  BY DEF Init
<1>2. NoPair \in Pair
  BY DEF NoPair, Pair
<1>3. TypeOK
  BY <1>0, <1>2 DEF Init, TypeOK, Steps, Parts
<1>4. Alone /\ InHand
  BY <1>1 DEF Alone, InHand, InCall, At, Saving
<1>5. Numbered
  BY <1>0, <1>1 DEF Init, Numbered, Unopened, At
<1>6. Names /\ Whole
  BY <1>0 DEF Init, Names, Whole, Parts
<1>7. QED BY <1>3, <1>4, <1>5, <1>6 DEF Init, StorageInv

LEMMA CallStores ==
  ASSUME StorageInv, NEW p \in Proc, Call(p)
  PROVE  StorageInv'
<1>0. /\ \A q \in Proc : ~InCall(q)
      /\ UNCHANGED <<bin, tmp, content, fd, inodes, answer, finite, solved, kills>>
  BY DEF Call, files
<1>1. /\ pc' \in [Proc -> Steps \X Parts] /\ pc'[p][1] \in {"load", "solve"}
      /\ \A q \in Proc : q # p => pc'[q] = pc[q]
  BY GoneTo DEF StorageInv, Call, Steps, Parts
<1>2. \A q \in Proc : q # p => pc'[q][1] = "idle"
  BY <1>0, <1>1 DEF InCall
<1>3. pair' \in [Proc -> Pair]
  <2>1. CASE CtsExist
    <3>1. Read("bias") \in {Torn} \cup Solves
      BY <2>1 DEF CtsExist, Read, StorageInv, TypeOK, Parts
    <3>2. [pair[p] EXCEPT !["bias"] = Read("bias")] \in Pair
      BY <3>1 DEF StorageInv, TypeOK, Pair
    <3>3. pair' = [pair EXCEPT ![p] = [pair[p] EXCEPT !["bias"] = Read("bias")]]
      BY <2>1 DEF Call
    <3>4. QED BY <3>2, <3>3 DEF StorageInv, TypeOK
  <2>2. CASE ~CtsExist
    BY <2>2 DEF Call, StorageInv, TypeOK
  <2>3. QED BY <2>1, <2>2
<1>4. TypeOK'
  BY <1>0, <1>1, <1>3 DEF StorageInv, TypeOK
<1>5. \A q \in Proc, part \in Parts : /\ ~At(q, "write", part)' /\ ~At(q, "write", part)
                                      /\ ~At(q, "replace", part)'
  BY <1>0, <1>1, <1>2 DEF At, InCall
<1>6. Alone'
  BY <1>0, <1>2, <1>5 DEF StorageInv, Alone, InCall
<1>7. Numbered'
  BY <1>0, <1>1, <1>2 DEF StorageInv, Numbered, Unopened, At, TypeOK
<1>8. Names' /\ Whole'
  BY <1>0 DEF StorageInv, Names, Whole, Held
<1>9. InHand'
  BY <1>1, <1>2, <1>5 DEF InHand, Saving
<1>10. QED BY <1>0, <1>4, <1>6, <1>7, <1>8, <1>9 DEF StorageInv

(* Steps that leave the files alone and end the saving of their process.    *)
LEMMA QuietStores ==
  ASSUME StorageInv, NEW p \in Proc, UNCHANGED <<bin, tmp, content, inodes, solved, finite>>,
         pc' \in [Proc -> Steps \X Parts], pc'[p][1] \in {"idle", "solve"},
         InCall(p), \A q \in Proc : q # p => pc'[q] = pc[q],
         fd' = [fd EXCEPT ![p] = NoFile],
         pair' = [pair EXCEPT ![p] = NoPair], answer' \in [Proc -> Pair]
  PROVE  StorageInv'
<1>0. \A q \in Proc : q # p => /\ ~InCall(q) /\ fd[q] = NoFile /\ pc'[q] = pc[q]
                               /\ pc[q][1] = "idle"
  BY DEF StorageInv, Alone, InCall, At
<1>1. TypeOK'
  <2>1. NoPair \in Pair
    BY DEF NoPair, Pair
  <2>2. QED BY <2>1 DEF StorageInv, TypeOK
<1>2. \A q \in Proc : fd'[q] = NoFile
  BY <1>0 DEF StorageInv, TypeOK
<1>3. Alone'
  BY <1>0, <1>2 DEF Alone, InCall
<1>4. Numbered'
  BY <1>0 DEF StorageInv, Numbered, Unopened, At, TypeOK
<1>5. Names' /\ Whole'
  BY DEF StorageInv, Names, Whole, Held
<1>6. InHand'
  BY <1>0 DEF InHand, Saving, At
<1>7. QED BY <1>1, <1>3, <1>4, <1>5, <1>6 DEF StorageInv

LEMMA SolveStores ==
  ASSUME StorageInv, NEW p \in Proc, Solve(p)
  PROVE  StorageInv'
<1>0. /\ solved' = solved + 1 /\ solved' \in Solves /\ solved \in Nat
      /\ UNCHANGED <<bin, tmp, content, fd, inodes, answer, kills>>
      /\ pair' = [pair EXCEPT ![p] = [part \in Parts |-> solved']]
      /\ pc[p][1] = "solve" /\ InCall(p)
  BY Bounds DEF Solve, files, StorageInv, TypeOK, Solves, At, InCall
<1>1. /\ pc' \in [Proc -> Steps \X Parts] /\ pc'[p] = <<"open", First>>
      /\ \A q \in Proc : q # p => pc'[q] = pc[q]
  BY GoneTo, Order DEF Solve, StorageInv, Steps
<1>2. \A q \in Proc : q # p => ~InCall(q) /\ pc[q][1] = "idle"
  BY <1>0 DEF StorageInv, Alone, InCall
<1>3. TypeOK'
  <2>1. finite' \in [Solves -> SUBSET Parts]
    <3>1. PICK parts \in Outcomes : finite' = [finite EXCEPT ![solved'] = parts]
      BY DEF Solve
    <3>2. parts \in SUBSET Parts
      BY Bounds
    <3>3. finite \in [Solves -> SUBSET Parts]
      BY DEF StorageInv, TypeOK
    <3> QED
      BY ONLY <3>1, <3>2, <3>3
  <2>2. [part \in Parts |-> solved'] \in Pair
    BY <1>0 DEF Pair
  <2>3. solved' \in 0 .. MaxSolves
    BY <1>0, Bounds DEF Solves
  <2>4. QED BY <1>0, <1>1, <2>1, <2>2, <2>3 DEF StorageInv, TypeOK
<1>4. \A q \in Proc : fd[q] = NoFile
  <2>1. \A q \in Proc, part \in Parts : ~At(q, "write", part)
    BY <1>0, <1>2 DEF At
  <2>2. QED BY <2>1 DEF StorageInv, Alone
<1>5. Alone'
  BY <1>0, <1>1, <1>2, <1>4 DEF Alone, InCall
<1>6. Numbered'
  BY <1>0, <1>1, <1>2 DEF StorageInv, Numbered, Unopened, At, TypeOK
<1>7. Names' /\ Whole'
  BY <1>0 DEF StorageInv, Names, Whole, Held
<1>8. InHand'
  <2>0. pc'[p][2] # Second
    BY <1>1, Order
  <2>1. pair'[p] = [part \in Parts |-> solved']
    BY <1>0 DEF StorageInv, TypeOK
  <2>2. \A q \in Proc, part \in Parts : ~At(q, "write", part)' /\ ~At(q, "replace", part)'
    BY <1>1, <1>2 DEF At
  <2>3. \A q \in Proc : pc'[q][1] \in Saving => q = p
    BY <1>1, <1>2 DEF Saving
  <2>4. solved' > 0
    BY <1>0
  <2>5. QED BY <2>0, <2>1, <2>2, <2>3, <2>4 DEF InHand
<1>9. QED BY <1>0, <1>3, <1>5, <1>6, <1>7, <1>8 DEF StorageInv

(* The others while p is in its call. *)
LEMMA OthersRest ==
  ASSUME StorageInv, NEW p \in Proc, InCall(p)
  PROVE  /\ \A q \in Proc : q # p => /\ ~InCall(q) /\ pc[q][1] = "idle"
                                     /\ fd[q] = NoFile
         /\ \A q \in Proc : \A step, part : q # p /\ step # "idle"
              => ~At(q, step, part)
<1>1. \A q \in Proc : q # p => ~InCall(q) /\ pc[q][1] = "idle"
  BY DEF StorageInv, Alone, InCall
<1>2. \A q \in Proc : \A step, part : q # p /\ step # "idle"
              => ~At(q, step, part)
  BY <1>1 DEF At
<1>3. QED BY <1>1, <1>2 DEF StorageInv, Alone

LEMMA OpenStores ==
  ASSUME StorageInv, NEW p \in Proc, NEW part \in Parts, Open(p, part)
  PROVE  StorageInv' /\ \A x \in Parts : bin[x] # NoFile => Held(x)' = Held(x)
<1>0. /\ TypeOK /\ At(p, "open", part) /\ pc[p][1] = "open" /\ InCall(p)
      /\ UNCHANGED <<bin, pair, answer, finite, solved>>
      /\ solved > 0 /\ pair[p] = [x \in Parts |-> solved]
      /\ solved \in Nat /\ inodes \in Nat /\ inodes < 2 * MaxSolves
  <2>1. At(p, "open", part) /\ UNCHANGED <<bin, pair, answer, finite, solved>>
    BY DEF Open
  <2>2. pc[p][1] = "open" /\ pc[p][2] = part /\ InCall(p)
    BY <2>1 DEF At, InCall
  <2>3. solved > 0 /\ pair[p] = [x \in Parts |-> solved]
    BY <2>2 DEF StorageInv, InHand, Saving
  <2>4. solved \in Nat /\ inodes \in Nat /\ solved <= MaxSolves
    BY Bounds DEF StorageInv, TypeOK
  <2>5. Unopened(p) >= 1
    BY <2>1, <2>2, Order DEF Unopened
  <2>6. Unopened(p) \in {0, 1, 2}
    BY DEF Unopened
  <2>7. inodes + Unopened(p) <= 2 * solved
    BY DEF StorageInv, Numbered
  <2>8. inodes < 2 * MaxSolves
    BY <2>4, <2>5, <2>6, <2>7, Bounds
  <2>9. QED BY <2>1, <2>2, <2>3, <2>4, <2>8 DEF StorageInv
<1>1. /\ pc' \in [Proc -> Steps \X Parts] /\ pc'[p] = <<"write", part>>
      /\ \A q \in Proc : q # p => pc'[q] = pc[q]
  BY <1>0, GoneTo DEF Open, Steps
<1>2. /\ \A q \in Proc : q # p => /\ ~InCall(q) /\ pc[q][1] = "idle"
                                  /\ fd[q] = NoFile
      /\ \A q \in Proc : \A step, x : q # p /\ step # "idle"
           => ~At(q, step, x)
  BY <1>0, OthersRest
<1> DEFINE n == tmp'[part]
<1>3. /\ n \in Inode /\ tmp' = [tmp EXCEPT ![part] = n] /\ fd' = [fd EXCEPT ![p] = n]
      /\ inodes' \in {inodes, inodes + 1} /\ inodes <= inodes' /\ n <= inodes'
      /\ content' \in [Inode -> {Torn} \cup Solves] /\ content'[n] = Torn
      /\ \A m \in Inode : m # n => content'[m] = content[m]
      /\ \A x \in Parts : bin[x] # n
      /\ \A x \in Parts : x # part => tmp[x] # n
      /\ inodes' = inodes + 1 => tmp[part] = NoFile
  <2>1. CASE tmp[part] = NoFile
    <3>1. /\ inodes' = inodes + 1 /\ tmp' = [tmp EXCEPT ![part] = inodes']
          /\ fd' = [fd EXCEPT ![p] = inodes'] /\ content' = content
      BY <2>1 DEF Open
    <3>2. n = inodes' /\ inodes' \in Inode
      BY <1>0, <3>1, Bounds DEF TypeOK, Inode
    <3>3. \A x \in Parts : bin[x] # inodes' /\ tmp[x] # inodes'
      <4>1. \A x \in Parts : bin[x] <= inodes /\ tmp[x] <= inodes
        BY DEF StorageInv, Names
      <4>2. QED BY <1>0, <3>1, <4>1
    <3>4. content[inodes'] = Torn
      BY <1>0, <3>1, <3>2 DEF StorageInv, Numbered
    <3>5. QED BY <1>0, <2>1, <3>1, <3>2, <3>3, <3>4 DEF TypeOK
  <2>2. CASE tmp[part] # NoFile
    <3>1. /\ content' = [content EXCEPT ![tmp[part]] = Torn]
          /\ fd' = [fd EXCEPT ![p] = tmp[part]] /\ UNCHANGED <<tmp, inodes>>
      BY <2>2 DEF Open
    <3>2. n = tmp[part] /\ n \in Inode /\ n <= inodes
      BY <1>0, <2>2, <3>1 DEF TypeOK, StorageInv, Names
    <3>3. /\ \A x \in Parts : bin[x] # n
          /\ \A x \in Parts : x # part => tmp[x] # n
      BY <2>2, <3>2, Order, Bounds DEF StorageInv, Names, Inode
    <3>4. QED BY <1>0, <3>1, <3>2, <3>3, Bounds DEF TypeOK
  <2>3. QED BY <2>1, <2>2
<1> HIDE DEF n
<1>4. TypeOK'
  BY <1>0, <1>1, <1>3 DEF TypeOK
<1>5. Alone'
  <2>1. \A q \in Proc : q # p => fd'[q] = NoFile /\ ~InCall(q)'
    BY <1>0, <1>1, <1>2, <1>3 DEF TypeOK, InCall
  <2>2. At(p, "write", part)'
    BY <1>1 DEF At
  <2>3. QED BY <2>1, <2>2 DEF Alone
<1>6. Numbered'
  <2>1. \A q \in Proc : q # p => Unopened(q)' = 0
    BY <1>1, <1>2 DEF Unopened, At
  <2>2. Unopened(p)' = IF part = First THEN 1 ELSE 0
    BY <1>1, Order DEF Unopened, At
  <2>3. Unopened(p) = IF part = First THEN 2 ELSE 1
    BY <1>0, Order DEF Unopened, At
  <2>4. inodes + Unopened(p) <= 2 * solved
    BY DEF StorageInv, Numbered
  <2>5. inodes' + Unopened(p)' <= 2 * solved
    <3>1. Unopened(p)' \in Int /\ Unopened(p) = Unopened(p)' + 1
      BY <2>2, <2>3
    <3>2. inodes \in Int /\ inodes' \in Int /\ inodes' <= inodes + 1 /\ 2 * solved \in Int
      BY <1>0, <1>3
    <3>3. QED BY <2>4, <3>1, <3>2
  <2>6. inodes' <= 2 * solved
    BY <1>0, <1>3, <2>3, <2>4
  <2>7. \A m \in Inode : m > inodes' => content'[m] = Torn
    <3>1. \A m \in Inode : m > inodes' => m > inodes /\ m # n
      BY <1>0, <1>3 DEF Inode
    <3>2. QED BY <1>3, <3>1 DEF StorageInv, Numbered
  <2>8. QED BY <1>0, <1>3, <2>1, <2>5, <2>6, <2>7 DEF Numbered
<1>7. Names'
  <2>1. \A x \in Parts : tmp'[x] = IF x = part THEN n ELSE tmp[x]
    BY <1>0, <1>3 DEF TypeOK
  <2>2. \A x \in Parts : bin[x] <= inodes' /\ tmp'[x] <= inodes'
    <3>1. \A x \in Parts : bin[x] <= inodes /\ tmp[x] <= inodes
      BY DEF StorageInv, Names
    <3>2. \A x \in Parts : bin[x] \in Int /\ tmp[x] \in Int
      BY <1>0, Bounds DEF TypeOK, Inode
    <3>3. QED BY <1>0, <1>3, <2>1, <3>1, <3>2
  <2>3. QED BY <1>0, <1>3, <2>1, <2>2, Order DEF StorageInv, Names
<1>8. \A x \in Parts : bin[x] # NoFile => Held(x)' = Held(x)
  BY <1>0, <1>3 DEF TypeOK, Held
<1>9. Whole'
  BY <1>0, <1>8 DEF StorageInv, Whole
<1>10. InHand'
  <2>1. \A q \in Proc : q # p => /\ pc'[q][1] \notin Saving
                                 /\ \A x \in Parts : ~At(q, "write", x)' /\ ~At(q, "replace", x)'
    BY <1>1, <1>2 DEF Saving, At
  <2>2. \A x \in Parts : ~At(p, "replace", x)' /\ (At(p, "write", x)' => x = part)
    BY <1>1 DEF At
  <2>3. tmp'[part] = n /\ n # NoFile /\ fd'[p] = n
    BY <1>0, <1>3, Bounds DEF TypeOK
  <2>4. part = Second => bin["bias"] # NoFile /\ Held("bias")' = solved
    <3>1. part = Second => bin["bias"] # NoFile /\ Held("bias") = solved
      BY <1>0 DEF StorageInv, InHand, Saving, At, Held
    <3>2. QED BY <1>8, <3>1, Order
  <2>5. pc'[p][2] = part /\ \A q \in Proc : pc'[q][1] \in Saving => q = p
    BY <1>1, <2>1
  <2>6. QED BY <1>0, <1>3, <2>1, <2>2, <2>3, <2>4, <2>5 DEF InHand, Held
<1>11. QED BY <1>0, <1>4, <1>5, <1>6, <1>7, <1>8, <1>9, <1>10 DEF StorageInv

LEMMA WriteStores ==
  ASSUME StorageInv, NEW p \in Proc, NEW part \in Parts, Write(p, part)
  PROVE  StorageInv' /\ \A x \in Parts : bin[x] # NoFile => Held(x)' = Held(x)
<1>0. /\ TypeOK /\ At(p, "write", part) /\ pc[p][1] = "write" /\ pc[p][2] = part /\ InCall(p)
      /\ UNCHANGED <<bin, tmp, inodes, pair, answer, finite, solved>>
      /\ solved > 0 /\ pair[p] = [x \in Parts |-> solved] /\ solved \in Solves
      /\ tmp[part] # NoFile /\ tmp[part] \in Inode /\ fd[p] = tmp[part]
      /\ content[fd[p]] = Torn
  <2>1. /\ At(p, "write", part)
        /\ UNCHANGED <<bin, tmp, inodes, pair, answer, finite, solved>>
    BY DEF Write
  <2>2. pc[p][1] = "write" /\ pc[p][2] = part /\ InCall(p)
    BY <2>1 DEF At, InCall
  <2>3. /\ solved > 0 /\ pair[p] = [x \in Parts |-> solved]
        /\ tmp[part] # NoFile /\ fd[p] = tmp[part] /\ content[fd[p]] = Torn
    BY <2>1, <2>2 DEF StorageInv, InHand, Saving
  <2>4. solved \in Solves /\ tmp[part] \in Inode /\ TypeOK
    BY <2>3, Bounds DEF StorageInv, TypeOK, Solves
  <2>5. QED BY <2>1, <2>2, <2>3, <2>4
<1>1. /\ pc' \in [Proc -> Steps \X Parts] /\ pc'[p] = <<"replace", part>>
      /\ \A q \in Proc : q # p => pc'[q] = pc[q]
  BY <1>0, GoneTo DEF Write, Steps
<1>2. /\ \A q \in Proc : q # p => /\ ~InCall(q) /\ pc[q][1] = "idle"
                                  /\ fd[q] = NoFile
      /\ \A q \in Proc : \A step, x : q # p /\ step # "idle"
           => ~At(q, step, x)
  BY <1>0, OthersRest
<1>4. /\ content' = [content EXCEPT ![tmp[part]] = solved]
      /\ fd' = [fd EXCEPT ![p] = NoFile]
  BY <1>0 DEF Write
<1>5. TypeOK'
  BY <1>0, <1>1, <1>4 DEF TypeOK
<1>6. Alone'
  <2>1. \A q \in Proc : fd'[q] = NoFile /\ (q # p => ~InCall(q)')
    BY <1>0, <1>1, <1>2, <1>4 DEF TypeOK, InCall
  <2>2. QED BY <2>1 DEF Alone
<1>7. Numbered'
  <2>1. \A q \in Proc : Unopened(q)' = Unopened(q)
    BY <1>0, <1>1, Order DEF Unopened, At
  <2>2. \A m \in Inode : m > inodes => content'[m] = Torn
    <3>1. tmp[part] <= inodes /\ tmp[part] \in Int /\ inodes \in Int
      BY <1>0 DEF StorageInv, Names, Inode, TypeOK
    <3>2. \A m \in Inode : m > inodes => m # tmp[part]
      BY <3>1
    <3>3. QED BY <1>0, <1>4, <3>2 DEF StorageInv, Numbered, TypeOK
  <2>3. QED BY <1>0, <2>1, <2>2 DEF StorageInv, Numbered
<1>8. Names'
  BY <1>0 DEF StorageInv, Names
<1>9. \A x \in Parts : bin[x] # NoFile => Held(x)' = Held(x)
  <2>1. \A x \in Parts : bin[x] # NoFile => bin[x] # tmp[part]
    BY DEF StorageInv, Names
  <2>2. QED BY <1>0, <1>4, <2>1 DEF TypeOK, Held
<1>10. Whole'
  BY <1>0, <1>9 DEF StorageInv, Whole
<1>11. InHand'
  <2>1. \A q \in Proc : q # p => /\ pc'[q][1] \notin Saving
                                 /\ \A x \in Parts : ~At(q, "write", x)' /\ ~At(q, "replace", x)'
    BY <1>1, <1>2 DEF Saving, At
  <2>2. \A x \in Parts : ~At(p, "write", x)' /\ (At(p, "replace", x)' => x = part)
    BY <1>1 DEF At
  <2>3. content'[tmp[part]] = solved
    BY <1>0, <1>4 DEF TypeOK
  <2>4. part = Second => bin["bias"] # NoFile /\ Held("bias")' = solved
    <3>1. part = Second => bin["bias"] # NoFile /\ Held("bias") = solved
      BY <1>0 DEF StorageInv, InHand, Saving, Held
    <3>2. QED BY <1>9, <3>1, Order
  <2>5. pc'[p][2] = part /\ \A q \in Proc : pc'[q][1] \in Saving => q = p
    BY <1>1, <2>1
  <2>6. QED BY <1>0, <2>1, <2>2, <2>3, <2>4, <2>5 DEF InHand, Held
<1>12. QED BY <1>0, <1>5, <1>6, <1>7, <1>8, <1>9, <1>10, <1>11 DEF StorageInv

(* What a rename leaves: the part of the latest solve under its name.        *)
LEMMA ReplaceStores ==
  ASSUME StorageInv, NEW p \in Proc, NEW part \in Parts, Replace(p, part)
  PROVE  /\ StorageInv'
         /\ \A x \in Parts : x # part => bin'[x] = bin[x] /\ Held(x)' = Held(x)
         /\ bin'[part] # NoFile /\ Held(part)' = solved
         /\ pair[p] = [x \in Parts |-> solved]
<1>0. /\ TypeOK /\ At(p, "replace", part) /\ pc[p][1] = "replace" /\ pc[p][2] = part
      /\ InCall(p)
      /\ UNCHANGED <<content, fd, inodes, finite, solved>>
      /\ solved > 0 /\ pair[p] = [x \in Parts |-> solved] /\ solved \in 1 .. solved
      /\ tmp[part] # NoFile /\ tmp[part] \in Inode /\ content[tmp[part]] = solved
      /\ bin' = [bin EXCEPT ![part] = tmp[part]] /\ tmp' = [tmp EXCEPT ![part] = NoFile]
  <2>1. /\ At(p, "replace", part) /\ tmp[part] # NoFile
        /\ UNCHANGED <<content, fd, inodes, finite, solved>>
        /\ bin' = [bin EXCEPT ![part] = tmp[part]] /\ tmp' = [tmp EXCEPT ![part] = NoFile]
    BY DEF Replace
  <2>2. pc[p][1] = "replace" /\ pc[p][2] = part /\ InCall(p)
    BY <2>1 DEF At, InCall
  <2>3. /\ solved > 0 /\ pair[p] = [x \in Parts |-> solved]
        /\ content[tmp[part]] = solved
    BY <2>1, <2>2 DEF StorageInv, InHand, Saving
  <2>4. solved \in 1 .. solved /\ tmp[part] \in Inode /\ TypeOK
    BY <2>1, <2>3, Bounds DEF StorageInv, TypeOK
  <2>5. QED BY <2>1, <2>2, <2>3, <2>4
<1>1. /\ pc' \in [Proc -> Steps \X Parts] /\ pc'[p] \in {<<"open", Second>>, <<"idle", "bias">>}
      /\ pc'[p] = <<"open", Second>> => part = First
      /\ pc'[p] # <<"open", Second>> => part = Second
      /\ \A q \in Proc : q # p => pc'[q] = pc[q]
  <2>1. CASE part = First
    <3>1. GoTo(p, "open", Second)
      BY <2>1 DEF Replace
    <3>2. QED BY <1>0, <2>1, <3>1, GoneTo, Order DEF Steps
  <2>2. CASE part # First
    <3>1. GoTo(p, "idle", "bias") /\ part = Second
      BY <2>2, Order DEF Replace
    <3>2. QED BY <1>0, <3>1, GoneTo, Order DEF Steps
  <2>3. QED BY <2>1, <2>2
<1>2. /\ \A q \in Proc : q # p => /\ ~InCall(q) /\ pc[q][1] = "idle"
                                  /\ fd[q] = NoFile
      /\ \A q \in Proc : \A step, x : q # p /\ step # "idle"
           => ~At(q, step, x)
  BY <1>0, OthersRest
<1>3. /\ \A x \in Parts : bin'[x] = IF x = part THEN tmp[part] ELSE bin[x]
      /\ \A x \in Parts : tmp'[x] = IF x = part THEN NoFile ELSE tmp[x]
  BY <1>0 DEF TypeOK
<1>4. /\ pair' \in [Proc -> Pair] /\ answer' \in [Proc -> Pair]
      /\ part = First => pair' = pair
  <2>1. NoPair \in Pair /\ pair[p] \in Pair
    BY <1>0 DEF NoPair, Pair, TypeOK
  <2>2. CASE part = First
    BY <1>0, <2>2 DEF Replace, TypeOK
  <2>3. CASE part # First
    <3>1. answer' = [answer EXCEPT ![p] = pair[p]] /\ pair' = [pair EXCEPT ![p] = NoPair]
      BY <2>3 DEF Replace
    <3>2. QED BY <1>0, <2>1, <2>3, <3>1 DEF TypeOK
  <2>4. QED BY <2>2, <2>3
<1>5. TypeOK'
  BY <1>0, <1>1, <1>4 DEF TypeOK
<1>6. Alone'
  <2>1. \A q \in Proc : q # p => ~InCall(q)'
    BY <1>1, <1>2 DEF InCall
  <2>2. \A x \in Parts : ~At(p, "write", x)
    BY <1>0 DEF At
  <2>3. \A q \in Proc : fd[q] = NoFile
    BY <1>2, <2>2 DEF StorageInv, Alone
  <2>4. QED BY <1>0, <2>1, <2>3 DEF Alone
<1>7. Numbered'
  <2>1. \A q \in Proc : q # p => Unopened(q)' = 0
    BY <1>1, <1>2 DEF Unopened, At
  <2>2. part = First => Unopened(p)' = 1 /\ Unopened(p) = 1
    BY <1>0, <1>1, Order DEF Unopened, At
  <2>3. part = Second => Unopened(p)' = 0 /\ Unopened(p) = 0
    BY <1>0, <1>1, Order DEF Unopened, At
  <2>4. inodes <= 2 * solved /\ inodes + Unopened(p) <= 2 * solved
    BY DEF StorageInv, Numbered
  <2>5. inodes' = inodes /\ inodes \in Nat /\ solved' = solved
    BY <1>0 DEF TypeOK
  <2>6. \A q \in Proc : inodes' + Unopened(q)' <= 2 * solved'
    BY <2>1, <2>2, <2>3, <2>4, <2>5, Order
  <2>7. \A n \in Inode : n > inodes' => content'[n] = Torn
    BY <1>0 DEF StorageInv, Numbered
  <2>8. QED BY <2>4, <2>5, <2>6, <2>7 DEF Numbered
<1>8. Names'
  <2>1. NoFile <= inodes
    BY <1>0, Bounds DEF TypeOK
  <2>2. QED BY <1>0, <1>3, <2>1, Order DEF StorageInv, Names
<1>9. /\ \A x \in Parts : x # part => bin'[x] = bin[x] /\ Held(x)' = Held(x)
      /\ bin'[part] # NoFile /\ Held(part)' = solved
  BY <1>0, <1>3 DEF Held
<1>10. Whole'
  <2>1. \A x \in Parts : bin'[x] # NoFile => Held(x)' \in 1 .. solved
    BY <1>0, <1>9 DEF StorageInv, Whole
  <2>2. bin'["weights"] # NoFile => bin'["bias"] # NoFile
    <3>1. part = Second => bin["bias"] # NoFile
      BY <1>0 DEF StorageInv, InHand, Saving
    <3>2. QED BY <1>9, <3>1, Order DEF StorageInv, Whole
  <2>3. QED BY <1>0, <2>1, <2>2 DEF Whole
<1>11. InHand'
  <2>1. \A q \in Proc : q # p => /\ pc'[q][1] \notin Saving
                                 /\ \A x \in Parts : ~At(q, "write", x)' /\ ~At(q, "replace", x)'
    BY <1>1, <1>2 DEF Saving, At
  <2>2. \A x \in Parts : ~At(p, "write", x)' /\ ~At(p, "replace", x)'
    BY <1>1 DEF At
  <2>3. pc'[p][1] \in Saving => pair' = pair
    BY <1>1, <1>4, Order DEF Saving
  <2>4. pc'[p][1] \in Saving => bin'["bias"] # NoFile /\ Held("bias")' = solved
    BY <1>1, <1>9, Order DEF Saving
  <2>5. QED BY <1>0, <2>1, <2>2, <2>3, <2>4 DEF InHand, Held
<1>12. QED BY <1>0, <1>5, <1>6, <1>7, <1>8, <1>9, <1>10, <1>11 DEF StorageInv

LEMMA ResumeStores ==
  ASSUME StorageInv, NEW p \in Proc, Resume(p)
  PROVE  StorageInv'
<1> DEFINE q == [pair[p] EXCEPT !["weights"] = Read("weights")]
<1>1. /\ TypeOK /\ UNCHANGED <<bin, tmp, content, inodes, fd, solved, finite>>
      /\ pair' = [pair EXCEPT ![p] = NoPair]
      /\ pc[p][1] = "load" /\ pc[p][2] = "weights" /\ InCall(p)
  BY DEF StorageInv, Resume, files, At, InCall
<1>2. /\ pc' \in [Proc -> Steps \X Parts] /\ pc'[p][1] \in {"idle", "solve"}
      /\ \A x \in Proc : x # p => pc'[x] = pc[x]
  <2>1. CASE AreFinite(q)
    <3>1. GoTo(p, "idle", "bias")
      BY <2>1 DEF Resume
    <3>2. QED BY <1>1, <3>1, GoneTo DEF Steps, Parts
  <2>2. CASE ~AreFinite(q)
    <3>1. GoTo(p, "solve", "bias")
      BY <2>2 DEF Resume
    <3>2. QED BY <1>1, <3>1, GoneTo DEF Steps, Parts
  <2>3. QED BY <2>1, <2>2
<1>3. fd' = [fd EXCEPT ![p] = NoFile]
  <2>1. \A part \in Parts : ~At(p, "write", part)
    BY <1>1 DEF At
  <2>2. fd[p] = NoFile
    BY <2>1 DEF StorageInv, Alone
  <2>3. QED BY <1>1, <2>2 DEF TypeOK
<1>4. answer' \in [Proc -> Pair]
  <2>1. CASE AreFinite(q)
    <3>1. q \in Pair
      <4>1. pair[p] \in Pair /\ q["weights"] \in Solves
        BY <1>1, <2>1 DEF TypeOK, AreFinite, Parts
      <4>2. Read("weights") \in Solves
        BY <4>1 DEF Pair, Parts
      <4>3. QED BY <4>1, <4>2 DEF Pair
    <3>2. answer' = [answer EXCEPT ![p] = q]
      BY <2>1 DEF Resume
    <3>3. QED BY <1>1, <3>1, <3>2 DEF TypeOK
  <2>2. CASE ~AreFinite(q)
    <3>1. UNCHANGED answer
      BY <2>2 DEF Resume
    <3>2. QED BY <1>1, <3>1 DEF TypeOK
  <2>3. QED BY <2>1, <2>2
<1> HIDE DEF q
<1>5. QED BY <1>1, <1>2, <1>3, <1>4, QuietStores

LEMMA KillStores ==
  ASSUME StorageInv, NEW p \in Proc, Kill(p)
  PROVE  StorageInv'
<1>1. /\ UNCHANGED <<bin, tmp, content, inodes, answer, finite, solved>>
      /\ pair' = [pair EXCEPT ![p] = NoPair] /\ fd' = [fd EXCEPT ![p] = NoFile]
      /\ InCall(p) /\ answer' \in [Proc -> Pair] /\ TypeOK
  BY DEF StorageInv, TypeOK, Kill
<1>2. /\ pc' \in [Proc -> Steps \X Parts] /\ pc'[p][1] \in {"idle", "solve"}
      /\ \A x \in Proc : x # p => pc'[x] = pc[x]
  BY <1>1, GoneTo DEF Kill, Steps, Parts
<1>3. QED BY <1>1, <1>2, QuietStores

LEMMA StorageNext ==
  ASSUME StorageInv, [Next]_vars
  PROVE  StorageInv'
<1>1. CASE UNCHANGED vars
  BY <1>1 DEF StorageInv, TypeOK, Alone, Numbered, Names, InHand, Whole, InCall, At,
              Unopened, Held, vars
<1>2. CASE Next
  <2>1. PICK p \in Proc : Advance(p) \/ Kill(p)
    BY <1>2 DEF Next
  <2>2. CASE Call(p)
    BY <2>2, CallStores
  <2>3. CASE Resume(p)
    BY <2>3, ResumeStores
  <2>4. CASE Solve(p)
    BY <2>4, SolveStores
  <2>5. CASE \E part \in Parts : Open(p, part)
    BY <2>5, OpenStores
  <2>6. CASE \E part \in Parts : Write(p, part)
    BY <2>6, WriteStores
  <2>7. CASE \E part \in Parts : Replace(p, part)
    BY <2>7, ReplaceStores
  <2>8. CASE Kill(p)
    BY <2>8, KillStores
  <2>9. QED BY <2>1, <2>2, <2>3, <2>4, <2>5, <2>6, <2>7, <2>8 DEF Advance
<1>3. QED BY <1>1, <1>2

(* The names, the temporary names and the process in the call keep to       *)
(* StorageInv through every kill, whatever the solves come out as.          *)
THEOREM StorageInvariance == Spec => []StorageInv
<1>1. Init => StorageInv
  BY StorageInit
<1>2. StorageInv /\ [Next]_vars => StorageInv'
  BY StorageNext
<1>3. QED BY <1>1, <1>2, PTL DEF Spec

(* No kill leaves a truncated bias.bin or weights.bin: the comment of       *)
(* _save_cts.                                                               *)
THEOREM KillsNeverTruncate == Spec => []NeverTruncated
<1>1. StorageInv => NeverTruncated
  <2>1. ASSUME StorageInv, NEW part \in Parts, bin[part] # NoFile
        PROVE  content[bin[part]] # Torn
    <3>1. content[bin[part]] \in 1 .. solved
      BY <2>1 DEF StorageInv, Whole, Held
    <3>2. QED BY <3>1, Bounds
  <2>2. QED BY <2>1 DEF NeverTruncated
<1>2. QED BY <1>1, StorageInvariance, PTL

-----------------------------------------------------------------------------
(* What the names hold together, when no solve loses its bias alone. *)

(* Steps that move no checkpoint: the names, what they hold and how that     *)
(* solve came out are the same afterwards.                                  *)
Unmoved == /\ bin' = bin /\ \A x \in Parts : bin[x] # NoFile => Held(x)' = Held(x)
           /\ \A s \in 1 .. solved : finite'[s] = finite[s]

LEMMA UnmovedKeeps ==
  ASSUME StorageInv, Unmoved
  PROVE  (Useless => Useless') /\ (Matched => Matched')
         /\ (CtsExist => CtsExist' /\ Held("bias")' = Held("bias"))
BY DEF StorageInv, Whole, Unmoved, Useless, Matched, CtsExist, Parts

LEMMA Unmoves ==
  ASSUME StorageInv, NEW p \in Proc,
         \/ Call(p) \/ Resume(p) \/ Solve(p) \/ Kill(p)
         \/ \E part \in Parts : Open(p, part) \/ Write(p, part)
  PROVE  Unmoved
<1>1. CASE Call(p) \/ Resume(p) \/ Kill(p)
  BY <1>1 DEF Call, Resume, Kill, files, Unmoved, Held
<1>2. CASE Solve(p)
  <2>1. /\ solved' = solved + 1 /\ UNCHANGED <<bin, content>>
        /\ \E parts \in Outcomes : finite' = [finite EXCEPT ![solved'] = parts]
    BY <1>2 DEF Solve, files
  <2>2. \A s \in 1 .. solved : finite'[s] = finite[s]
    BY <2>1, Bounds DEF StorageInv, TypeOK, Solves
  <2>3. QED BY <2>1, <2>2 DEF Unmoved, Held
<1>3. ASSUME NEW part \in Parts, Open(p, part) \/ Write(p, part)
      PROVE  Unmoved
  <2>1. \A x \in Parts : bin[x] # NoFile => Held(x)' = Held(x)
    BY <1>3, OpenStores, WriteStores
  <2>2. bin' = bin /\ finite' = finite
    BY <1>3 DEF Open, Write
  <2>3. QED BY <2>1, <2>2 DEF Unmoved
<1>4. QED BY <1>1, <1>2, <1>3

(* The two parts of one solve. *)
Both(s) == [part \in Parts |-> s]

LEMMA CellStart == Init => CellInv
<1> SUFFICES ASSUME Init PROVE CellInv
  OBVIOUS
<1>1. \A p \in Proc : pc[p] = <<"idle", "bias">> /\ answer[p] = [part \in Parts |-> 0]
  BY DEF Init, NoPair, NoFile
<1>2. bin["weights"] = NoFile /\ solved = 0
  BY DEF Init, Parts
<1>3. Consistent
  BY <1>1, <1>2 DEF Consistent, Useless, Saving, At
<1>4. Answered
  <2>1. 0 \in 0 .. solved /\ \A s \in 1 .. solved : FALSE
    BY <1>2
  <2>2. QED BY <1>1, <2>1 DEF Answered
<1>5. QED BY <1>3, <1>4, StorageInit DEF CellInv

LEMMA CellCall ==
  ASSUME CellInv, NEW p \in Proc, Call(p)
  PROVE  Consistent' /\ Answered'
<1>0. /\ StorageInv /\ TypeOK /\ Unmoved /\ \A q \in Proc : ~InCall(q)
      /\ UNCHANGED <<answer, finite, solved>>
  BY Unmoves DEF CellInv, StorageInv, Call
<1>1. \A q \in Proc : q # p => pc'[q] = pc[q] /\ pc[q][1] = "idle"
  BY <1>0, GoneTo DEF Call, Steps, Parts, InCall
<1>2. CASE CtsExist
  <2>1. /\ GoTo(p, "load", "weights")
        /\ pair' = [pair EXCEPT ![p] = [pair[p] EXCEPT !["bias"] = Held("bias")]]
    BY <1>2 DEF Call, Read, Held
  <2>2. pc'[p] = <<"load", "weights">> /\ pc'[p][1] = "load"
    BY <1>0, <2>1, GoneTo DEF Steps, Parts
  <2>3. pair'[p]["bias"] = Held("bias")
    BY <1>0, <2>1 DEF TypeOK, Pair, Parts
  <2>4. Consistent'
    BY <1>0, <1>1, <1>2, <2>2, <2>3, UnmovedKeeps DEF CellInv, Consistent, Saving, At
  <2>5. QED BY <1>0, <2>4 DEF CellInv, Answered
<1>3. CASE ~CtsExist
  <2>1. GoTo(p, "solve", "bias")
    BY <1>3 DEF Call
  <2>2. pc'[p] = <<"solve", "bias">>
    BY <1>0, <2>1, GoneTo DEF Steps, Parts
  <2>3. Useless
    BY <1>0, <1>3 DEF StorageInv, Whole, CtsExist, Useless, Parts
  <2>4. Consistent'
    BY <1>0, <1>1, <2>2, <2>3, UnmovedKeeps DEF Consistent, Saving, At
  <2>5. QED BY <1>0, <2>4 DEF CellInv, Answered
<1>4. QED BY <1>2, <1>3

(* A call that resumes: it returns the stored solve whole, or what is       *)
(* stored is useless.                                                       *)
LEMMA CellResume ==
  ASSUME BiasHoldsOut, CellInv, NEW p \in Proc, Resume(p)
  PROVE  /\ Consistent' /\ Answered'
         /\ \/ answer' = answer
            \/ /\ Matched /\ finite[Held("bias")] = Parts
               /\ answer' = [answer EXCEPT ![p] = Both(Held("bias"))]
<1> DEFINE q == [pair[p] EXCEPT !["weights"] = Read("weights")]
<1>0. /\ StorageInv /\ TypeOK /\ Unmoved /\ At(p, "load", "weights")
      /\ pc[p][1] = "load" /\ InCall(p)
      /\ UNCHANGED <<finite, solved>> /\ pair[p] \in Pair
      /\ CtsExist /\ pair[p]["bias"] = Held("bias")
  <2>1. StorageInv /\ TypeOK /\ Unmoved
    BY Unmoves DEF CellInv, StorageInv
  <2>2. At(p, "load", "weights") /\ UNCHANGED <<finite, solved>>
    BY DEF Resume
  <2>3. pc[p][1] = "load" /\ InCall(p)
    BY <2>2 DEF At, InCall
  <2>4. pair[p] \in Pair
    BY <2>1 DEF TypeOK
  <2>5. QED BY <2>1, <2>2, <2>3, <2>4 DEF CellInv, Consistent
<1>1. q["bias"] = Held("bias") /\ q["weights"] = Held("weights") /\ DOMAIN q = Parts
  BY <1>0 DEF Pair, Parts, Read, Held
<1>2. Held("bias") \in 1 .. solved /\ Held("weights") \in 1 .. solved
  BY <1>0 DEF StorageInv, Whole, CtsExist, Parts
<1>3. 1 .. solved \subseteq Solves
  BY <1>0, Bounds DEF TypeOK, Solves
<1>4. AreFinite(q) <=> "bias" \in finite[Held("bias")] /\ "weights" \in finite[Held("weights")]
  BY <1>1, <1>2, <1>3 DEF AreFinite, Parts
<1>5. \A x \in Proc : x # p => pc'[x] = pc[x] /\ pc[x][1] = "idle"
  BY <1>0, GoneTo, OthersRest DEF Resume, Steps, Parts
<1>6. CASE AreFinite(q)
  <2>1. GoTo(p, "idle", "bias") /\ answer' = [answer EXCEPT ![p] = q]
    BY <1>6 DEF Resume
  <2>2. Matched
    BY <1>0, <1>4, <1>6 DEF CellInv, Consistent, Useless, CtsExist, Parts
  <2>3. q = Both(Held("bias"))
    <3>1. \A part \in Parts : q[part] = Held("bias")
      BY <1>1, <2>2 DEF Matched, Parts
    <3>2. q \in Pair
      <4>1. Read("weights") \in Solves
        BY <1>2, <1>3 DEF Read, Held
      <4>2. QED BY <1>0, <4>1 DEF Pair
    <3>3. q = [part \in Parts |-> q[part]]
      BY <3>2 DEF Pair
    <3>4. QED BY <3>1, <3>3 DEF Both
  <2>4. finite[Held("bias")] = Parts
    <3>1. finite[Held("bias")] \subseteq Parts
      BY <1>0, <1>2, <1>3 DEF TypeOK
    <3>2. QED BY <1>4, <1>6, <2>2, <3>1 DEF Matched, Parts
  <2>5. pc'[p] = <<"idle", "bias">>
    BY <1>0, <2>1, GoneTo DEF Steps, Parts
  <2>6. Consistent'
    BY <1>0, <1>5, <2>2, <2>5, UnmovedKeeps DEF Consistent, Saving, At
  <2>7. Answered'
    <3>1. \A x \in Proc : \E s \in 0 .. solved : answer'[x] = [part \in Parts |-> s]
      <4>1. Held("bias") \in 0 .. solved
        BY <1>2
      <4>2. answer'[p] = [part \in Parts |-> Held("bias")]
        BY <1>0, <2>1, <2>3 DEF TypeOK, Both
      <4>3. \A x \in Proc : x # p => answer'[x] = answer[x]
        BY <1>0, <2>1 DEF TypeOK
      <4>4. \A x \in Proc : \E s \in 0 .. solved : answer[x] = [part \in Parts |-> s]
        BY DEF CellInv, Answered
      <4>5. ASSUME NEW x \in Proc
            PROVE  \E s \in 0 .. solved : answer'[x] = [part \in Parts |-> s]
        <5>1. CASE x = p
          BY <4>1, <4>2, <5>1
        <5>2. CASE x # p
          BY <4>3, <4>4, <5>2
        <5>3. QED BY <5>1, <5>2
      <4>6. QED BY <4>5
    <3>2. QED BY <1>0, <3>1 DEF CellInv, Answered
  <2>8. QED BY <2>1, <2>2, <2>3, <2>4, <2>6, <2>7
<1>7. CASE ~AreFinite(q)
  <2>1. GoTo(p, "solve", "bias") /\ answer' = answer
    BY <1>7 DEF Resume
  <2>2. Useless
    <3>1. CASE Matched
      <4>1. finite[Held("bias")] \in Outcomes
        BY <1>2 DEF CellInv, Answered
      <4>2. "weights" \notin finite[Held("bias")]
        BY <1>4, <1>7, <3>1, <4>1 DEF Matched, BiasHoldsOut
      <4>3. QED BY <3>1, <4>2 DEF Matched, Useless
    <3>2. QED BY <3>1 DEF CellInv, Consistent
  <2>3. pc'[p] = <<"solve", "bias">>
    BY <1>0, <2>1, GoneTo DEF Steps, Parts
  <2>4. Consistent'
    BY <1>0, <1>5, <2>2, <2>3, UnmovedKeeps DEF Consistent, Saving, At
  <2>5. QED BY <1>0, <2>1, <2>4 DEF CellInv, Answered
<1>8. QED BY <1>6, <1>7

LEMMA CellSolve ==
  ASSUME CellInv, NEW p \in Proc, Solve(p)
  PROVE  Consistent' /\ Answered'
<1>0. /\ StorageInv /\ TypeOK /\ Unmoved /\ At(p, "solve", "bias")
      /\ pc[p][1] = "solve" /\ InCall(p) /\ solved' = solved + 1 /\ answer' = answer
      /\ solved \in Nat /\ solved' \in Solves
  <2>1. StorageInv /\ TypeOK /\ Unmoved
    BY Unmoves DEF CellInv, StorageInv
  <2>2. At(p, "solve", "bias") /\ solved' = solved + 1 /\ answer' = answer
    BY DEF Solve
  <2>3. solved \in Nat /\ solved' \in Solves
    BY <2>1, <2>2, Bounds DEF Solve, TypeOK, Solves
  <2>4. QED BY <2>1, <2>2, <2>3 DEF At, InCall
<1>1. \A x \in Proc : x # p => pc'[x] = pc[x] /\ pc[x][1] = "idle"
  BY <1>0, GoneTo, OthersRest, Order DEF Solve, Steps
<1>2. Useless
  BY <1>0 DEF CellInv, Consistent
<1>3. pc'[p] = <<"open", "bias">>
  BY <1>0, GoneTo, Order DEF Solve, Steps
<1>4. Consistent'
  BY <1>0, <1>1, <1>2, <1>3, UnmovedKeeps DEF Consistent, Saving, At
<1>5. Answered'
  <2>1. PICK parts \in Outcomes : finite' = [finite EXCEPT ![solved'] = parts]
    BY DEF Solve
  <2>2. \A s \in 1 .. solved' : finite'[s] \in Outcomes
    <3>1. finite'[solved'] \in Outcomes
      BY <1>0, <2>1 DEF TypeOK
    <3>2. \A s \in 1 .. solved : finite'[s] \in Outcomes
      BY <1>0 DEF Unmoved, CellInv, Answered
    <3>3. \A s \in 1 .. solved' : s = solved' \/ s \in 1 .. solved
      BY <1>0
    <3>4. QED BY <3>1, <3>2, <3>3
  <2>3. 0 .. solved \subseteq 0 .. solved'
    BY <1>0
  <2>4. QED BY <1>0, <2>2, <2>3 DEF CellInv, Answered
<1>6. QED BY <1>4, <1>5

LEMMA CellFile ==
  ASSUME CellInv, NEW p \in Proc, NEW part \in Parts,
         Open(p, part) \/ Write(p, part)
  PROVE  Consistent' /\ Answered' /\ answer' = answer
<1>0. /\ StorageInv /\ TypeOK /\ Unmoved /\ pc[p][1] \in {"open", "write"} /\ InCall(p)
      /\ UNCHANGED <<answer, solved, finite>>
  <2>1. StorageInv /\ TypeOK /\ Unmoved
    BY Unmoves DEF CellInv, StorageInv
  <2>2. pc[p][1] \in {"open", "write"} /\ UNCHANGED <<answer, solved, finite>>
    BY DEF Open, Write, At
  <2>3. QED BY <2>1, <2>2 DEF InCall
<1>1. pc'[p][1] \in {"write", "replace"}
      /\ \A x \in Proc : x # p => pc'[x] = pc[x] /\ pc[x][1] = "idle"
  BY <1>0, GoneTo, OthersRest DEF Open, Write, Steps
<1>2. Useless
  BY <1>0 DEF CellInv, Consistent, Saving
<1>3. Consistent'
  BY <1>0, <1>1, <1>2, UnmovedKeeps DEF Consistent, Saving, At
<1>4. QED BY <1>0, <1>3 DEF CellInv, Answered

LEMMA CellKill ==
  ASSUME CellInv, NEW p \in Proc, Kill(p)
  PROVE  Consistent' /\ Answered' /\ answer' = answer
<1>0. StorageInv /\ TypeOK /\ Unmoved /\ InCall(p) /\ UNCHANGED <<answer, solved, finite>>
  BY Unmoves DEF CellInv, StorageInv, Kill
<1>1. /\ pc'[p] = <<"idle", "bias">>
      /\ \A x \in Proc : x # p => pc'[x] = pc[x] /\ pc[x][1] = "idle"
  BY <1>0, GoneTo, OthersRest DEF Kill, Steps, Parts
<1>2. Consistent'
  BY <1>0, <1>1, UnmovedKeeps DEF CellInv, Consistent, Saving, At
<1>3. QED BY <1>0, <1>2 DEF CellInv, Answered

(* The first rename of a save leaves weights that are still useless, the    *)
(* second the two parts of the solve.                                       *)
LEMMA CellReplace ==
  ASSUME CellInv, NEW p \in Proc, NEW part \in Parts, Replace(p, part)
  PROVE  /\ Consistent' /\ Answered' /\ Useless
         /\ \/ Useless' /\ answer' = answer
            \/ /\ Matched' /\ Held("bias")' = solved /\ solved \in 1 .. solved
               /\ answer' = [answer EXCEPT ![p] = Both(solved)]
<1>0. /\ StorageInv /\ TypeOK /\ At(p, "replace", part) /\ pc[p][1] = "replace"
      /\ pc[p][2] = part /\ InCall(p) /\ solved > 0 /\ solved \in 1 .. solved
      /\ UNCHANGED <<solved, finite>>
  <2>1. StorageInv /\ TypeOK /\ At(p, "replace", part) /\ UNCHANGED <<solved, finite>>
    BY DEF CellInv, StorageInv, Replace
  <2>2. pc[p][1] = "replace" /\ pc[p][2] = part /\ InCall(p)
    BY <2>1 DEF At, InCall
  <2>3. solved > 0
    BY <2>1, <2>2 DEF StorageInv, InHand, Saving
  <2>4. QED BY <2>1, <2>2, <2>3 DEF TypeOK
<1>1. /\ \A x \in Parts : x # part => bin'[x] = bin[x] /\ Held(x)' = Held(x)
      /\ bin'[part] # NoFile /\ Held(part)' = solved
      /\ pair[p] = [x \in Parts |-> solved]
  BY <1>0, ReplaceStores
<1>2. Useless
  BY <1>0 DEF CellInv, Consistent, Saving
<1>3. CASE part = First
  <2>1. GoTo(p, "open", Second) /\ UNCHANGED <<pair, answer>>
    BY <1>3 DEF Replace
  <2>2. Useless'
    BY <1>0, <1>1, <1>2, <1>3, Order DEF Useless
  <2>3. pc'[p][1] = "open"
        /\ \A x \in Proc : x # p => pc'[x] = pc[x] /\ pc[x][1] = "idle"
    BY <1>0, <2>1, GoneTo, OthersRest, Order DEF Steps
  <2>4. Consistent'
    BY <2>2, <2>3 DEF Consistent, Saving, At
  <2>5. QED BY <1>0, <1>2, <2>1, <2>2, <2>4 DEF CellInv, Answered
<1>4. CASE part # First
  <2>1. GoTo(p, "idle", "bias") /\ answer' = [answer EXCEPT ![p] = pair[p]]
    BY <1>4 DEF Replace
  <2>2. part = "weights"
    BY <1>4, Order
  <2>3. bin["bias"] # NoFile /\ Held("bias") = solved
    BY <1>0, <2>2, Order DEF StorageInv, InHand, Saving, Held
  <2>4. bin'["bias"] = bin["bias"] /\ Held("bias")' = Held("bias")
    BY <1>1, <2>2, Order
  <2>5. Matched' /\ Held("bias")' = solved
    BY <1>1, <2>2, <2>3, <2>4, Order DEF Matched, CtsExist
  <2>6. pc'[p] = <<"idle", "bias">>
        /\ \A x \in Proc : x # p => pc'[x] = pc[x] /\ pc[x][1] = "idle"
    BY <1>0, <2>1, GoneTo, OthersRest, Order DEF Steps
  <2>7. Consistent'
    BY <2>5, <2>6 DEF Consistent, Saving, At
  <2>8. answer' = [answer EXCEPT ![p] = Both(solved)]
    BY <1>1, <2>1 DEF Both
  <2>9. Answered'
    <3>1. ASSUME NEW x \in Proc
          PROVE  \E s \in 0 .. solved : answer'[x] = [y \in Parts |-> s]
      <4>1. CASE x = p
        <5>1. answer'[x] = [y \in Parts |-> solved] /\ solved \in 0 .. solved
          BY <1>0, <2>8, <4>1 DEF TypeOK, Both
        <5>2. QED BY <5>1
      <4>2. CASE x # p
        <5>1. answer'[x] = answer[x]
          BY <1>0, <2>8, <4>2 DEF TypeOK
        <5>2. QED BY <5>1 DEF CellInv, Answered
      <4>3. QED BY <4>1, <4>2
    <3>2. QED BY <1>0, <3>1 DEF CellInv, Answered
  <2>10. QED BY <1>0, <1>2, <2>5, <2>7, <2>8, <2>9
<1>5. QED BY <1>3, <1>4

LEMMA CellStep ==
  ASSUME BiasHoldsOut, CellInv, [Next]_vars
  PROVE  CellInv'
<1>0. StorageInv'
  BY StorageNext DEF CellInv
<1>1. CASE UNCHANGED vars
  <2>1. Consistent' /\ Answered'
    BY <1>1 DEF CellInv, Consistent, Answered, Useless, Matched, CtsExist, Held, At, vars
  <2>2. QED BY <1>0, <2>1 DEF CellInv
<1>2. CASE Next
  <2>1. PICK p \in Proc : Advance(p) \/ Kill(p)
    BY <1>2 DEF Next
  <2>2. CASE Call(p)
    BY <1>0, <2>2, CellCall DEF CellInv
  <2>3. CASE Resume(p)
    BY <1>0, <2>3, CellResume DEF CellInv
  <2>4. CASE Solve(p)
    BY <1>0, <2>4, CellSolve DEF CellInv
  <2>5. CASE \E part \in Parts : Open(p, part) \/ Write(p, part)
    BY <1>0, <2>5, CellFile DEF CellInv
  <2>6. CASE \E part \in Parts : Replace(p, part)
    BY <1>0, <2>6, CellReplace DEF CellInv
  <2>7. CASE Kill(p)
    BY <1>0, <2>7, CellKill DEF CellInv
  <2>8. QED BY <2>1, <2>2, <2>3, <2>4, <2>5, <2>6, <2>7 DEF Advance
<1>3. QED BY <1>1, <1>2

(* When no solve loses its bias alone, the weights under their  *)
(* name are of the solve of the bias or known to be useless (CellInv).      *)
THEOREM CellInvariance == BiasHoldsOut /\ Spec => []CellInv
<1> SUFFICES ASSUME BiasHoldsOut PROVE Spec => []CellInv
  BY DEF BiasHoldsOut
<1>1. Init => CellInv
  BY CellStart
<1>2. CellInv /\ [Next]_vars => CellInv'
  BY CellStep
<1>3. QED BY <1>1, <1>2, PTL DEF Spec

(* A call then returns the bias and the weights of one and the same solve,  *)
(* wherever earlier calls were killed.                                      *)
THEOREM CallsReturnOneSolve ==
  BiasHoldsOut /\ Spec => []AnswerIsOneSolve
<1>1. CellInv => AnswerIsOneSolve
  <2>1. ASSUME CellInv, NEW p \in Proc
        PROVE  answer[p]["bias"] = answer[p]["weights"]
    <3>1. PICK s \in 0 .. solved : answer[p] = [part \in Parts |-> s]
      BY <2>1 DEF CellInv, Answered
    <3>2. QED BY <3>1 DEF Parts
  <2>2. QED BY <2>1 DEF AnswerIsOneSolve
<1>2. QED BY <1>1, CellInvariance, PTL

-----------------------------------------------------------------------------
(* The refinement of CheckpointCell: what a name pair and an answer stand   *)
(* for.                                                                     *)
Grade(s) == IF s = 0 THEN 0 ELSE IF finite[s] = Parts THEN s ELSE -1

LEMMA StoredIs ==
  ASSUME StorageInv
  PROVE  /\ Useless => Stored = 0
         /\ Matched => Stored = (IF finite[Held("bias")] = Parts THEN Held("bias") ELSE 0)
<1> DEFINE q == [part \in Parts |-> IF bin[part] = NoFile THEN Torn ELSE content[bin[part]]]
<1>0. q["bias"] = (IF bin["bias"] = NoFile THEN Torn ELSE Held("bias"))
      /\ q["weights"] = (IF bin["weights"] = NoFile THEN Torn ELSE Held("weights"))
  BY DEF Parts, Held
<1>1. AreFinite(q) <=> /\ q["bias"] \in Solves /\ "bias" \in finite[q["bias"]]
                       /\ q["weights"] \in Solves /\ "weights" \in finite[q["weights"]]
  BY DEF AreFinite, Parts
<1>2. Stored = IF AreFinite(q) /\ q["bias"] = q["weights"] THEN q["bias"] ELSE 0
  BY DEF Stored
<1> HIDE DEF q
<1>3. ASSUME Useless PROVE Stored = 0
  <2>1. ~AreFinite(q)
    BY <1>0, <1>1, <1>3, Bounds DEF Useless
  <2>2. QED BY <1>2, <2>1
<1>4. ASSUME Matched
      PROVE  Stored = (IF finite[Held("bias")] = Parts THEN Held("bias") ELSE 0)
  <2>1. bin["bias"] # NoFile /\ bin["weights"] # NoFile /\ Held("bias") = Held("weights")
    BY <1>4 DEF Matched, CtsExist, Parts
  <2>2. Held("bias") \in 1 .. solved
    BY <2>1 DEF StorageInv, Whole, Parts
  <2>3. Held("bias") \in Solves
    BY <2>2, Bounds DEF StorageInv, TypeOK, Solves
  <2>4. finite[Held("bias")] \subseteq Parts
    BY <2>3 DEF StorageInv, TypeOK
  <2>5. AreFinite(q) <=> finite[Held("bias")] = Parts
    BY <1>0, <1>1, <2>1, <2>3, <2>4 DEF Parts
  <2>6. QED BY <1>0, <1>2, <2>1, <2>5
<1>5. QED BY <1>3, <1>4

LEMMA ReturnedIs ==
  ASSUME StorageInv, NEW p \in Proc, NEW s \in 0 .. solved, answer[p] = Both(s)
  PROVE  Returned(p) = Grade(s)
<1>1. \A part \in Parts : answer[p][part] = s
  BY DEF Both
<1>2. CASE s = 0
  <2>1. answer[p] = NoPair
    BY <1>2 DEF NoPair, NoFile, Both
  <2>2. QED BY <1>2, <2>1 DEF Returned, Grade
<1>3. CASE s # 0
  <2>1. s \in Solves
    BY <1>3, Bounds DEF StorageInv, TypeOK, Solves
  <2>2. answer[p] # NoPair
    BY <1>1, <1>3 DEF NoPair, NoFile, Parts
  <2>3. finite[s] \subseteq Parts
    BY <2>1 DEF StorageInv, TypeOK
  <2>4. AreFinite(answer[p]) <=> finite[s] = Parts
    BY <1>1, <2>1, <2>3 DEF AreFinite, Parts
  <2>5. answer[p]["bias"] = s
    BY <1>1 DEF Parts
  <2>6. QED BY <1>3, <2>2, <2>4, <2>5 DEF Returned, Grade
<1>4. QED BY <1>2, <1>3

LEMMA StoredNext  == (StorageInv => /\ Useless => Stored = 0
                                    /\ Matched => Stored = (IF finite[Held("bias")] = Parts
                                                            THEN Held("bias") ELSE 0))'
BY StoredIs, PTL
LEMMA ReturnedAll == StorageInv => \A p \in Proc, s \in 0 .. solved :
                                     answer[p] = Both(s) => Returned(p) = Grade(s)
BY ReturnedIs
LEMMA ReturnedNext == (StorageInv => \A p \in Proc, s \in 0 .. solved :
                                       answer[p] = Both(s) => Returned(p) = Grade(s))'
BY ReturnedAll, PTL

(* The grades of the solves so far are final. *)
LEMMA GradeStays ==
  ASSUME StorageInv, \A s \in 1 .. solved : finite'[s] = finite[s], NEW s \in 0 .. solved
  PROVE  Grade(s)' = Grade(s)
<1>1. CASE s = 0
  BY <1>1 DEF Grade
<1>2. CASE s # 0
  <2>1. s \in 1 .. solved
    BY <1>2 DEF StorageInv, TypeOK
  <2>2. QED BY <1>2, <2>1 DEF Grade
<1>3. QED BY <1>1, <1>2

(* A process whose answer a step leaves alone is seen to return the same.   *)
LEMMA SameReturned ==
  ASSUME CellInv, StorageInv', \A s \in 1 .. solved : finite'[s] = finite[s],
         solved <= solved', NEW p \in Proc, answer'[p] = answer[p]
  PROVE  Returned(p)' = Returned(p)
<1>1. PICK s \in 0 .. solved : answer[p] = Both(s)
  BY DEF CellInv, Answered, Both
<1>2. s \in 0 .. solved' /\ answer'[p] = Both(s)' /\ StorageInv
  <2>1. solved \in Int /\ solved' \in Int
    BY Bounds DEF CellInv, StorageInv, TypeOK
  <2>2. QED BY <1>1, <2>1 DEF CellInv, Both
<1>3. Returned(p)' = Grade(s)'
  BY <1>2, ReturnedNext DEF Both
<1>4. Returned(p) = Grade(s)
  BY <1>1, <1>2, ReturnedIs
<1>5. QED BY <1>2, <1>3, <1>4, GradeStays

(* Steps that move no checkpoint leave what is stored. *)
LEMMA SameStored ==
  ASSUME CellInv, StorageInv', Unmoved
  PROVE  Stored' = Stored
<1>0. StorageInv /\ (Useless \/ Matched)
  BY DEF CellInv, Consistent
<1>1. CASE Useless
  BY <1>0, <1>1, StoredIs, StoredNext, UnmovedKeeps
<1>2. CASE Matched
  <2>1. Held("bias")' = Held("bias") /\ Matched'
    BY <1>0, <1>2, UnmovedKeeps DEF Matched
  <2>2. Held("bias") \in 1 .. solved
    BY <1>0, <1>2 DEF StorageInv, Whole, Matched, CtsExist, Parts
  <2>3. finite'[Held("bias")'] = finite[Held("bias")]
    BY <2>1, <2>2 DEF Unmoved
  <2>4. QED BY <1>0, <1>2, <2>1, <2>3, StoredIs, StoredNext
<1>3. QED BY <1>0, <1>1, <1>2

(* How an answer of one process shows. *)
LEMMA OneReturned ==
  ASSUME CellInv, StorageInv', finite' = finite, solved' = solved, NEW p \in Proc,
         NEW s \in 0 .. solved, answer' = [answer EXCEPT ![p] = Both(s)]
  PROVE  [q \in Proc |-> Returned(q)]' = [[q \in Proc |-> Returned(q)] EXCEPT ![p] = Grade(s)]
<1>1. answer'[p] = Both(s) /\ \A q \in Proc : q # p => answer'[q] = answer[q]
  BY DEF CellInv, StorageInv, TypeOK
<1>2. \A q \in Proc : q # p => Returned(q)' = Returned(q)
  <2>1. solved \in Int /\ solved <= solved'
    BY Bounds DEF CellInv, StorageInv, TypeOK
  <2>2. QED BY <1>1, <2>1, SameReturned
<1>3. Returned(p)' = Grade(s)
  <2>1. Returned(p)' = Grade(s)'
    BY <1>1, ReturnedNext DEF Both
  <2>2. QED BY <2>1 DEF Grade
<1> HIDE DEF Grade, Both
<1>4. QED BY <1>2, <1>3

LEMMA SeenInit == Init => Cell!CellInit
<1> SUFFICES ASSUME Init PROVE Cell!CellInit
  OBVIOUS
<1>1. StorageInv /\ Useless
  BY StorageInit DEF Init, Useless, Parts
<1>2. Stored = 0
  BY <1>1, StoredIs
<1>3. \A p \in Proc : Returned(p) = 0
  BY DEF Init, Returned
<1>4. QED BY <1>2, <1>3 DEF Cell!CellInit, Cell!None

(* Steps that neither move a checkpoint nor answer.                         *)
LEMMA SeenStill ==
  ASSUME CellInv, StorageInv', Unmoved, answer' = answer, solved <= solved'
  PROVE  UNCHANGED Cell!cellVars
<1>1. Stored' = Stored
  BY SameStored
<1>2. \A p \in Proc : Returned(p)' = Returned(p)
  BY SameReturned DEF Unmoved
<1>3. QED BY <1>1, <1>2 DEF Cell!cellVars

LEMMA SeenStep ==
  ASSUME BiasHoldsOut, CellInv, [Next]_vars
  PROVE  [Cell!CellNext]_(Cell!cellVars)
<1>0. StorageInv /\ StorageInv' /\ solved \in Nat
  BY StorageNext DEF CellInv, StorageInv, TypeOK
<1>1. CASE UNCHANGED vars
  <2>1. Unmoved /\ answer' = answer /\ solved <= solved'
    BY <1>0, <1>1 DEF vars, Unmoved, Held
  <2>2. QED BY <1>0, <2>1, SeenStill
<1>2. CASE Next
  <2>1. PICK p \in Proc : Advance(p) \/ Kill(p)
    BY <1>2 DEF Next
  <2>2. CASE \/ Call(p) \/ Solve(p) \/ Kill(p)
             \/ \E part \in Parts : Open(p, part) \/ Write(p, part)
    <3>1. Unmoved
      BY <1>0, <2>2, Unmoves
    <3>2. answer' = answer /\ solved <= solved'
      BY <1>0, <2>2 DEF Call, Solve, Kill, Open, Write
    <3>3. QED BY <1>0, <3>1, <3>2, SeenStill
  <2>3. CASE Resume(p)
    <3>1. Unmoved /\ UNCHANGED <<finite, solved>>
      BY <1>0, <2>3, Unmoves DEF Resume
    <3>2. CASE answer' = answer
      BY <1>0, <3>1, <3>2, SeenStill
    <3>3. CASE answer' # answer
      <4> DEFINE s == Held("bias")
      <4>1. Matched /\ finite[s] = Parts /\ answer' = [answer EXCEPT ![p] = Both(s)]
        BY <2>3, <3>3, CellResume
      <4>2. s \in 1 .. solved
        BY <1>0, <4>1 DEF StorageInv, Whole, Matched, CtsExist, Parts
      <4>3. Stored = s /\ Stored' = Stored
        BY <1>0, <3>1, <4>1, StoredIs, SameStored
      <4>4. s \in 0 .. solved /\ s # 0 /\ Grade(s) = s
        BY <4>1, <4>2 DEF Grade
      <4> HIDE DEF s
      <4>5. [q \in Proc |-> Returned(q)]'
              = [[q \in Proc |-> Returned(q)] EXCEPT ![p] = Stored]
        BY <1>0, <3>1, <4>1, <4>3, <4>4, OneReturned
      <4>6. Cell!Recall(p)
        BY <4>3, <4>4, <4>5 DEF Cell!Recall, Cell!None
      <4>7. QED BY <4>6 DEF Cell!CellNext
    <3>4. QED BY <3>2, <3>3
  <2>4. ASSUME NEW part \in Parts, Replace(p, part)
        PROVE  [Cell!CellNext]_(Cell!cellVars)
    <3>0. UNCHANGED <<finite, solved>>
      BY <2>4 DEF Replace
    <3>1. Useless /\ Stored = 0
      BY <1>0, <2>4, CellReplace, StoredIs
    <3>2. CASE Useless' /\ answer' = answer
      <4>1. Stored' = 0
        BY <1>0, <3>2, StoredNext
      <4>2. \A q \in Proc : Returned(q)' = Returned(q)
        BY <1>0, <3>0, <3>2, SameReturned
      <4>3. QED BY <3>1, <4>1, <4>2 DEF Cell!cellVars
    <3>3. CASE /\ Matched' /\ Held("bias")' = solved /\ solved \in 1 .. solved
               /\ answer' = [answer EXCEPT ![p] = Both(solved)]
      <4>1. Stored' = IF finite[solved] = Parts THEN solved ELSE 0
        BY <1>0, <3>0, <3>3, StoredNext
      <4>2. [q \in Proc |-> Returned(q)]'
              = [[q \in Proc |-> Returned(q)] EXCEPT ![p] = Grade(solved)]
        <5>1. solved \in 0 .. solved
          BY <1>0
        <5>2. QED BY <1>0, <3>0, <3>3, <5>1, OneReturned
      <4>3. solved # 0 /\ solved \in Solves
        BY <1>0, <3>3, Bounds DEF StorageInv, TypeOK, Solves
      <4>4. CASE finite[solved] = Parts
        <5>1. Grade(solved) = Stored' /\ Stored' \in Solves
          BY <4>1, <4>3, <4>4 DEF Grade
        <5>2. Cell!Keep(p)
          BY <3>1, <4>2, <5>1 DEF Cell!Keep, Cell!None
        <5>3. QED BY <5>2 DEF Cell!CellNext
      <4>5. CASE finite[solved] # Parts
        <5>1. Grade(solved) = -1 /\ Stored' = Stored
          BY <3>1, <4>1, <4>3, <4>5 DEF Grade
        <5>2. Cell!Spoil(p)
          BY <3>1, <4>2, <5>1 DEF Cell!Spoil, Cell!None, Cell!Bad
        <5>3. QED BY <5>2 DEF Cell!CellNext
      <4>6. QED BY <4>4, <4>5
    <3>4. QED BY <2>4, <3>2, <3>3, CellReplace
  <2>5. QED BY <2>1, <2>2, <2>3, <2>4 DEF Advance
<1>3. QED BY <1>1, <1>2

(* A sub-problem's checkpoint is a cell: the first finite solve that is     *)
(* saved fills it, every later call returns that solve, and until then a    *)
(* call returns its own solve or numbers it can tell are not finite.        *)
THEOREM CheckpointIsACell == BiasHoldsOut /\ Spec => ImplementsCell
<1> SUFFICES ASSUME BiasHoldsOut PROVE Spec => ImplementsCell
  BY DEF BiasHoldsOut
<1>1. Init => Cell!CellInit
  BY SeenInit
<1>2. CellInv /\ [Next]_vars => [Cell!CellNext]_(Cell!cellVars)
  BY SeenStep
<1>3. Spec => []CellInv
  BY CellInvariance
<1>4. QED BY <1>1, <1>2, <1>3, PTL DEF Spec, ImplementsCell, Cell!CellSpec
=============================================================================
