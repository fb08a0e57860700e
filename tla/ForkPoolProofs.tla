--------------------------- MODULE ForkPoolProofs ---------------------------
(***************************************************************************)
(* Proofs about ForkPool, for any number of classes, clients and workers,  *)
(* any set of faults and any number of runs of the command.                *)
(***************************************************************************)
EXTENDS ForkPool, TLAPS

(* A shard's tasks are still ahead of its worker, or in its hands, or have *)
(* a checkpoint.                                                           *)
Covered(c) == \A n \in Shard(c[2]) :
                n \in todo[c] \/ n = now[c] \/ saved[TaskAt(n)] # "none"
Finished(i) == \A n \in Shard(i) : saved[TaskAt(n)] # "none"

(* What makes SuccessIsComplete inductive. *)
ChildInv ==
  \A c \in Child :
    /\ child[c] \in {"running", "ok"} => Covered(c)
    /\ child[c] = "ok" => todo[c] = {} /\ now[c] = NoTask
    /\ child[c] = "none" => now[c] = NoTask
ReapInv ==
  parent # "gone" =>
    \A i \in Worker : child[Ours(i)] = "reaped" => i \in failed \/ Finished(i)
FreshInv ==
  \A c \in Child : \/ c[1] > pool
                   \/ c[1] = pool /\ parent = "fork" /\ c[2] >= forked
                   => child[c] = "none"
ReturnInv ==
  rc = 0 => /\ parent = "exited" /\ failed = {}
            /\ \A i \in Worker : child[Ours(i)] = "reaped"
ExitInv ==
  parent = "exited" /\ forked = NWorkers =>
    /\ rc = 0 <=> failed = {}
    /\ \A i \in Worker : child[Ours(i)] = "reaped"

(* The dead of the current run: the parent has blamed those it has reaped,  *)
(* and nobody else.                                                         *)
DeadInv ==
  \A i \in Worker :
    /\ i \in died => child[Ours(i)] \in {"dead", "reaped"}
    /\ child[Ours(i)] = "dead" => i \in died
    /\ i \in failed => child[Ours(i)] = "reaped"
    /\ parent # "gone" /\ child[Ours(i)] = "reaped" => (i \in failed <=> i \in died)
PoolInv == TypeOK /\ ChildInv /\ ReapInv /\ FreshInv /\ ReturnInv /\ ExitInv
           /\ DeadInv

(* What makes OneSolver inductive when no fault orphans a child. *)
ShardInv == \A c \in Child : todo[c] \subseteq Shard(c[2])
              /\ (now[c] # NoTask => now[c] \in Shard(c[2]) /\ child[c] = "running")
AloneInv ==
  ~orphaned =>
    \A c \in Child :
      child[c] = "running" => c[1] = pool /\ parent \in {"fork", "wait"}

-----------------------------------------------------------------------------
(* Arithmetic of the task list and of its shards.                          *)

(* No task is in two shards, and every slot is in the shard of a worker.    *)
LEMMA ShardsPartition ==
  /\ \A n \in Slot : \E i \in Worker : n \in Shard(i)
  /\ \A i, j \in Worker : i # j => Shard(i) \cap Shard(j) = {}
<1>1. ASSUME NEW n \in Slot PROVE n % NWorkers \in Worker
  BY PoolAssumption DEF Slot, Worker
<1>2. QED BY <1>1 DEF Shard

(* The task list names every task exactly once.                             *)
LEMMA TaskListIsComplete == \A t \in Task : \E n \in Slot : TaskAt(n) = t
<1> SUFFICES ASSUME NEW c \in 0 .. NClasses - 1, NEW i \in 0 .. NClients
             PROVE  \E n \in Slot : TaskAt(n) = <<c, i>>
  BY DEF Task
<1> USE PoolAssumption
<1>1. Clients \in Nat /\ Slot = 0 .. Clients + NClasses - 1
  BY DEF Clients, Slot
<1>2. CASE i = NClients
  <2>1. Clients + c \in Slot /\ ~(Clients + c < Clients)
    BY <1>1
  <2>2. TaskAt(Clients + c) = <<c, i>>
    BY <1>1, <1>2, <2>1 DEF TaskAt, Baseline
  <2>3. QED BY <2>1, <2>2
<1>3. CASE i \in 0 .. NClients - 1
  <2>1. c * NClients + i \in 0 .. Clients - 1
    BY <1>3 DEF Clients
  <2>2. (c * NClients + i) \div NClients = c /\ (c * NClients + i) % NClients = i
    BY <1>3
  <2>3. c * NClients + i \in Slot
    BY <1>1, <2>1
  <2>4. TaskAt(c * NClients + i) = <<c, i>>
    BY <1>1, <2>1, <2>2 DEF TaskAt
  <2>5. QED BY <2>3, <2>4
<1>4. QED BY <1>2, <1>3

LEMMA TaskAtType == \A n \in Slot : TaskAt(n) \in Task
<1> SUFFICES ASSUME NEW n \in Slot PROVE TaskAt(n) \in Task
  OBVIOUS
<1> USE PoolAssumption
<1>1. Clients \in Nat /\ n \in Nat /\ n < Clients + NClasses
  BY DEF Clients, Slot
<1>2. CASE n < Clients
  <2>1. n \div NClients \in 0 .. NClasses - 1 /\ n % NClients \in 0 .. NClients
    BY <1>1, <1>2 DEF Clients
  <2>2. QED BY <1>2, <2>1 DEF TaskAt, Task
<1>3. CASE ~(n < Clients)
  <2>1. n - Clients \in 0 .. NClasses - 1 /\ NClients \in 0 .. NClients
    BY <1>1, <1>3
  <2>2. QED BY <1>3, <2>1 DEF TaskAt, Task, Baseline
<1>4. QED BY <1>2, <1>3

LEMMA TaskListHasNoDuplicates ==
  \A m, n \in Slot : TaskAt(m) = TaskAt(n) => m = n
<1> SUFFICES ASSUME NEW m \in Slot, NEW n \in Slot, TaskAt(m) = TaskAt(n)
             PROVE  m = n
  OBVIOUS
<1> USE PoolAssumption
<1>1. Clients \in Nat /\ m \in Nat /\ n \in Nat
  BY DEF Clients, Slot
<1>2. CASE m < Clients /\ n < Clients
  <2>1. m \div NClients = n \div NClients /\ m % NClients = n % NClients
    BY <1>2 DEF TaskAt
  <2>2. /\ m = (NClients * (m \div NClients)) + (m % NClients)
        /\ n = (NClients * (n \div NClients)) + (n % NClients)
    BY <1>1
  <2>3. QED BY <2>1, <2>2
<1>3. CASE ~(m < Clients) /\ ~(n < Clients)
  <2>1. m - Clients = n - Clients
    BY <1>3 DEF TaskAt
  <2>2. QED BY <1>1, <2>1
<1>4. CASE m < Clients /\ ~(n < Clients)
  <2>1. m % NClients = NClients
    BY <1>4 DEF TaskAt, Baseline
  <2>2. m % NClients < NClients
    BY <1>1
  <2>3. QED BY <1>1, <2>1, <2>2
<1>5. CASE ~(m < Clients) /\ n < Clients
  <2>1. n % NClients = NClients
    BY <1>5 DEF TaskAt, Baseline
  <2>2. n % NClients < NClients
    BY <1>1
  <2>3. QED BY <1>1, <2>1, <2>2
<1>6. QED BY <1>2, <1>3, <1>4, <1>5
-----------------------------------------------------------------------------
(* The types are kept.                                                     *)

LEMMA TypeInit == Init => TypeOK
<1> SUFFICES ASSUME Init PROVE TypeOK
  OBVIOUS
<1>1. pool \in Pool /\ forked \in 0 .. NWorkers /\ forked < NWorkers
      /\ faults \in 0 .. MaxFaults + MaxRaces
  BY PoolAssumption DEF Init, Pool
<1>2. /\ child \in [Child -> {"none", "running", "ok", "dead", "reaped"}]
      /\ todo \in [Child -> SUBSET Slot] /\ now \in [Child -> Slot \cup {NoTask}]
      /\ saved \in [Task -> {"none", "bad", "good"}]
  BY DEF Init
<1>3. parent \in {"fork", "wait", "exited", "gone"} /\ failed \in SUBSET Worker
      /\ rc \in {-1, 0, 1} /\ orphaned \in BOOLEAN /\ died \in SUBSET Worker
  BY DEF Init
<1>4. QED BY <1>1, <1>2, <1>3 DEF TypeOK

LEMMA TypeNext == TypeOK /\ [Next]_vars => TypeOK'
<1> SUFFICES ASSUME TypeOK, [Next]_vars PROVE TypeOK'
  OBVIOUS
<1> USE DEF TypeOK, parentVars, childVars
<1> USE PoolAssumption
<1>1. CASE Fork
  <2>1. forked' \in 0 .. NWorkers /\ (parent' = "fork" => forked' < NWorkers)
    BY <1>1 DEF Fork
  <2>2. Shard(forked) \in SUBSET Slot
    BY DEF Shard
  <2>3. QED BY <1>1, <2>1, <2>2 DEF Fork
<1>2. ASSUME NEW i \in Worker, Reap(i) PROVE TypeOK'
  BY <1>2 DEF Reap
<1>3. CASE Return
  BY <1>3 DEF Return
<1>4. CASE Rerun
  BY <1>4 DEF Rerun, Pool
<1>5. ASSUME NEW c \in Child, NEW n \in Slot, Skip(c, n) PROVE TypeOK'
  BY <1>5 DEF Skip, ComesTo
<1>6. ASSUME NEW c \in Child, NEW n \in Slot, Begin(c, n) PROVE TypeOK'
  BY <1>6 DEF Begin, ComesTo
<1>7. ASSUME NEW c \in Child, Save(c) PROVE TypeOK'
  <2>1. saved' \in [Task -> {"none", "bad", "good"}]
    BY <1>7 DEF Save
  <2>2. QED BY <1>7, <2>1 DEF Save
<1>8. ASSUME NEW c \in Child, ChildDone(c) PROVE TypeOK'
  BY <1>8 DEF ChildDone
<1>9. ASSUME NEW c \in Child, ChildDies(c) \/ SaveRaises(c) PROVE TypeOK'
  <2>1. c[2] \in Worker
    BY DEF Child
  <2>2. faults' \in 0 .. MaxFaults + MaxRaces
    BY <1>9 DEF ChildDies, SaveRaises, Fault
  <2>3. QED BY <1>9, <2>1, <2>2 DEF ChildDies, SaveRaises, Dies
<1>10. CASE ForkRaises
  BY <1>10 DEF ForkRaises, Fault
<1>11. CASE ParentKilled
  BY <1>11 DEF ParentKilled, Fault
<1>12. CASE MachineDies
  BY <1>12 DEF MachineDies, Fault
<1>13. CASE UNCHANGED vars
  BY <1>13 DEF vars
<1>14. QED
  BY <1>1, <1>2, <1>3, <1>4, <1>5, <1>6, <1>7, <1>8, <1>9, <1>10, <1>11, <1>12,
     <1>13 DEF Next, Parent, Work

(* Every variable of the pool keeps its type.                              *)
THEOREM PoolTypeCorrect == Spec => []TypeOK
BY TypeInit, TypeNext, PTL DEF Spec

-----------------------------------------------------------------------------
(* Exit code 0 means that every task has a checkpoint.                     *)

(* A checkpoint that is there stays there: a task is only saved over.      *)
LEMMA SavedStays ==
  ASSUME TypeOK, [Next]_vars, NEW t \in Task, saved[t] # "none"
  PROVE  saved'[t] # "none"
<1>1. ASSUME NEW c \in Child, Save(c) PROVE saved'[t] # "none"
  BY <1>1 DEF Save, TypeOK
<1>2. ASSUME UNCHANGED saved PROVE saved'[t] # "none"
  BY <1>2
<1>3. QED
  BY <1>1, <1>2
     DEF Next, Parent, Work, Fork, Reap, Return, Rerun, Skip, Begin, ChildDone,
         ChildDies, SaveRaises, Dies, ForkRaises, ParentKilled, MachineDies, vars

LEMMA FinishedStays ==
  ASSUME TypeOK, [Next]_vars, NEW i \in Worker, Finished(i)
  PROVE  Finished(i)'
<1>1. \A n \in Shard(i) : TaskAt(n) \in Task
  BY TaskAtType DEF Shard
<1>2. QED BY <1>1, SavedStays DEF Finished

LEMMA PoolInvInit == Init => PoolInv
<1> SUFFICES ASSUME Init PROVE PoolInv
  OBVIOUS
<1>1. \A c \in Child : child[c] = "none" /\ now[c] = NoTask
  BY DEF Init
<1>2. \A i \in Worker : Ours(i) \in Child
  BY PoolAssumption DEF Init, Ours, Child, Pool
<1>3. ChildInv /\ FreshInv /\ ReapInv
  BY <1>1, <1>2 DEF ChildInv, FreshInv, ReapInv
<1>4. DeadInv
  BY <1>1, <1>2 DEF Init, DeadInv
<1>5. QED BY <1>3, <1>4, TypeInit DEF Init, PoolInv, ReturnInv, ExitInv

LEMMA ChildNext == PoolInv /\ [Next]_vars => ChildInv'
<1> SUFFICES ASSUME PoolInv, [Next]_vars, NEW d \in Child
             PROVE  /\ child'[d] \in {"running", "ok"} => Covered(d)'
                    /\ child'[d] = "ok" => todo'[d] = {} /\ now'[d] = NoTask
                    /\ child'[d] = "none" => now'[d] = NoTask
  BY DEF ChildInv
<1> USE DEF parentVars, childVars
<1>a. TypeOK /\ ChildInv /\ FreshInv
  BY DEF PoolInv
<1>b. \A n \in Shard(d[2]) : TaskAt(n) \in Task
  BY TaskAtType DEF Shard
<1>c. \A n \in Shard(d[2]) : saved[TaskAt(n)] # "none"
                              => saved'[TaskAt(n)] # "none"
  BY <1>a, <1>b, SavedStays
<1>d. ASSUME UNCHANGED <<child, todo, now>> \/ (todo'[d] = todo[d]
               /\ now'[d] = now[d] /\ child'[d] \in {child[d], "reaped"})
      PROVE  /\ child'[d] \in {"running", "ok"} => Covered(d)'
             /\ child'[d] = "ok" => todo'[d] = {} /\ now'[d] = NoTask
             /\ child'[d] = "none" => now'[d] = NoTask
  BY <1>a, <1>c, <1>d DEF ChildInv, Covered
<1>1. CASE Fork
  <2>1. CASE d = <<pool, forked>>
    <3>1. child[d] = "none" /\ now[d] = NoTask
      BY <1>1, <1>a, <2>1 DEF Fork, FreshInv, ChildInv, Child, TypeOK, Pool
    <3>2. child'[d] = "running" /\ todo'[d] = Shard(d[2])
      BY <1>1, <1>a, <2>1 DEF Fork, TypeOK
    <3>3. QED BY <3>1, <3>2 DEF Covered
  <2>2. CASE d # <<pool, forked>>
    BY <1>1, <1>a, <1>d, <2>2 DEF Fork, TypeOK
  <2>3. QED BY <2>1, <2>2
<1>2. ASSUME NEW i \in Worker, Reap(i) PROVE
             /\ todo'[d] = todo[d] /\ now'[d] = now[d]
             /\ child'[d] \in {child[d], "reaped"}
  BY <1>2, <1>a DEF Reap, TypeOK
<1>5. ASSUME NEW c \in Child, NEW n \in Slot, Skip(c, n)
      PROVE /\ child'[d] \in {"running", "ok"} => Covered(d)'
            /\ child'[d] = "ok" => todo'[d] = {} /\ now'[d] = NoTask
            /\ child'[d] = "none" => now'[d] = NoTask
  <2>1. todo'[d] = IF d = c THEN todo[d] \ {n} ELSE todo[d]
    BY <1>5, <1>a DEF Skip, ComesTo, TypeOK
  <2>2. UNCHANGED <<child, now, saved>> /\ saved[TaskAt(n)] = "good"
    BY <1>5 DEF Skip
  <2>3. QED BY <1>a, <2>1, <2>2 DEF ChildInv, Covered
<1>6. ASSUME NEW c \in Child, NEW n \in Slot, Begin(c, n)
      PROVE /\ child'[d] \in {"running", "ok"} => Covered(d)'
            /\ child'[d] = "ok" => todo'[d] = {} /\ now'[d] = NoTask
            /\ child'[d] = "none" => now'[d] = NoTask
  <2>1. CASE d = c
    <3>1. child'[d] = "running" /\ now[d] = NoTask /\ now'[d] = n
          /\ todo'[d] = todo[d] \ {n} /\ saved' = saved /\ child[d] = "running"
      BY <1>6, <1>a, <2>1 DEF Begin, ComesTo, TypeOK
    <3>2. \A m \in Shard(d[2]) : m # NoTask
      BY DEF Shard, Slot, NoTask
    <3>3. QED BY <1>a, <3>1, <3>2 DEF ChildInv, Covered
  <2>2. CASE d # c
    BY <1>6, <1>a, <1>d, <2>2 DEF Begin, ComesTo, TypeOK
  <2>3. QED BY <2>1, <2>2
<1>7. ASSUME NEW c \in Child, Save(c)
      PROVE /\ child'[d] \in {"running", "ok"} => Covered(d)'
            /\ child'[d] = "ok" => todo'[d] = {} /\ now'[d] = NoTask
            /\ child'[d] = "none" => now'[d] = NoTask
  <2>1. CASE d = c
    <3>1. child'[d] = "running" /\ now'[d] = NoTask /\ todo'[d] = todo[d]
          /\ child[d] = "running" /\ now[d] \in Slot
      BY <1>7, <1>a, <2>1 DEF Save, TypeOK
    <3>2. saved'[TaskAt(now[d])] # "none"
      BY <1>7, <1>a, <2>1, <3>1, TaskAtType DEF Save, TypeOK
    <3>3. QED BY <1>a, <1>c, <3>1, <3>2 DEF ChildInv, Covered
  <2>2. CASE d # c
    BY <1>7, <1>a, <1>d, <2>2 DEF Save, TypeOK
  <2>3. QED BY <2>1, <2>2
<1>8. ASSUME NEW c \in Child, ChildDone(c)
      PROVE /\ child'[d] \in {"running", "ok"} => Covered(d)'
            /\ child'[d] = "ok" => todo'[d] = {} /\ now'[d] = NoTask
            /\ child'[d] = "none" => now'[d] = NoTask
  <2>1. UNCHANGED <<todo, now, saved>>
    BY <1>8 DEF ChildDone
  <2>2. child'[d] = IF d = c THEN "ok" ELSE child[d]
    BY <1>8, <1>a DEF ChildDone, TypeOK
  <2>3. QED BY <1>8, <1>a, <2>1, <2>2 DEF ChildInv, Covered, ChildDone
<1>9. ASSUME NEW c \in Child, Dies(c)
      PROVE /\ child'[d] \in {"running", "ok"} => Covered(d)'
            /\ child'[d] = "ok" => todo'[d] = {} /\ now'[d] = NoTask
            /\ child'[d] = "none" => now'[d] = NoTask
  <2>1. CASE d = c
    BY <1>9, <1>a, <2>1 DEF Dies, TypeOK
  <2>2. CASE d # c
    BY <1>9, <1>a, <1>d, <2>2 DEF Dies, TypeOK
  <2>3. QED BY <2>1, <2>2
<1>12. CASE MachineDies
  BY <1>12, <1>a DEF MachineDies, TypeOK
<1>13. CASE Return \/ Rerun \/ ForkRaises \/ ParentKilled \/ UNCHANGED vars
  BY <1>13, <1>d DEF Return, Rerun, ForkRaises, ParentKilled, vars
<1>14. QED
  BY <1>1, <1>2, <1>d, <1>5, <1>6, <1>7, <1>8, <1>9, <1>12, <1>13
     DEF Next, Parent, Work, ChildDies, SaveRaises

LEMMA OursIsAChild == TypeOK => \A i \in Worker : Ours(i) \in Child
BY DEF TypeOK, Ours, Child

LEMMA ReapNext == PoolInv /\ [Next]_vars => ReapInv'
<1> SUFFICES ASSUME PoolInv, [Next]_vars, parent' # "gone", NEW i \in Worker,
                    child'[<<pool', i>>] = "reaped"
             PROVE  i \in failed' \/ Finished(i)'
  BY DEF ReapInv, Ours
<1> USE DEF parentVars, childVars
<1>a. TypeOK /\ ChildInv /\ ReapInv /\ FreshInv /\ Ours(i) \in Child
  BY OursIsAChild DEF PoolInv
<1>c. ASSUME Finished(i) PROVE Finished(i)'
  BY <1>a, <1>c, FinishedStays
<1>b. ASSUME parent # "gone", UNCHANGED <<pool, failed>>, child[Ours(i)] = "reaped"
      PROVE  i \in failed' \/ Finished(i)'
  BY <1>a, <1>b, <1>c DEF ReapInv
<1>1. CASE Fork
  <2>1. i # forked
    BY <1>1, <1>a DEF Fork, TypeOK, Ours
  <2>2. QED BY <1>1, <1>a, <1>b, <2>1 DEF Fork, TypeOK, Ours
<1>2. ASSUME NEW j \in Worker, Reap(j) PROVE i \in failed' \/ Finished(i)'
  <2>1. CASE j = i
    <3>1. CASE child[Ours(i)] = "dead"
      BY <1>2, <2>1, <3>1 DEF Reap
    <3>2. CASE child[Ours(i)] = "ok"
      <4>1. Covered(Ours(i)) /\ todo[Ours(i)] = {} /\ now[Ours(i)] = NoTask
        BY <1>a, <3>2 DEF ChildInv
      <4>2. Finished(i)
        BY <4>1 DEF Covered, Finished, Ours, Shard, Slot, NoTask
      <4>3. QED BY <1>c, <4>2
    <3>3. QED BY <1>2, <2>1, <3>1, <3>2 DEF Reap
  <2>2. CASE j # i
    <3>1. child[Ours(i)] = "reaped" /\ parent # "gone" /\ failed \subseteq failed'
      BY <1>2, <1>a, <2>2 DEF Reap, TypeOK, Ours
    <3>2. QED BY <1>a, <1>c, <3>1 DEF ReapInv
  <2>3. QED BY <2>1, <2>2
<1>4. CASE Rerun
  <2>1. child' = child /\ pool' = pool + 1 /\ pool + 1 \in Pool /\ pool \in Nat
    BY <1>4, <1>a, PoolAssumption DEF Rerun, TypeOK, Pool
  <2>2. <<pool + 1, i>> \in Child
    BY <2>1 DEF Child
  <2>3. child[<<pool + 1, i>>] = "none"
    BY <1>a, <2>1, <2>2 DEF FreshInv
  <2>4. QED BY <2>1, <2>3
<1>5. ASSUME NEW c \in Child, Work(c) \/ Dies(c)
      PROVE  i \in failed' \/ Finished(i)'
  <2>1. UNCHANGED <<pool, parent, failed>>
    BY <1>5 DEF Work, Skip, Begin, Save, ChildDone, Dies
  <2>2. child[Ours(i)] = "reaped"
    BY <1>5, <1>a, <2>1 DEF Work, Skip, Begin, ComesTo, Save, ChildDone, Dies,
                            TypeOK, Ours
  <2>3. QED BY <1>5, <1>b, <2>1, <2>2 DEF ReapInv
<1>6. CASE Return \/ ForkRaises \/ UNCHANGED vars
  BY <1>6, <1>b DEF Return, ForkRaises, vars, Ours
<1>7. CASE ParentKilled \/ MachineDies
  BY <1>7 DEF ParentKilled, MachineDies
<1>8. QED
  BY <1>1, <1>2, <1>4, <1>5, <1>6, <1>7 DEF Next, Parent, ChildDies, SaveRaises

LEMMA FreshNext == PoolInv /\ [Next]_vars => FreshInv'
<1> SUFFICES ASSUME PoolInv, [Next]_vars, NEW d \in Child,
                    \/ d[1] > pool'
                    \/ d[1] = pool' /\ parent' = "fork" /\ d[2] >= forked'
             PROVE  child'[d] = "none"
  BY DEF FreshInv
<1> USE DEF parentVars, childVars
<1>a. TypeOK /\ FreshInv /\ d[1] \in Pool /\ d[2] \in Worker
  BY DEF PoolInv, Child
<1>b. ASSUME UNCHANGED <<pool, forked>>, parent' = "fork" => parent = "fork"
      PROVE  child[d] = "none"
  BY <1>a, <1>b DEF FreshInv
<1>1. CASE Fork
  <2>1. child[d] = "none"
    BY <1>1, <1>a DEF Fork, FreshInv, TypeOK, Pool, Worker
  <2>2. d # <<pool, forked>>
    BY <1>1, <1>a DEF Fork, TypeOK, Pool, Worker
  <2>3. QED BY <1>1, <1>a, <2>1, <2>2 DEF Fork, TypeOK
<1>2. ASSUME NEW j \in Worker, Reap(j) PROVE child'[d] = "none"
  BY <1>2, <1>a, <1>b DEF Reap, TypeOK, Ours
<1>4. CASE Rerun
  BY <1>4, <1>a DEF Rerun, FreshInv, TypeOK, Pool
<1>5. ASSUME NEW c \in Child, Work(c) \/ Dies(c) PROVE child'[d] = "none"
  <2>1. child[d] = "none"
    BY <1>5, <1>b DEF Work, Skip, Begin, Save, ChildDone, Dies
  <2>2. QED
    BY <1>5, <1>a, <2>1 DEF Work, Skip, Begin, ComesTo, Save, ChildDone, Dies,
                            TypeOK
<1>6. CASE MachineDies
  BY <1>6, <1>a, <1>b DEF MachineDies, TypeOK
<1>7. CASE Return \/ ForkRaises \/ ParentKilled \/ UNCHANGED vars
  BY <1>7, <1>b DEF Return, ForkRaises, ParentKilled, vars
<1>8. QED
  BY <1>1, <1>2, <1>4, <1>5, <1>6, <1>7 DEF Next, Parent, ChildDies, SaveRaises

LEMMA ReturnNext == PoolInv /\ [Next]_vars => ReturnInv'
<1> SUFFICES ASSUME PoolInv, [Next]_vars, rc' = 0
             PROVE  /\ parent' = "exited" /\ failed' = {}
                    /\ \A i \in Worker : child'[<<pool', i>>] = "reaped"
  BY DEF ReturnInv, Ours
<1> USE DEF parentVars, childVars
<1>a. TypeOK /\ ReturnInv
  BY DEF PoolInv
<1>1. CASE Return
  BY <1>1 DEF Return, Ours
<1>2. ASSUME rc = 0, UNCHANGED <<parent, failed, pool>>,
             \A c \in Child : child[c] = "reaped" => child'[c] = "reaped"
      PROVE  /\ parent' = "exited" /\ failed' = {}
             /\ \A i \in Worker : child'[<<pool', i>>] = "reaped"
  BY <1>2, <1>a, OursIsAChild DEF ReturnInv, Ours
<1>3. ASSUME NEW c \in Child, Work(c) \/ Dies(c)
      PROVE  /\ parent' = "exited" /\ failed' = {}
             /\ \A i \in Worker : child'[<<pool', i>>] = "reaped"
  <2>1. UNCHANGED <<pool, parent, failed, rc>>
    BY <1>3 DEF Work, Skip, Begin, Save, ChildDone, Dies
  <2>2. \A d \in Child : child[d] = "reaped" => child'[d] = "reaped"
    BY <1>3, <1>a DEF Work, Skip, Begin, ComesTo, Save, ChildDone, Dies, TypeOK
  <2>3. QED BY <1>2, <2>1, <2>2
<1>4. CASE UNCHANGED vars
  BY <1>2, <1>4 DEF vars
<1>5. ASSUME NEW j \in Worker, Reap(j) PROVE FALSE
  BY <1>5, <1>a DEF Reap, ReturnInv
<1>6. CASE Fork \/ Rerun \/ ForkRaises \/ ParentKilled \/ MachineDies
  BY <1>6, <1>a DEF Fork, Rerun, ForkRaises, ParentKilled, MachineDies, ReturnInv
<1>7. QED BY <1>1, <1>3, <1>4, <1>5, <1>6 DEF Next, Parent, ChildDies, SaveRaises

LEMMA ExitNext == PoolInv /\ [Next]_vars => ExitInv'
<1> SUFFICES ASSUME PoolInv, [Next]_vars, parent' = "exited", forked' = NWorkers
             PROVE  /\ rc' = 0 <=> failed' = {}
                    /\ \A i \in Worker : child'[<<pool', i>>] = "reaped"
  BY DEF ExitInv, Ours
<1> USE DEF parentVars, childVars
<1>a. TypeOK /\ ExitInv /\ NWorkers \in Nat
  BY PoolAssumption DEF PoolInv
<1>1. CASE Return
  BY <1>1 DEF Return, Ours
<1>2. ASSUME NEW c \in Child, Work(c) \/ Dies(c)
      PROVE  /\ rc' = 0 <=> failed' = {}
             /\ \A i \in Worker : child'[<<pool', i>>] = "reaped"
  <2>1. UNCHANGED <<pool, parent, forked, failed, rc>>
    BY <1>2 DEF Work, Skip, Begin, Save, ChildDone, Dies
  <2>2. \A d \in Child : child[d] = "reaped" => child'[d] = "reaped"
    BY <1>2, <1>a DEF Work, Skip, Begin, ComesTo, Save, ChildDone, Dies, TypeOK
  <2>3. QED BY <1>a, <2>1, <2>2, OursIsAChild DEF ExitInv, Ours
<1>3. CASE UNCHANGED vars
  BY <1>3, <1>a DEF vars, ExitInv, Ours
<1>4. ASSUME NEW j \in Worker, Reap(j) PROVE FALSE
  BY <1>4 DEF Reap
<1>5. CASE Fork \/ Rerun \/ ParentKilled \/ MachineDies
  BY <1>5, <1>a DEF Fork, Rerun, ParentKilled, MachineDies
<1>6. CASE ForkRaises
  BY <1>6, <1>a DEF ForkRaises, TypeOK
<1>7. QED BY <1>1, <1>2, <1>3, <1>4, <1>5, <1>6 DEF Next, Parent, ChildDies, SaveRaises

LEMMA DeadNext == PoolInv /\ [Next]_vars => DeadInv'
<1> SUFFICES ASSUME PoolInv, [Next]_vars, NEW i \in Worker
             PROVE  /\ i \in died' => child'[<<pool', i>>] \in {"dead", "reaped"}
                    /\ child'[<<pool', i>>] = "dead" => i \in died'
                    /\ i \in failed' => child'[<<pool', i>>] = "reaped"
                    /\ parent' # "gone" /\ child'[<<pool', i>>] = "reaped"
                         => (i \in failed' <=> i \in died')
  BY DEF DeadInv, Ours
<1> DEFINE Kept == /\ i \in died' => child'[<<pool', i>>] \in {"dead", "reaped"}
                   /\ child'[<<pool', i>>] = "dead" => i \in died'
                   /\ i \in failed' => child'[<<pool', i>>] = "reaped"
                   /\ parent' # "gone" /\ child'[<<pool', i>>] = "reaped"
                        => (i \in failed' <=> i \in died')
<1> USE DEF parentVars, childVars
<1>a. /\ TypeOK /\ FreshInv /\ <<pool, i>> \in Child
      /\ i \in died => child[<<pool, i>>] \in {"dead", "reaped"}
      /\ child[<<pool, i>>] = "dead" => i \in died
      /\ i \in failed => child[<<pool, i>>] = "reaped"
      /\ parent # "gone" /\ child[<<pool, i>>] = "reaped"
           => (i \in failed <=> i \in died)
  BY OursIsAChild DEF PoolInv, DeadInv, Ours
<1>1. CASE Fork
  <2>1. CASE i = forked
    <3>1. child[<<pool, i>>] = "none" /\ child'[<<pool, i>>] = "running"
      BY <1>1, <1>a, <2>1 DEF Fork, FreshInv, TypeOK
    <3>2. QED BY <1>1, <1>a, <3>1 DEF Fork
  <2>2. CASE i # forked
    BY <1>1, <1>a, <2>2 DEF Fork, TypeOK
  <2>3. QED BY <2>1, <2>2
<1>2. ASSUME NEW j \in Worker, Reap(j) PROVE Kept
  BY <1>2, <1>a DEF Reap, TypeOK, Ours
<1>3. CASE Return \/ ForkRaises \/ ParentKilled \/ UNCHANGED vars
  BY <1>3, <1>a DEF Return, ForkRaises, ParentKilled, vars
<1>4. CASE Rerun
  <2>1. pool' = pool + 1 /\ pool + 1 \in Pool /\ pool \in Nat /\ child' = child
    BY <1>4, <1>a, PoolAssumption DEF Rerun, TypeOK, Pool
  <2>2. child[<<pool + 1, i>>] = "none"
    BY <1>a, <2>1 DEF FreshInv, Child
  <2>3. QED BY <1>4, <2>1, <2>2 DEF Rerun
<1>5. ASSUME NEW c \in Child, Work(c) PROVE Kept
  <2>1. UNCHANGED <<pool, parent, failed, died>>
    BY <1>5 DEF Work, Skip, Begin, Save, ChildDone
  <2>2. \/ child'[<<pool, i>>] = child[<<pool, i>>]
        \/ child[<<pool, i>>] = "running" /\ child'[<<pool, i>>] = "ok"
    BY <1>5, <1>a DEF Work, Skip, Begin, ComesTo, Save, ChildDone, TypeOK
  <2>3. QED BY <1>a, <2>1, <2>2
<1>6. ASSUME NEW c \in Child, Dies(c) PROVE Kept
  <2>1. UNCHANGED <<pool, parent, failed>>
    BY <1>6 DEF Dies
  <2>2. CASE c = <<pool, i>>
    <3>1. /\ child[<<pool, i>>] = "running" /\ child'[<<pool, i>>] = "dead"
          /\ i \in died'
      BY <1>6, <1>a, <2>2 DEF Dies, TypeOK
    <3>2. QED BY <1>a, <2>1, <3>1
  <2>3. CASE c # <<pool, i>>
    <3>1. child'[<<pool, i>>] = child[<<pool, i>>]
      BY <1>6, <1>a, <2>3 DEF Dies, TypeOK
    <3>2. c[1] = pool => c[2] # i
      BY <2>3 DEF Child
    <3>3. i \in died' <=> i \in died
      BY <1>6, <3>2 DEF Dies
    <3>4. QED BY <1>a, <2>1, <3>1, <3>3
  <2>4. QED BY <2>2, <2>3
<1>7. CASE MachineDies
  <2>1. UNCHANGED <<pool, failed, died>> /\ parent' = "gone"
    BY <1>7 DEF MachineDies
  <2>2. child'[<<pool, i>>] = IF child[<<pool, i>>] = "none" THEN "none" ELSE "reaped"
    BY <1>7, <1>a DEF MachineDies
  <2>3. QED BY <1>a, <2>1, <2>2
<1>8. QED
  BY <1>1, <1>2, <1>3, <1>4, <1>5, <1>6, <1>7 DEF Next, Parent, ChildDies, SaveRaises

LEMMA PoolInvNext == PoolInv /\ [Next]_vars => PoolInv'
BY TypeNext, ChildNext, ReapNext, FreshNext, ReturnNext, ExitNext, DeadNext
   DEF PoolInv

(* When the pool exits with 0, and run_parallel.sh goes on to the finalize  *)
(* pass, every client and baseline of every class has a checkpoint: no      *)
(* death of a child, a parent or the machine, in this run or an earlier one,*)
(* goes unnoticed.                                                          *)
THEOREM SuccessMeansComplete == Spec => []SuccessIsComplete
<1>2. PoolInv => SuccessIsComplete
  <2> SUFFICES ASSUME PoolInv, rc = 0, NEW t \in Task PROVE saved[t] # "none"
    BY DEF SuccessIsComplete
  <2>1. PICK n \in Slot : TaskAt(n) = t
    BY TaskListIsComplete
  <2>2. PICK i \in Worker : n \in Shard(i)
    BY ShardsPartition
  <2>3. Finished(i)
    BY DEF PoolInv, ReturnInv, ReapInv
  <2>4. QED BY <2>1, <2>2, <2>3 DEF Finished
<1>3. QED BY PoolInvInit, PoolInvNext, <1>2, PTL DEF Spec

(* A parent that has waited for all of its workers blames exactly those     *)
(* that died, and the tasks of the others all have checkpoints, whatever    *)
(* orphans of earlier runs are doing.                                       *)
THEOREM BlameIsJust == Spec => []BlamesTheDead
<1>1. PoolInv => BlamesTheDead
  <2> SUFFICES ASSUME PoolInv, parent = "exited", forked = NWorkers
               PROVE  /\ failed = died
                      /\ \A i \in Worker \ failed : \A n \in Shard(i) :
                           saved[TaskAt(n)] # "none"
    BY DEF BlamesTheDead
  <2>1. \A i \in Worker : child[Ours(i)] = "reaped"
    BY DEF PoolInv, ExitInv
  <2>2. failed = died
    <3>1. failed \subseteq Worker /\ died \subseteq Worker
      BY DEF PoolInv, TypeOK
    <3>2. \A i \in Worker : i \in failed <=> i \in died
      BY <2>1 DEF PoolInv, DeadInv
    <3>3. QED BY <3>1, <3>2
  <2>3. \A i \in Worker \ failed : Finished(i)
    BY <2>1 DEF PoolInv, ReapInv
  <2>4. QED BY <2>2, <2>3 DEF Finished
<1>2. QED BY PoolInvInit, PoolInvNext, <1>1, PTL DEF Spec

-----------------------------------------------------------------------------
(* Two processes never solve the same task, unless children are orphaned.  *)

AloneAll == PoolInv /\ ShardInv /\ AloneInv

LEMMA ShardNext == TypeOK /\ ShardInv /\ [Next]_vars => ShardInv'
<1> SUFFICES ASSUME TypeOK, ShardInv, [Next]_vars, NEW d \in Child
             PROVE  /\ todo'[d] \subseteq Shard(d[2])
                    /\ now'[d] # NoTask => now'[d] \in Shard(d[2])
                                           /\ child'[d] = "running"
  BY DEF ShardInv
<1> USE DEF parentVars, childVars
<1>1. CASE Fork
  <2>1. CASE d = <<pool, forked>>
    BY <1>1, <2>1 DEF Fork, ShardInv, TypeOK
  <2>2. CASE d # <<pool, forked>>
    BY <1>1, <2>2 DEF Fork, ShardInv, TypeOK
  <2>3. QED BY <2>1, <2>2
<1>2. ASSUME NEW i \in Worker, Reap(i)
      PROVE  /\ todo'[d] \subseteq Shard(d[2])
             /\ now'[d] # NoTask => now'[d] \in Shard(d[2])
                                    /\ child'[d] = "running"
  BY <1>2 DEF Reap, ShardInv, TypeOK
<1>3. ASSUME NEW c \in Child, Work(c) \/ Dies(c)
      PROVE  /\ todo'[d] \subseteq Shard(d[2])
             /\ now'[d] # NoTask => now'[d] \in Shard(d[2])
                                    /\ child'[d] = "running"
  <2>1. CASE d = c
    <3>1. ASSUME NEW n \in Slot, Skip(c, n) \/ Begin(c, n)
          PROVE  /\ todo'[d] \subseteq Shard(d[2])
                 /\ now'[d] # NoTask => now'[d] \in Shard(d[2])
                                        /\ child'[d] = "running"
      BY <2>1, <3>1 DEF Skip, Begin, ComesTo, ShardInv, TypeOK
    <3>2. CASE Save(c) \/ ChildDone(c) \/ Dies(c)
      BY <2>1, <3>2 DEF Save, ChildDone, Dies, ShardInv, TypeOK
    <3>3. QED BY <1>3, <3>1, <3>2 DEF Work
  <2>2. CASE d # c
    <3>1. UNCHANGED <<todo[d], now[d], child[d]>>
      BY <1>3, <2>2 DEF Work, Skip, Begin, ComesTo, Save, ChildDone, Dies,
                        TypeOK
    <3>2. QED BY <3>1 DEF ShardInv
  <2>3. QED BY <2>1, <2>2
<1>4. CASE MachineDies
  BY <1>4 DEF MachineDies, ShardInv
<1>5. CASE Return \/ Rerun \/ ForkRaises \/ ParentKilled \/ UNCHANGED vars
  BY <1>5 DEF Return, Rerun, ForkRaises, ParentKilled, ShardInv, vars
<1>6. QED
  BY <1>1, <1>2, <1>3, <1>4, <1>5 DEF Next, Parent, ChildDies, SaveRaises

LEMMA AloneNext == PoolInv /\ AloneInv /\ [Next]_vars => AloneInv'
<1> SUFFICES ASSUME PoolInv, AloneInv, [Next]_vars, ~orphaned', NEW d \in Child,
                    child'[d] = "running"
             PROVE  d[1] = pool' /\ parent' \in {"fork", "wait"}
  BY DEF AloneInv
<1> USE DEF parentVars, childVars
<1>a. TypeOK /\ FreshInv /\ ReturnInv
  BY DEF PoolInv
<1>b. d[1] \in Pool /\ d[2] \in Worker /\ d = <<d[1], d[2]>>
  BY DEF Child
<1>1. CASE Fork
  <2>1. CASE d = <<pool, forked>>
    BY <1>1, <2>1 DEF Fork
  <2>2. CASE d # <<pool, forked>>
    BY <1>1, <1>a, <2>2 DEF Fork, AloneInv, TypeOK
  <2>3. QED BY <2>1, <2>2
<1>2. ASSUME NEW i \in Worker, Reap(i)
      PROVE  d[1] = pool' /\ parent' \in {"fork", "wait"}
  BY <1>2, <1>a DEF Reap, AloneInv, TypeOK
<1>3. CASE Return
  <2>1. child[d] = "running" /\ d[1] = pool
    BY <1>3 DEF Return, AloneInv
  <2>2. child[d] = "reaped"
    BY <1>3, <1>b, <2>1 DEF Return, Ours
  <2>3. QED BY <2>1, <2>2
<1>4. CASE Rerun
  BY <1>4 DEF Rerun, AloneInv
<1>5. ASSUME NEW c \in Child, Work(c) \/ Dies(c)
      PROVE  d[1] = pool' /\ parent' \in {"fork", "wait"}
  <2>1. UNCHANGED <<pool, parent, orphaned>>
    BY <1>5 DEF Work, Skip, Begin, Save, ChildDone, Dies
  <2>2. child[d] = "running"
    BY <1>5, <1>a DEF Work, Skip, Begin, ComesTo, Save, ChildDone, Dies, TypeOK
  <2>3. QED BY <2>1, <2>2 DEF AloneInv
<1>6. CASE ForkRaises \/ ParentKilled
  BY <1>6 DEF ForkRaises, ParentKilled
<1>7. CASE MachineDies
  BY <1>7 DEF MachineDies
<1>8. CASE UNCHANGED vars
  BY <1>8 DEF vars, AloneInv
<1>9. QED
  BY <1>1, <1>2, <1>3, <1>4, <1>5, <1>6, <1>7, <1>8 DEF Next, Parent, ChildDies, SaveRaises

LEMMA AloneAllInvariant == Spec => []AloneAll
<1>1. Init => AloneAll
  BY PoolInvInit DEF AloneAll, Init, ShardInv, AloneInv
<1>2. AloneAll /\ [Next]_vars => AloneAll'
  BY PoolInvNext, ShardNext, AloneNext DEF AloneAll, PoolInv
<1>3. QED BY <1>1, <1>2, PTL DEF Spec

(* As long as no fault separates a parent from its children, nobody ever    *)
(* solves a task that another live process is solving: the temporary file   *)
(* names of _save_cts, which are the same for everybody, have one writer.   *)
THEOREM NoTwoSolvers == Spec => []OneSolver
<1>1. AloneAll => OneSolver
  <2> SUFFICES ASSUME AloneAll, ~orphaned, NEW c \in Child, NEW d \in Child,
                      now[c] # NoTask, now[d] # NoTask,
                      TaskAt(now[c]) = TaskAt(now[d])
               PROVE  c = d
    BY DEF OneSolver, Rivals
  <2>1. now[c] \in Shard(c[2]) /\ now[d] \in Shard(d[2])
    BY DEF AloneAll, ShardInv
  <2>2. now[c] = now[d]
    BY <2>1, TaskListHasNoDuplicates DEF Shard
  <2>3. c[2] = d[2]
    BY <2>1, <2>2 DEF Shard
  <2>4. c[1] = pool /\ d[1] = pool
    BY DEF AloneAll, ShardInv, AloneInv
  <2>5. QED BY <2>3, <2>4 DEF Child
<1>2. QED BY AloneAllInvariant, <1>1, PTL

(* Then no child outlives its parent either, and a rerun is alone.          *)
THEOREM NoOrphans == Spec => []NobodyLeftBehind
<1>1. AloneAll => NobodyLeftBehind
  BY DEF AloneAll, AloneInv, NobodyLeftBehind
<1>2. QED BY AloneAllInvariant, <1>1, PTL
=============================================================================
