---------------------------- MODULE CampaignProofs ----------------------------
(***************************************************************************)
(* Proofs about Campaign for every list of configurations, every number of *)
(* classes, clients and workers, and any number of faults.                 *)
(***************************************************************************)
EXTENDS CampaignInvariant, SequenceTheorems, WellFoundedInduction, TLAPS

(* The configurations, and what flags and environment are resolved to.      *)
LEMMA ConfigFacts ==
  /\ Len(Configs) \in Nat \ {0} /\ Config = 1 .. Len(Configs)
  /\ \A i \in Config : /\ Configs[i].k \in Ks
                       /\ Configs[i].depth \in Nat \ {0}
                       /\ Configs[i].dataset \in Datasets
                       /\ Configs[i].partition \in Partitions \cup {Unset}
<1> DEFINE R == [k : Nat, dataset : Datasets, partition : Partitions \cup {Unset},
                 depth : Nat \ {0}]
<1>1. Configs \in Seq(R) /\ Configs # <<>>
  BY CampaignAssumption
<1> HIDE DEF R
<1>2. Len(Configs) \in Nat \ {0} /\ Config = 1 .. Len(Configs)
  BY <1>1, EmptySeq, LenProperties DEF Config
<1>3. \A i \in Config : Configs[i] \in R
  BY <1>1, <1>2, ElementOfSeq
<1>4. \A i \in Config : Configs[i].k \in Ks
  BY DEF Ks
<1>5. QED BY <1>2, <1>3, <1>4 DEF R

LEMMA ProblemType ==
  ASSUME NEW i \in Config, NEW e, e.partition \in Partitions \cup {Unset}
  PROVE  Problem(i, e) \in Problems
BY ConfigFacts, SettingsAssumption
   DEF Problem, Problems, DatasetName, PartitionName, Resolve, Partitions

LEMMA IntendedType == \A i \in Config : Intended(i) \in Problems
BY ProblemType DEF Intended, NoEnv

LEMMA RootFacts ==
  ASSUME env \in Envs
  PROVE  /\ ShellRoot = "models" /\ ShellRoot \in Roots /\ PythonRoot \in Roots
         /\ env.partition \in Partitions \cup {Unset}
BY CampaignAssumption, SettingsAssumption
   DEF ShellRoot, PythonRoot, ShellModelsRoot, ModelsRoot, Resolve

(* In the environment the scripts are written for, programs and shell agree *)
(* on the directory, and the programs solve the configuration's problem.    *)
LEMMA PlainFacts ==
  ASSUME env \in Envs, cur \in Config, Plain
  PROVE  /\ PythonRoot = ShellRoot /\ There = Here
         /\ Problem(cur, env) = Intended(cur)
<1>1. PythonRoot = ShellRoot
  BY SettingsAssumption DEF Plain, ShellRoot, PythonRoot, ShellModelsRoot,
                            ModelsRoot, Resolve
<1>2. Configs[cur].dataset # Unset
  BY ConfigFacts, SettingsAssumption
<1>3. Problem(cur, env) = Intended(cur)
  BY <1>2 DEF Plain, Intended, Problem, NoEnv, DatasetName, PartitionName, Resolve
<1>4. QED BY <1>1, <1>3 DEF There, Here

LEMMA TaskFacts ==
  /\ \A t \in Task : /\ t[1] \in Classes /\ t[2] \in Member
                     /\ t = <<t[1], t[2]>> /\ WorkerOf(t) \in Worker
  /\ \A c \in Classes, j \in Member : <<c, j>> \in Task
  /\ Baseline \in Member /\ Client \subseteq Member /\ Baseline \notin Client
  /\ Finalizer \notin Worker /\ Finalizer \in 0 .. NWorkers
  /\ Worker \subseteq 0 .. NWorkers
<1>1. /\ Baseline \in Member /\ Client \subseteq Member /\ Baseline \notin Client
      /\ Finalizer \notin Worker /\ Finalizer \in 0 .. NWorkers
      /\ Worker \subseteq 0 .. NWorkers
  BY ReportAssumption DEF Baseline, Member, Client, Finalizer, Worker
<1>2. ASSUME NEW t \in Task
      PROVE  /\ t[1] \in Classes /\ t[2] \in Member
             /\ t = <<t[1], t[2]>> /\ WorkerOf(t) \in Worker
  <2>1. t[1] \in Classes /\ t[2] \in Member /\ t = <<t[1], t[2]>>
    BY DEF Task
  <2>2. t[1] \in Int /\ t[2] \in Int /\ NClients \in Int /\ NClasses \in Int
    BY <2>1, ReportAssumption DEF Classes, Member
  <2>3. PlaceOf(t) \in Int
    BY <2>2 DEF PlaceOf
  <2>4. WorkerOf(t) \in 0 .. NWorkers - 1
    BY <2>3, ReportAssumption DEF WorkerOf
  <2>5. QED BY <2>1, <2>4 DEF Worker
<1>3. QED BY <1>1, <1>2 DEF Task

LEMMA NoTreeType ==
  /\ NoSolve \in Solves /\ NoClass \in ClassDir /\ NoTree \in Directory
  /\ NoLines \in Lines /\ NoLogs \in Logs
  /\ NoLine \in [run : Nat, by : Nat] /\ Resumed \in [run : Nat, by : Nat]
<1>1. /\ NoLine \in [run : Nat, by : Nat] /\ Resumed \in [run : Nat, by : Nat]
      /\ NoLines \in Lines
  BY DEF NoLine, Resumed, NoLines, Lines
<1>2. NoLogs \in Logs
  BY <1>1 DEF NoLogs, Logs
<1>3. 1 \in Config
  BY ConfigFacts
<1>4. NoSolve \in Solves
  BY <1>3, IntendedType, ReportAssumption DEF NoSolve, Solves
<1>5. NoClass \in ClassDir
  BY <1>4 DEF NoClass, ClassDir
<1>6. <<>> \in Seq(Sections)
  OBVIOUS
<1>7. NoTree \in Directory
  BY <1>2, <1>5, <1>6 DEF NoTree, Directory
<1>8. QED BY <1>1, <1>2, <1>4, <1>5, <1>7

LEMMA SolveType ==
  ASSUME TypeOK, NEW who \in 0 .. NWorkers, NEW finite \in BOOLEAN
  PROVE  /\ Solve(who, finite) \in Solves
         /\ Time(Solve(who, finite)) \in [run : Nat, by : Nat]
<1>1. Problem(cur, env) \in Problems
  BY ProblemType, RootFacts DEF TypeOK
<1>2. who \in Nat
  BY ReportAssumption
<1>3. QED BY <1>1, <1>2 DEF Solve, Solves, Time, TypeOK

LEMMA MoveFacts ==
  /\ Len(MoveOrder) = NClasses + 3
  /\ \A j \in 1 .. NClasses : MoveOrder[j] = <<"class", j - 1>>
  /\ MoveOrder[NClasses + 1] = <<"logs", 0>>
  /\ MoveOrder[NClasses + 2] = <<"metrics", 0>>
  /\ MoveOrder[NClasses + 3] = <<"report", 0>>
<1> DEFINE rest == <<<<"logs", 0>>, <<"metrics", 0>>, <<"report", 0>>>>
<1>1. /\ NClasses \in Nat /\ Len(ClassEntries) = NClasses
      /\ \A j \in 1 .. NClasses : ClassEntries[j] = <<"class", j - 1>>
  BY ReportAssumption DEF ClassEntries
<1> DEFINE S == {"class", "logs", "metrics", "report"} \X Int
<1>2. ClassEntries \in Seq(S)
  BY <1>1 DEF ClassEntries
<1>3. /\ Len(rest) = 3 /\ rest[1] = <<"logs", 0>>
      /\ rest[2] = <<"metrics", 0>> /\ rest[3] = <<"report", 0>>
  OBVIOUS
<1>4. rest \in Seq(S)
  OBVIOUS
<1> HIDE DEF rest, S
<1>5. /\ Len(ClassEntries \o rest) = NClasses + 3
      /\ \A j \in 1 .. NClasses + 3 : (ClassEntries \o rest)[j] =
           IF j <= NClasses THEN ClassEntries[j] ELSE rest[j - NClasses]
  <2>1. /\ Len(ClassEntries \o rest) = Len(ClassEntries) + Len(rest)
        /\ \A j \in 1 .. Len(ClassEntries) + Len(rest) : (ClassEntries \o rest)[j] =
             IF j <= Len(ClassEntries) THEN ClassEntries[j]
             ELSE rest[j - Len(ClassEntries)]
    BY <1>2, <1>4, ConcatProperties, Zenon
  <2>2. QED BY <1>1, <1>3, <2>1
<1>6. MoveOrder = ClassEntries \o rest
  BY DEF MoveOrder, rest
<1>7. QED BY <1>1, <1>3, <1>5, <1>6

(* The directory the programs or the shell work in, replaced as a whole.    *)
LEMMA PutFacts ==
  ASSUME NEW t \in [Roots -> [Ks -> Directory]], NEW r \in Roots, cur \in Config,
         NEW d \in Directory
  PROVE  /\ Put(t, r, d) \in [Roots -> [Ks -> Directory]]
         /\ Put(t, r, d)[r][C.k] = d
BY ConfigFacts DEF Put, C

LEMMA TreeFacts ==
  ASSUME TypeOK
  PROVE  Here \in Directory /\ There \in Directory /\ C.k \in Ks /\ C.depth \in Nat
BY RootFacts, ConfigFacts DEF TypeOK, Here, There, C

LEMMA DestEdit ==
  ASSUME TypeOK, NEW d \in Directory, dest' = [dest EXCEPT ![cur] = d]
  PROVE  /\ dest' \in [Config -> Directory] /\ dest'[cur] = d
         /\ \A i \in Config : i # cur => dest'[i] = dest[i]
BY DEF TypeOK

(* Where a step of the loop over the configurations leads.                  *)
LEMMA ContinueType ==
  ASSUME TypeOK, Continue
  PROVE  at' \in {"check", "summary"} /\ cur' \in Config
BY ConfigFacts DEF TypeOK, Continue

-----------------------------------------------------------------------------
(* Every variable keeps its type.  A directory stays one whatever part of   *)
(* it a step replaces.                                                      *)
LEMMA DirectoryParts ==
  ASSUME NEW d \in Directory
  PROVE  /\ d.class \in [Classes -> ClassDir] /\ d.logs \in Logs
         /\ d.metrics \in SUBSET Nat /\ d.report \in Seq(Sections)
         /\ \A c \in Classes : /\ d.class[c].depth \in Nat
                               /\ d.class[c].ckpt \in [Member -> Solves]
                               /\ d.class[c].model \in SUBSET Solves
         /\ d.logs.worker \in [Worker -> Lines] /\ d.logs.finalize \in Lines
BY DEF Directory, ClassDir, Logs

LEMMA ClassEdit ==
  ASSUME NEW d \in Directory, NEW c \in Classes, NEW x \in ClassDir
  PROVE  [d EXCEPT !.class[c] = x] \in Directory
BY DEF Directory

LEMMA LogsEdit ==
  ASSUME NEW d \in Directory, NEW x \in Logs
  PROVE  [d EXCEPT !.logs = x] \in Directory
BY DEF Directory

LEMMA LineEdit ==
  ASSUME NEW d \in Directory, NEW w \in Worker, NEW t \in Task,
         NEW l \in [run : Nat, by : Nat]
  PROVE  [d EXCEPT !.logs.worker[w][t] = l] \in Directory
<1>1. [d.logs EXCEPT !.worker[w][t] = l] \in Logs
  BY DirectoryParts DEF Logs, Lines
<1>2. [d EXCEPT !.logs.worker[w][t] = l] = [d EXCEPT !.logs = [d.logs EXCEPT !.worker[w][t] = l]]
  BY DEF Directory
<1>3. QED BY <1>1, <1>2, LogsEdit

LEMMA SolveEdit ==
  ASSUME NEW d \in Directory, NEW c \in Classes, NEW j \in Member, NEW s \in Solves
  PROVE  [d EXCEPT !.class[c].ckpt[j] = s] \in Directory
<1>1. [d.class[c] EXCEPT !.ckpt[j] = s] \in ClassDir
  <2> DEFINE e == d.class[c]
  <2>1. e \in ClassDir /\ e.ckpt \in [Member -> Solves]
    BY DirectoryParts DEF ClassDir
  <2> HIDE DEF e
  <2>2. [e.ckpt EXCEPT ![j] = s] \in [Member -> Solves]
    BY <2>1
  <2>3. [e EXCEPT !.ckpt = [e.ckpt EXCEPT ![j] = s]] \in ClassDir
    BY <2>1, <2>2 DEF ClassDir
  <2>4. [e EXCEPT !.ckpt[j] = s] = [e EXCEPT !.ckpt = [e.ckpt EXCEPT ![j] = s]]
    OBVIOUS
  <2> QED
    BY <2>3, <2>4 DEF e
<1>2. [d EXCEPT !.class[c].ckpt[j] = s] = [d EXCEPT !.class[c] = [d.class[c] EXCEPT !.ckpt[j] = s]]
  BY DEF Directory
<1>3. QED BY <1>1, <1>2, ClassEdit

LEMMA Largest ==
  ASSUME NEW S \in SUBSET Worker, S # {}
  PROVE  Max(S) \in S /\ \A y \in S : Max(S) >= y
<1> DEFINE T == {NWorkers - y : y \in S}
<1>0. NWorkers \in Nat /\ \A y \in S : y \in 0 .. NWorkers - 1
  BY ReportAssumption, Zenon DEF Worker
<1>1. T \subseteq Nat /\ T # {}
  BY <1>0
<1>2. PICK t \in T : \A u \in T : ~(<<u, t>> \in OpToRel(<, Nat))
  <2> HIDE DEF T
  <2>1. QED BY <1>1, WFMin, NatLessThanWellFounded
<1>3. \A u \in T : ~(u < t)
  BY <1>1, <1>2 DEF OpToRel
<1>4. PICK x \in S : t = NWorkers - x
  OBVIOUS
<1>5. ASSUME NEW y \in S PROVE x >= y
  <2>1. NWorkers - y \in T
    OBVIOUS
  <2>2. ~(NWorkers - y < NWorkers - x)
    BY <1>3, <1>4, <2>1
  <2>3. QED BY <1>0, <2>2
<1>6. \E z \in S : \A y \in S : z >= y
  BY <1>5
<1>7. QED BY <1>6 DEF Max

LEMMA Least ==
  ASSUME NEW S \in SUBSET Worker, S # {}
  PROVE  Min(S) \in S
<1>1. \A y \in S : y \in 0 .. NWorkers - 1
  BY Zenon DEF Worker
<1>2. S \subseteq Nat
  BY <1>1, ReportAssumption
<1>3. PICK t \in S : \A u \in S : ~(<<u, t>> \in OpToRel(<, Nat))
  BY <1>2, WFMin, NatLessThanWellFounded
<1>4. \A u \in S : ~(u < t)
  BY <1>2, <1>3 DEF OpToRel
<1>5. \A y \in S : t <= y
  BY <1>2, <1>4
<1>6. QED BY <1>5 DEF Min

LEMMA SectionType ==
  ASSUME NEW logs \in Logs, NEW r \in Nat, NEW W \in SUBSET Task
  PROVE  Section(r, logs, W) \in Sections
<1>1. ASSUME NEW t \in Task
      PROVE  /\ TimeOf(logs, t) \in [run : Nat, by : Nat]
             /\ NameOf(logs, t) \in 0 .. NWorkers
  <2>1. /\ Solvers(logs, t) \in SUBSET Worker /\ Namers(logs, t) \in SUBSET Worker
        /\ logs.finalize[t] \in [run : Nat, by : Nat]
        /\ \A w \in Worker : logs.worker[w][t] \in [run : Nat, by : Nat]
    BY DEF Solvers, Namers, Logs, Lines
  <2>2. Solvers(logs, t) # {} => Max(Solvers(logs, t)) \in Worker
    BY <2>1, Largest
  <2>3. Namers(logs, t) # {} => Min(Namers(logs, t)) \in Worker
    BY <2>1, Least
  <2>4. TimeOf(logs, t) \in [run : Nat, by : Nat]
    BY <2>1, <2>2, NoTreeType DEF TimeOf
  <2>5. QED BY <2>2, <2>3, <2>4, TaskFacts DEF NameOf
<1>2. Uploads(W) \in SUBSET Task
  BY DEF Uploads
<1>3. [t \in Task |-> TimeOf(logs, t)] \in Lines
  BY <1>1 DEF Lines
<1>4. [t \in Task |-> NameOf(logs, t)] \in [Task -> 0 .. NWorkers]
  BY <1>1
<1>5. QED BY <1>2, <1>3, <1>4 DEF Section, Sections

(* What is moved into a directory of results is a directory again.          *)
LEMMA TakeType ==
  ASSUME NEW t \in Directory, NEW u \in Directory, NEW j \in 1 .. NClasses + 3
  PROVE  Take(t, MoveOrder[j], u) \in Directory
<1>1. CASE j <= NClasses
  <2>1. j - 1 \in Classes /\ MoveOrder[j] = <<"class", j - 1>>
    BY <1>1, MoveFacts, ReportAssumption DEF Classes
  <2>2. Take(t, MoveOrder[j], u) = [t EXCEPT !.class[j - 1] = u.class[j - 1]]
    BY <2>1 DEF Take
  <2>3. u.class[j - 1] \in ClassDir
    BY <2>1, DirectoryParts
  <2>4. QED BY <2>1, <2>2, <2>3, ClassEdit
<1>2. CASE j > NClasses
  <2>0. j \in {NClasses + 1, NClasses + 2, NClasses + 3}
    BY <1>2, ReportAssumption
  <2>1. MoveOrder[j] \in {<<"logs", 0>>, <<"metrics", 0>>, <<"report", 0>>}
    BY <2>0, MoveFacts
  <2>2. Take(t, MoveOrder[j], u) \in {[t EXCEPT !.logs = u.logs],
          [t EXCEPT !.metrics = u.metrics], [t EXCEPT !.report = u.report]}
    BY <2>1 DEF Take
  <2>3. QED BY <2>2 DEF Directory
<1>3. QED BY <1>1, <1>2, ReportAssumption

-----------------------------------------------------------------------------
LEMMA TypeInit == Init => TypeOK
<1> SUFFICES ASSUME Init PROVE TypeOK
  OBVIOUS
<1>1. 1 \in Config
  BY ConfigFacts
<1>2. 0 \in 0 .. Len(MoveOrder)
  BY MoveFacts, ReportAssumption
<1>3. QED BY <1>1, <1>2, NoTreeType DEF Init, TypeOK

(* What run_parallel.sh makes of the directory it works in.                 *)
LEMMA PrepareType ==
  ASSUME TypeOK, NEW d \in Directory
  PROVE  [d EXCEPT !.class[0].depth = C.depth] \in Directory
<1>1. 0 \in Classes
  BY ReportAssumption DEF Classes
<1>2. [d.class[0] EXCEPT !.depth = C.depth] \in ClassDir
  <2>1. d.class[0] \in ClassDir /\ C.depth \in Nat
    BY <1>1, DirectoryParts, TreeFacts
  <2>2. QED BY <2>1 DEF ClassDir
<1>3. [d EXCEPT !.class[0].depth = C.depth] =
        [d EXCEPT !.class[0] = [d.class[0] EXCEPT !.depth = C.depth]]
  OBVIOUS
<1>4. QED BY <1>1, <1>2, <1>3, ClassEdit

LEMMA LogEdits ==
  ASSUME NEW d \in Directory, NEW x \in Lines
  PROVE  /\ [d EXCEPT !.logs.worker = NoLogs.worker] \in Directory
         /\ [d EXCEPT !.logs.finalize = x] \in Directory
<1>1. [d.logs EXCEPT !.worker = NoLogs.worker] \in Logs
  BY DirectoryParts, NoTreeType DEF Logs
<1>2. [d.logs EXCEPT !.finalize = x] \in Logs
  BY DirectoryParts DEF Logs
<1>3. /\ [d EXCEPT !.logs.worker = NoLogs.worker] =
           [d EXCEPT !.logs = [d.logs EXCEPT !.worker = NoLogs.worker]]
      /\ [d EXCEPT !.logs.finalize = x] =
           [d EXCEPT !.logs = [d.logs EXCEPT !.finalize = x]]
  OBVIOUS
<1>4. QED BY <1>1, <1>2, <1>3, LogsEdit

LEMMA SolvedType ==
  ASSUME NEW d \in Directory, NEW t \in Task, NEW s \in Solves
  PROVE  [d EXCEPT !.class[t[1]].ckpt[t[2]] = s,
                   !.logs.worker[WorkerOf(t)][t] = Time(s)] \in Directory
<1> DEFINE e == [d EXCEPT !.class[t[1]].ckpt[t[2]] = s]
<1>1. e \in Directory
  BY TaskFacts, SolveEdit
<1>2. Time(s) \in [run : Nat, by : Nat]
  <2>1. s.run \in Nat /\ s.by \in Nat
    BY ReportAssumption DEF Solves
  <2>2. QED BY <2>1 DEF Time
<1>3. [e EXCEPT !.logs.worker[WorkerOf(t)][t] = Time(s)] \in Directory
  <2> HIDE DEF e
  <2>1. QED BY <1>1, <1>2, TaskFacts, LineEdit
<1>4. QED BY <1>3

(* The class directory that the finalize pass leaves, and its lines.        *)
LEMMA TrainedType ==
  ASSUME TypeOK, NEW c \in Classes, NEW finite \in BOOLEAN
  PROVE  LET ckpt == Retried(c, finite)
         IN  /\ ckpt \in [Member -> Solves]
             /\ FinalLines(c, ckpt) \in Lines
             /\ [There EXCEPT !.class[c] =
                  [depth |-> C.depth, ckpt |-> ckpt,
                   model |-> {ckpt[j] : j \in Client}]] \in Directory
             /\ Trained(c, ckpt) \in [Roots -> [Ks -> Directory]]
<1> DEFINE ckpt == Retried(c, finite)
           x == [depth |-> C.depth, ckpt |-> ckpt, model |-> {ckpt[j] : j \in Client}]
<1>1. ckpt \in [Member -> Solves]
  <2>1. Solve(Finalizer, finite) \in Solves
    BY SolveType, TaskFacts
  <2>2. \A j \in Member : There.class[c].ckpt[j] \in Solves
    BY TreeFacts, DirectoryParts
  <2>3. QED BY <2>1, <2>2 DEF Retried
<1> HIDE DEF ckpt
<1>2. x \in ClassDir
  BY <1>1, TaskFacts, TreeFacts DEF ClassDir
<1>3. [There EXCEPT !.class[c] = x] \in Directory
  <2> HIDE DEF x
  <2>1. QED BY <1>2, ClassEdit, TreeFacts
<1>4. FinalLines(c, ckpt) \in Lines
  <2>1. ASSUME NEW t \in Task
        PROVE  /\ Here.logs.finalize[t] \in [run : Nat, by : Nat]
               /\ Time(ckpt[t[2]]) \in [run : Nat, by : Nat]
    <3>1. Here.logs.finalize \in Lines
      BY TreeFacts, DirectoryParts
    <3>2. ckpt[t[2]] \in Solves
      BY <1>1, TaskFacts
    <3>3. ckpt[t[2]].run \in Nat /\ ckpt[t[2]].by \in Nat
      BY <3>2, ReportAssumption DEF Solves
    <3>4. QED BY <3>1, <3>3 DEF Lines, Time
  <2>2. QED BY <2>1, NoTreeType DEF FinalLines, Lines
<1>5. Trained(c, ckpt) \in [Roots -> [Ks -> Directory]]
  <2>1. Trained(c, ckpt) = Put(tree, PythonRoot, [There EXCEPT !.class[c] = x])
    BY DEF Trained
  <2>2. /\ PythonRoot \in Roots /\ cur \in Config
        /\ tree \in [Roots -> [Ks -> Directory]]
    BY RootFacts DEF TypeOK
  <2> DEFINE y == [There EXCEPT !.class[c] = x]
  <2> HIDE DEF y, x
  <2>3. y \in Directory /\ Trained(c, ckpt) = Put(tree, PythonRoot, y)
    BY <1>3, <2>1 DEF y
  <2>4. QED BY <2>2, <2>3, PutFacts
<1>6. QED BY <1>1, <1>3, <1>4, <1>5 DEF ckpt


(* The types of what each action of a run and of the driver leaves.          *)
LEMMA RunType ==
  ASSUME TypeOK, Run
  PROVE  /\ tree' \in [Roots -> [Ks -> Directory]]
         /\ at' \in Phases \cup {"move", "failed"} /\ todo' \subseteq Task
         /\ UNCHANGED <<dest, failed, place>>
<1>0. /\ tree \in [Roots -> [Ks -> Directory]] /\ cur \in Config
      /\ todo \subseteq Task
      /\ ShellRoot \in Roots /\ PythonRoot \in Roots
      /\ Here \in Directory /\ There \in Directory
  BY RootFacts, TreeFacts DEF TypeOK
<1>t. ASSUME NEW t, NEW r \in Roots, NEW d \in Directory, t \in [Roots -> [Ks -> Directory]]
      PROVE  Put(t, r, d) \in [Roots -> [Ks -> Directory]]
  BY <1>0, <1>t, PutFacts
<1>1. CASE Prepare
  <2>1. [There EXCEPT !.class[0].depth = C.depth] \in Directory
    BY <1>0, PrepareType
  <2>2. QED BY <1>0, <1>1, <1>t, <2>1 DEF Prepare, PutThere, Phases
<1>2. CASE PrepareRefuses
  BY <1>0, <1>2 DEF PrepareRefuses
<1>3. CASE ForkChildren
  <2>1. [There EXCEPT !.logs.worker = NoLogs.worker] \in Directory
    BY <1>0, LogEdits, NoTreeType
  <2>2. QED BY <1>0, <1>3, <1>t, <2>1 DEF ForkChildren, PutThere, Phases
<1>4. CASE PoolDone
  <2>1. [Here EXCEPT !.logs.finalize = NoLines] \in Directory
    BY <1>0, LogEdits, NoTreeType
  <2>2. QED BY <1>0, <1>4, <1>t, <2>1 DEF PoolDone, PutHere, Phases
<1>5. ASSUME NEW t \in Task, ResumeTask(t)
      PROVE  tree' \in [Roots -> [Ks -> Directory]]
  <2>1. [There EXCEPT !.logs.worker[WorkerOf(t)][t] = Resumed] \in Directory
    BY <1>0, LineEdit, NoTreeType, TaskFacts
  <2>2. QED BY <1>0, <1>5, <1>t, <2>1 DEF ResumeTask, PutThere
<1>6. ASSUME NEW t \in Task, SolveTask(t)
      PROVE  tree' \in [Roots -> [Ks -> Directory]]
  <2>1. PICK finite \in BOOLEAN :
          PutThere([There EXCEPT !.class[t[1]].ckpt[t[2]] = Solve(WorkerOf(t), finite),
                      !.logs.worker[WorkerOf(t)][t] = Time(Solve(WorkerOf(t), finite))])
    BY <1>6 DEF SolveTask
  <2>2. Solve(WorkerOf(t), finite) \in Solves
    BY SolveType, TaskFacts
  <2>3. [There EXCEPT !.class[t[1]].ckpt[t[2]] = Solve(WorkerOf(t), finite),
                      !.logs.worker[WorkerOf(t)][t] = Time(Solve(WorkerOf(t), finite))]
          \in Directory
    BY <1>0, <2>2, SolvedType
  <2>4. QED BY <1>0, <1>t, <2>1, <2>3 DEF PutThere
<1>7. ASSUME NEW c \in Classes, FinalizeClass(c)
      PROVE  tree' \in [Roots -> [Ks -> Directory]]
  <2> DEFINE T(finite) == Trained(c, Retried(c, finite))
             D(finite) == [T(finite)[ShellRoot][C.k] EXCEPT
                              !.logs.finalize = FinalLines(c, Retried(c, finite))]
  <2>1. PICK finite \in BOOLEAN : tree' = Put(T(finite), ShellRoot, D(finite))
    BY <1>7 DEF FinalizeClass
  <2>2. /\ T(finite) \in [Roots -> [Ks -> Directory]]
        /\ FinalLines(c, Retried(c, finite)) \in Lines
    BY TrainedType
  <2>3. T(finite)[ShellRoot][C.k] \in Directory
    <3> HIDE DEF T
    <3>1. QED BY <1>0, <2>2, TreeFacts
  <2>4. D(finite) \in Directory
    <3> HIDE DEF T
    <3>1. QED BY <2>2, <2>3, LogEdits
  <2>5. QED
    <3> HIDE DEF T, D
    <3>1. QED BY <1>0, <1>t, <2>1, <2>2, <2>4
<1>8. CASE FinalizeDone
  BY <1>0, <1>8 DEF FinalizeDone, Phases
<1>9. CASE WriteReport
  <2> DEFINE W == {t \in Task : Here.class[t[1]].ckpt[t[2]] # NoSolve}
             s == Section(runs, Here.logs, W)
  <2>1. s \in Sections
    <3>1. W \in SUBSET Task /\ runs \in Nat /\ Here.logs \in Logs
      BY <1>0, DirectoryParts DEF TypeOK
    <3> HIDE DEF W
    <3>2. QED BY <3>1, SectionType
  <2>2. tree' = Put(tree, ShellRoot, [Here EXCEPT !.report = Append(@, s)])
    BY <1>9 DEF WriteReport, PutHere
  <2> HIDE DEF s
  <2>3. Append(Here.report, s) \in Seq(Sections)
    BY <1>0, <2>1, DirectoryParts
  <2>4. [Here EXCEPT !.report = Append(@, s)] \in Directory
    BY <1>0, <2>3 DEF Directory
  <2>5. QED BY <1>0, <1>9, <1>t, <2>2, <2>4 DEF WriteReport, Phases
<1>10. CASE WriteMetrics
  <2>1. [Here EXCEPT !.metrics = @ \cup {runs}] \in Directory
    <3>1. Here.metrics \cup {runs} \in SUBSET Nat
      BY <1>0, DirectoryParts DEF TypeOK
    <3>2. QED BY <1>0, <3>1 DEF Directory
  <2>2. QED BY <1>0, <1>10, <1>t, <2>1 DEF WriteMetrics, PutHere
<1>11. ASSUME NEW t \in Task, ResumeTask(t) \/ SolveTask(t)
       PROVE  at' = "pool" /\ todo' \subseteq Task /\ UNCHANGED <<dest, failed, place>>
  BY <1>0, <1>11 DEF ResumeTask, SolveTask
<1>12. ASSUME NEW c \in Classes, FinalizeClass(c)
       PROVE  at' = "finalize" /\ todo' \subseteq Task /\ UNCHANGED <<dest, failed, place>>
  BY <1>0, <1>12 DEF FinalizeClass
<1>13. QED
  BY <1>1, <1>2, <1>3, <1>4, <1>5, <1>6, <1>7, <1>8, <1>9, <1>10, <1>11, <1>12
     DEF Run, Phases, Prepare, PrepareRefuses, ForkChildren, PoolDone, FinalizeDone,
         WriteReport, WriteMetrics

LEMMA DriverType ==
  ASSUME TypeOK, Driver \/ RunFails \/ MoveEntryFails \/ Kill
  PROVE  TypeOK'
<1>0. /\ tree \in [Roots -> [Ks -> Directory]] /\ cur \in Config
      /\ dest \in [Config -> Directory] /\ failed \subseteq Config
      /\ env \in Envs /\ todo \subseteq Task /\ runs \in Nat
      /\ moved \in 0 .. Len(MoveOrder) /\ Len(MoveOrder) \in Nat
      /\ torn \subseteq Config /\ ShellRoot \in Roots /\ Here \in Directory
  BY RootFacts, TreeFacts, MoveFacts, ReportAssumption DEF TypeOK
<1>t. ASSUME NEW d \in Directory
      PROVE  Put(tree, ShellRoot, d) \in [Roots -> [Ks -> Directory]]
  BY <1>0, PutFacts
<1>1. CASE Start
  BY <1>0, <1>1, ConfigFacts DEF Start, TypeOK
<1>2. CASE Skip
  BY <1>0, <1>2, ContinueType DEF Skip, TypeOK
<1>3. CASE CleanDest
  BY <1>0, <1>3, DestEdit, NoTreeType DEF CleanDest, TypeOK
<1>4. CASE CleanTree
  BY <1>0, <1>4, <1>t, NoTreeType DEF CleanTree, PutHere, TypeOK, Phases
<1>5. CASE Move
  <2>1. moved + 1 \in 1 .. NClasses + 3 /\ moved + 1 \in 0 .. Len(MoveOrder)
    BY <1>0, <1>5, MoveFacts, ReportAssumption DEF Move
  <2>2. /\ Take(dest[cur], MoveOrder[moved + 1], Here) \in Directory
        /\ Take(Here, MoveOrder[moved + 1], NoTree) \in Directory
    BY <1>0, <2>1, TakeType, NoTreeType
  <2>3. QED BY <1>0, <1>5, <1>t, <2>1, <2>2, DestEdit DEF Move, PutHere, TypeOK
<1>6. CASE Moved
  <2>1. tree' \in [Roots -> [Ks -> Directory]]
    BY <1>0, <1>6, <1>t, NoTreeType DEF Moved, PutHere
  <2>2. QED BY <1>0, <1>6, <2>1, ContinueType DEF Moved, TypeOK
<1>7. CASE MarkFailed
  BY <1>0, <1>7, ContinueType DEF MarkFailed, TypeOK
<1>8. CASE Summarise
  BY <1>0, <1>8 DEF Summarise, TypeOK
<1>9. CASE RunFails
  BY <1>0, <1>9 DEF RunFails, place, TypeOK
<1>10. CASE Kill
  BY <1>0, <1>10 DEF Kill, TypeOK
<1>11. CASE MoveEntryFails
  BY <1>0, <1>11 DEF MoveEntryFails, TypeOK
<1>12. QED
  BY <1>1, <1>2, <1>3, <1>4, <1>5, <1>6, <1>7, <1>8, <1>9, <1>10, <1>11 DEF Driver

LEMMA TypeNext == TypeOK /\ [Next]_vars => TypeOK'
<1> SUFFICES ASSUME TypeOK, [Next]_vars PROVE TypeOK'
  OBVIOUS
<1>1. CASE Run
  BY <1>1, RunType DEF TypeOK, place
<1>2. CASE Driver \/ RunFails \/ MoveEntryFails \/ Kill
  BY <1>2, DriverType
<1>3. CASE UNCHANGED vars
  BY <1>3 DEF vars, TypeOK
<1>4. QED BY <1>1, <1>2, <1>3 DEF Next

-----------------------------------------------------------------------------
(* What an entry that is moved changes in a directory.                      *)
LEMMA TakeFacts ==
  ASSUME NEW t \in Directory, NEW u \in Directory, NEW j \in 1 .. NClasses + 3
  PROVE  LET x == Take(t, MoveOrder[j], u)
         IN  /\ \A c \in Classes : x.class[c] = IF j = c + 1 THEN u.class[c] ELSE t.class[c]
             /\ x.logs = IF j = NClasses + 1 THEN u.logs ELSE t.logs
             /\ x.metrics = IF j = NClasses + 2 THEN u.metrics ELSE t.metrics
             /\ x.report = IF j = NClasses + 3 THEN u.report ELSE t.report
<1>0. NClasses \in Nat /\ t.class \in [Classes -> ClassDir]
  BY DirectoryParts, ReportAssumption
<1>1. CASE j <= NClasses
  <2>1. j - 1 \in Classes /\ MoveOrder[j] = <<"class", j - 1>>
    BY <1>0, <1>1, MoveFacts DEF Classes
  <2>2. Take(t, MoveOrder[j], u) = [t EXCEPT !.class[j - 1] = u.class[j - 1]]
    BY <2>1 DEF Take
  <2>3. \A c \in Classes : (j = c + 1) <=> (c = j - 1)
    BY <1>0 DEF Classes
  <2>4. j # NClasses + 1 /\ j # NClasses + 2 /\ j # NClasses + 3
    BY <1>0, <1>1
  <2>5. QED BY <1>0, <2>1, <2>2, <2>3, <2>4 DEF Directory
<1>2. CASE j > NClasses
  <2>1. \A c \in Classes : j # c + 1
    BY <1>0, <1>2 DEF Classes
  <2>2. CASE j = NClasses + 1
    <3>1. Take(t, MoveOrder[j], u) = [t EXCEPT !.logs = u.logs]
      BY <2>2, MoveFacts DEF Take
    <3>2. QED BY <1>0, <2>1, <2>2, <3>1 DEF Directory
  <2>3. CASE j = NClasses + 2
    <3>1. Take(t, MoveOrder[j], u) = [t EXCEPT !.metrics = u.metrics]
      BY <2>3, MoveFacts DEF Take
    <3>2. QED BY <1>0, <2>1, <2>3, <3>1 DEF Directory
  <2>4. CASE j = NClasses + 3
    <3>1. Take(t, MoveOrder[j], u) = [t EXCEPT !.report = u.report]
      BY <2>4, MoveFacts DEF Take
    <3>2. QED BY <1>0, <2>1, <2>4, <3>1 DEF Directory
  <2>5. QED BY <1>0, <1>2, <2>2, <2>3, <2>4
<1>3. QED BY <1>0, <1>1, <1>2

LEMMA MovePlace ==
  ASSUME TypeOK, Move
  PROVE  /\ moved + 1 \in 1 .. NClasses + 3
         /\ Here \in Directory /\ dest[cur] \in Directory
         /\ dest'[cur] = Take(dest[cur], MoveOrder[moved + 1], Here)
         /\ \A i \in Config : i # cur => dest'[i] = dest[i]
<1>1. moved + 1 \in 1 .. NClasses + 3
  BY MoveFacts, ReportAssumption DEF Move, TypeOK
<1>2. Here \in Directory /\ dest[cur] \in Directory
  BY TreeFacts DEF TypeOK
<1>3. dest' = [dest EXCEPT ![cur] = Take(dest[cur], MoveOrder[moved + 1], Here)]
  BY DEF Move
<1>4. QED BY <1>1, <1>2, <1>3 DEF TypeOK

LEMMA RunIsAPhase ==
  ASSUME Run
  PROVE  at \in Phases
BY DEF Run, Phases, Prepare, PrepareRefuses, ForkChildren, ResumeTask, SolveTask,
       PoolDone, FinalizeClass, FinalizeDone, WriteReport, WriteMetrics

-----------------------------------------------------------------------------
(* The configuration that runs has no results before the move, and FAILED   *)
(* never stands beside a report.                                            *)
LEMMA ResultsInit == Init => NoResults /\ Unmarked
BY DEF Init, NoResults, Unmarked, Phases

LEMMA ResultsNext ==
  ASSUME TypeOK, NoResults, Unmarked, [Next]_vars
  PROVE  NoResults' /\ Unmarked'
<1>0. NoTree.report = <<>>
  BY DEF NoTree
<1>s. "move" \notin Phases /\ "check" \notin Phases /\ "clean" \notin Phases
      /\ "failed" \notin Phases /\ "idle" \notin Phases /\ "summary" \notin Phases
  BY DEF Phases
<1>1. CASE Run
  <2>1. at \in Phases
    BY <1>1, RunIsAPhase
  <2>2. /\ UNCHANGED <<dest, failed, cur, moved, runs>>
        /\ at' \in Phases \cup {"move", "failed"}
    BY <1>1, RunType DEF place
  <2>3. cur \notin failed /\ dest[cur] = NoTree /\ moved = 0 /\ runs > 0
    BY <1>s, <2>1 DEF NoResults
  <2>4. QED BY <1>0, <1>s, <2>2, <2>3 DEF NoResults, Unmarked, HasReport
<1>2. CASE Start
  BY <1>2, <1>s DEF Start, NoResults, Unmarked, HasReport
<1>3. CASE Skip
  <2>1. at' \in {"check", "summary"}
    BY <1>3, ContinueType DEF Skip
  <2>2. QED BY <1>3, <1>s, <2>1 DEF Skip, NoResults, Unmarked, HasReport
<1>4. CASE CleanDest
  <2>1. dest' = [dest EXCEPT ![cur] = NoTree] /\ failed' = failed \ {cur}
        /\ at' = "clean" /\ at = "check" /\ UNCHANGED <<cur, moved, runs>>
    BY <1>4 DEF CleanDest
  <2>2. /\ dest'[cur] = NoTree
        /\ \A i \in Config : i # cur => dest'[i] = dest[i]
    BY <2>1 DEF TypeOK
  <2>3. QED BY <1>0, <1>s, <2>1, <2>2 DEF NoResults, Unmarked, HasReport
<1>5. CASE CleanTree
  <2>1. runs' > 0
    BY <1>5 DEF CleanTree, TypeOK
  <2>2. QED BY <1>5, <1>s, <2>1 DEF CleanTree, NoResults, Unmarked, HasReport
<1>6. CASE Move
  <2>1. at = "move" /\ at' = "move" /\ moved < Len(MoveOrder) /\ moved' = moved + 1
        /\ UNCHANGED <<failed, cur, runs>>
    BY <1>6 DEF Move
  <2>2. cur \notin failed /\ dest[cur].report = <<>> /\ runs > 0
    BY <2>1 DEF NoResults
  <2>3. moved' < Len(MoveOrder) => dest'[cur].report = <<>>
    <3>1. ASSUME moved' < Len(MoveOrder) PROVE dest'[cur].report = dest[cur].report
      <4>1. moved + 1 # NClasses + 3
        BY <2>1, <3>1, MoveFacts, ReportAssumption DEF TypeOK
      <4>2. QED BY <1>6, <4>1, MovePlace, TakeFacts
    <3>2. QED BY <2>2, <3>1
  <2>4. Unmarked'
    BY <1>6, <2>1, <2>2, MovePlace DEF Unmarked, HasReport
  <2>5. QED BY <1>s, <2>1, <2>2, <2>3, <2>4 DEF NoResults
<1>7. CASE Moved
  <2>1. at' \in {"check", "summary"} /\ moved' = 0
    BY <1>7, ContinueType DEF Moved
  <2>2. QED BY <1>7, <1>s, <2>1 DEF Moved, NoResults, Unmarked, HasReport
<1>8. CASE MarkFailed
  <2>1. at' \in {"check", "summary"} /\ at = "failed"
    BY <1>8, ContinueType DEF MarkFailed
  <2>2. dest[cur].report = <<>> /\ moved = 0
    BY <1>0, <1>s, <2>1 DEF NoResults
  <2>3. QED BY <1>8, <1>s, <2>1, <2>2 DEF MarkFailed, NoResults, Unmarked, HasReport
<1>9. CASE Summarise
  BY <1>9, <1>s DEF Summarise, NoResults, Unmarked, HasReport
<1>10. CASE RunFails
  BY <1>10, <1>s DEF RunFails, place, NoResults, Unmarked, HasReport, Phases
<1>11. CASE Kill
  BY <1>11, <1>s DEF Kill, NoResults, Unmarked, HasReport
<1>12. CASE MoveEntryFails
  <2>1. /\ at = "move" /\ at' = "move" /\ moved < Len(MoveOrder)
        /\ UNCHANGED <<dest, failed, cur, runs>>
    BY <1>12 DEF MoveEntryFails
  <2>2. QED BY <1>s, <2>1 DEF NoResults, Unmarked, HasReport
<1>13. CASE UNCHANGED vars
  BY <1>13 DEF vars, NoResults, Unmarked, HasReport
<1>14. QED
  BY <1>1, <1>2, <1>3, <1>4, <1>5, <1>6, <1>7, <1>8, <1>9, <1>10, <1>11, <1>12, <1>13
     DEF Next, Driver

(* The action property: what is done is never touched again.                *)
LEMMA FinishedStep ==
  ASSUME TypeOK, NoResults, [Next]_vars
  PROVE  \A i \in Config : HasReport(i) => dest'[i] = dest[i]
<1>1. CASE Run
  BY <1>1, RunType
<1>2. CASE CleanDest
  BY <1>2, DestEdit, NoTreeType DEF CleanDest
<1>3. CASE Move
  <2>1. ~HasReport(cur)
    BY <1>3 DEF Move, NoResults, HasReport
  <2>2. QED BY <1>3, <2>1, MovePlace
<1>4. CASE UNCHANGED dest
  BY <1>4
<1>5. QED
  BY <1>1, <1>2, <1>3, <1>4
     DEF Next, Driver, vars, Start, Skip, CleanTree, Moved, MarkFailed, Summarise,
         RunFails, MoveEntryFails, Kill
-----------------------------------------------------------------------------
(* What the steps of a run make of its directory d, in the environment the  *)
(* scripts are written for; r is the run and i its configuration.           *)
LEMMA EmptyIsInPool ==
  ASSUME NEW r, NEW i
  PROVE  InPool(NoTree, Task, r, i) /\ Unreported(NoTree)
<1>1. \A t \in Task : Of(NoTree, t) = NoSolve
  BY TaskFacts DEF Of, NoTree, NoClass
<1>2. \A t \in Task : Unlogged(NoTree, t) /\ NoTree.logs.finalize[t] = NoLine
  BY DEF Unlogged, NoTree, NoLogs, NoLines
<1>3. \A c \in Classes : NoModel(NoTree, c)
  BY DEF NoModel, NoTree, NoClass
<1>4. Unreported(NoTree)
  BY DEF Unreported, NoTree
<1>5. QED BY <1>1, <1>2, <1>3, <1>4 DEF InPool

LEMMA PreparedIsInPool ==
  ASSUME NEW d \in Directory, NEW left, NEW r, NEW i, NEW n, InPool(d, left, r, i)
  PROVE  LET e == [d EXCEPT !.class[0].depth = n]
         IN  InPool(e, left, r, i) /\ (Unreported(d) => Unreported(e))
<1> DEFINE e == [d EXCEPT !.class[0].depth = n]
<1>1. 0 \in Classes /\ d.class \in [Classes -> ClassDir]
  BY DirectoryParts, ReportAssumption DEF Classes
<1>2. e.class = [d.class EXCEPT ![0] = [d.class[0] EXCEPT !.depth = n]]
  BY DEF Directory
<1>3. \A c \in Classes : /\ e.class[c].ckpt = d.class[c].ckpt
                         /\ e.class[c].model = d.class[c].model
  BY <1>1, <1>2 DEF ClassDir
<1>4. e.logs = d.logs /\ e.metrics = d.metrics /\ e.report = d.report
  BY DEF Directory
<1>5. \A t \in Task : Of(e, t) = Of(d, t)
  BY <1>3, TaskFacts DEF Of
<1> HIDE DEF e
<1>6. InPool(e, left, r, i)
  BY <1>3, <1>4, <1>5 DEF InPool, Pooled, Own, LoggedOnce, Unlogged, NoModel
<1>7. QED BY <1>4, <1>6 DEF Unreported, e

LEMMA ForkedIsInPool ==
  ASSUME NEW d \in Directory, NEW r, NEW i, InPool(d, Task, r, i)
  PROVE  LET e == [d EXCEPT !.logs.worker = NoLogs.worker]
         IN  InPool(e, Task, r, i) /\ (Unreported(d) => Unreported(e))
<1> DEFINE e == [d EXCEPT !.logs.worker = NoLogs.worker]
<1>1. /\ e.class = d.class /\ e.metrics = d.metrics /\ e.report = d.report
      /\ e.logs.worker = NoLogs.worker /\ e.logs.finalize = d.logs.finalize
  BY DEF Directory, Logs
<1>2. \A t \in Task : Of(e, t) = Of(d, t) /\ Unlogged(e, t)
  BY <1>1 DEF Of, Unlogged, NoLogs, NoLines
<1> HIDE DEF e
<1>3. InPool(e, Task, r, i)
  BY <1>1, <1>2 DEF InPool, NoModel
<1>4. QED BY <1>1, <1>3 DEF Unreported, e

LEMMA SolvedParts ==
  ASSUME NEW d \in Directory, NEW t \in Task, NEW s \in Solves
  PROVE  LET e == [d EXCEPT !.class[t[1]].ckpt[t[2]] = s,
                            !.logs.worker[WorkerOf(t)][t] = Time(s)]
         IN  /\ \A u \in Task : Of(e, u) = IF u = t THEN s ELSE Of(d, u)
             /\ \A c \in Classes : e.class[c].model = d.class[c].model
             /\ \A w \in Worker, u \in Task : e.logs.worker[w][u] =
                  IF w = WorkerOf(t) /\ u = t THEN Time(s) ELSE d.logs.worker[w][u]
             /\ e.logs.finalize = d.logs.finalize
             /\ e.metrics = d.metrics /\ e.report = d.report
<1> DEFINE f == [d EXCEPT !.class[t[1]].ckpt[t[2]] = s]
           e == [f EXCEPT !.logs.worker[WorkerOf(t)][t] = Time(s)]
<1>0. /\ t[1] \in Classes /\ t[2] \in Member /\ WorkerOf(t) \in Worker
      /\ d.class \in [Classes -> ClassDir] /\ d.logs \in Logs
      /\ d.logs.worker \in [Worker -> Lines]
  BY TaskFacts, DirectoryParts
<1>1. /\ f.logs = d.logs /\ f.metrics = d.metrics /\ f.report = d.report
      /\ f.class = [d.class EXCEPT ![t[1]] = [d.class[t[1]] EXCEPT !.ckpt[t[2]] = s]]
  BY DEF Directory
<1>2. \A c \in Classes : f.class[c].model = d.class[c].model
  BY <1>0, <1>1 DEF ClassDir
<1>3. \A c \in Classes, j \in Member : f.class[c].ckpt[j] =
        IF c = t[1] /\ j = t[2] THEN s ELSE d.class[c].ckpt[j]
  BY <1>0, <1>1 DEF ClassDir
<1>4. \A u \in Task : Of(f, u) = IF u = t THEN s ELSE Of(d, u)
  <2>1. \A u \in Task : (u = t) <=> (u[1] = t[1] /\ u[2] = t[2])
    BY TaskFacts
  <2>2. QED BY <1>3, <2>1, TaskFacts DEF Of
<1>5. f \in Directory
  BY <1>0, SolveEdit
<1> HIDE DEF f
<1>6. /\ e.class = f.class /\ e.metrics = f.metrics /\ e.report = f.report
      /\ e.logs = [f.logs EXCEPT !.worker[WorkerOf(t)][t] = Time(s)]
  BY <1>5 DEF Directory
<1>7. /\ e.logs.finalize = d.logs.finalize
      /\ \A w \in Worker, u \in Task : e.logs.worker[w][u] =
           IF w = WorkerOf(t) /\ u = t THEN Time(s) ELSE d.logs.worker[w][u]
  BY <1>0, <1>1, <1>6 DEF Logs, Lines
<1>8. \A u \in Task : Of(e, u) = Of(f, u)
  BY <1>6 DEF Of
<1> HIDE DEF e
<1>9. QED BY <1>1, <1>2, <1>4, <1>6, <1>7, <1>8 DEF e, f

(* ... that of the solve s of task t by its worker.                          *)
Solved(d, t, s) == [d EXCEPT !.class[t[1]].ckpt[t[2]] = s,
                             !.logs.worker[WorkerOf(t)][t] = Time(s)]
LEMMA SolvedIsInPool ==
  ASSUME NEW d \in Directory, NEW left, NEW t \in Task, t \in left, NEW r, NEW i,
         InPool(d, left, r, i), NEW s \in Solves,
         s.run = r, s.by = WorkerOf(t), s.problem = Intended(i)
  PROVE  LET e == Solved(d, t, s)
         IN  InPool(e, left \ {t}, r, i) /\ (Unreported(d) => Unreported(e))
<1> DEFINE e == Solved(d, t, s)
<1>1. /\ \A u \in Task : Of(e, u) = IF u = t THEN s ELSE Of(d, u)
      /\ \A c \in Classes : e.class[c].model = d.class[c].model
      /\ \A w \in Worker, u \in Task : e.logs.worker[w][u] =
           IF w = WorkerOf(t) /\ u = t THEN Time(s) ELSE d.logs.worker[w][u]
      /\ e.logs.finalize = d.logs.finalize
      /\ e.metrics = d.metrics /\ e.report = d.report
  BY SolvedParts DEF Solved
<1> HIDE DEF e
<1>2. Pooled(e, t, r, i)
  <2>1. Unlogged(d, t)
    BY DEF InPool
  <2>2. LoggedOnce(e, t, r)
    BY <1>1, <2>1 DEF LoggedOnce, Unlogged, Time
  <2>3. QED BY <1>1, <2>2 DEF Pooled, Own
<1>3. ASSUME NEW u \in Task, u # t
      PROVE  IF u \in left \ {t} THEN Of(e, u) = NoSolve /\ Unlogged(e, u)
             ELSE Pooled(e, u, r, i)
  <2>1. IF u \in left THEN Of(d, u) = NoSolve /\ Unlogged(d, u) ELSE Pooled(d, u, r, i)
    BY DEF InPool
  <2>2. Of(e, u) = Of(d, u) /\ \A w \in Worker : e.logs.worker[w][u] = d.logs.worker[w][u]
    BY <1>1, <1>3
  <2>3. QED BY <1>3, <2>1, <2>2 DEF Pooled, Own, LoggedOnce, Unlogged
<1>4. \A u \in Task : e.logs.finalize[u] = NoLine
  BY <1>1 DEF InPool
<1>5. \A c \in Classes : NoModel(e, c)
  BY <1>1 DEF InPool, NoModel
<1>6. InPool(e, left \ {t}, r, i)
  BY <1>2, <1>3, <1>4, <1>5 DEF InPool
<1>7. QED BY <1>1, <1>6 DEF Unreported, e

LEMMA PooledIsToFinalize ==
  ASSUME NEW d \in Directory, NEW r, NEW i, InPool(d, {}, r, i)
  PROVE  LET e == [d EXCEPT !.logs.finalize = NoLines]
         IN  InFinalize(e, Task, r, i) /\ (Unreported(d) => Unreported(e))
<1> DEFINE e == [d EXCEPT !.logs.finalize = NoLines]
<1>1. /\ e.class = d.class /\ e.metrics = d.metrics /\ e.report = d.report
      /\ e.logs.worker = d.logs.worker /\ e.logs.finalize = NoLines
  BY DEF Directory, Logs
<1> HIDE DEF e
<1>2. ASSUME NEW t \in Task
      PROVE  Pooled(e, t, r, i) /\ e.logs.finalize[t] = NoLine
  <2>1. Pooled(d, t, r, i)
    BY DEF InPool
  <2>2. QED BY <1>1, <2>1 DEF Pooled, Own, Of, LoggedOnce, NoLines
<1>3. \A c \in Classes : NoModel(e, c)
  BY <1>1 DEF InPool, NoModel
<1>4. InFinalize(e, Task, r, i)
  BY <1>2, <1>3, TaskFacts DEF InFinalize
<1>5. QED BY <1>1, <1>4 DEF Unreported, e

(* Directory e is d after the finalize pass over class c, which solved the   *)
(* members in again once more.                                              *)
Refinished(d, e, c, again, r, i) ==
  /\ \A k \in Classes \ {c} : e.class[k] = d.class[k]
  /\ \A j \in again : /\ e.class[c].ckpt[j].run = r
                       /\ e.class[c].ckpt[j].by = Finalizer
                       /\ e.class[c].ckpt[j].problem = Intended(i)
  /\ \A j \in Member \ again : e.class[c].ckpt[j] = d.class[c].ckpt[j]
  /\ Modelled(e, c)
  /\ e.logs.worker = d.logs.worker
  /\ \A t \in Task : e.logs.finalize[t] =
       IF t[1] # c THEN d.logs.finalize[t]
       ELSE IF t[2] \in again THEN Time(e.class[c].ckpt[t[2]]) ELSE Resumed

LEMMA TrainedParts ==
  ASSUME NEW d \in Directory, NEW c \in Classes, NEW x \in ClassDir, NEW l \in Lines
  PROVE  LET e == [[d EXCEPT !.class[c] = x] EXCEPT !.logs.finalize = l]
         IN  /\ \A k \in Classes : e.class[k] = IF k = c THEN x ELSE d.class[k]
             /\ e.logs.worker = d.logs.worker /\ e.logs.finalize = l
             /\ e.metrics = d.metrics /\ e.report = d.report
<1>1. d.class \in [Classes -> ClassDir] /\ d.logs \in Logs
  BY DirectoryParts
<1>2. QED BY <1>1 DEF Directory, Logs

LEMMA ClassIsFinalized ==
  ASSUME NEW d \in Directory, NEW e \in Directory, NEW left \in SUBSET Task,
         NEW c \in Classes, NEW r, NEW i, InFinalize(d, left, r, i),
         <<c, Baseline>> \in left, NEW again \in SUBSET Member,
         Refinished(d, e, c, again, r, i)
  PROVE  InFinalize(e, {t \in left : t[1] # c}, r, i)
<1> DEFINE left2 == {t \in left : t[1] # c}
<1>1. \A t \in Task : LoggedOnce(e, t, r) <=> LoggedOnce(d, t, r)
  BY DEF LoggedOnce, Refinished
<1>2. ASSUME NEW t \in Task, t[1] # c
      PROVE  /\ Of(e, t) = Of(d, t) /\ e.logs.finalize[t] = d.logs.finalize[t]
             /\ t \in left2 <=> t \in left
  BY <1>2, TaskFacts DEF Of, Refinished
<1>3. ASSUME NEW t \in Task, t[1] = c
      PROVE  t \notin left2 /\ Finalized(e, t, r, i)
  <2>1. t = <<c, t[2]>> /\ t[2] \in Member
    BY <1>3, TaskFacts
  <2>2. t \in left
    BY <2>1 DEF InFinalize
  <2>3. Pooled(d, t, r, i)
    BY <2>2 DEF InFinalize
  <2>4. LoggedOnce(e, t, r)
    BY <1>1, <2>3 DEF Pooled
  <2>5. CASE t[2] \in again
    <3>1. Own(e, t, r, i) /\ Of(e, t).by = Finalizer
      BY <1>3, <2>5 DEF Own, Of, Refinished
    <3>2. e.logs.finalize[t] = Time(Of(e, t))
      BY <1>3, <2>5 DEF Of, Refinished
    <3>3. QED BY <1>3, <2>4, <3>1, <3>2 DEF Finalized
  <2>6. CASE t[2] \notin again
    <3>1. Of(e, t) = Of(d, t)
      BY <1>3, <2>1, <2>6 DEF Of, Refinished
    <3>2. e.logs.finalize[t] = Resumed
      BY <1>3, <2>6 DEF Refinished
    <3>3. QED BY <1>3, <2>3, <2>4, <3>1, <3>2 DEF Finalized, Pooled, Own
  <2>7. QED BY <2>5, <2>6
<1>4. ASSUME NEW t \in Task
      PROVE  IF t \in left2 THEN Pooled(e, t, r, i) /\ e.logs.finalize[t] = NoLine
             ELSE Finalized(e, t, r, i)
  <2>1. CASE t[1] = c
    BY <1>3, <2>1
  <2>2. CASE t[1] # c
    <3>1. IF t \in left THEN Pooled(d, t, r, i) /\ d.logs.finalize[t] = NoLine
          ELSE Finalized(d, t, r, i)
      BY DEF InFinalize
    <3>2. /\ Of(e, t) = Of(d, t) /\ e.logs.finalize[t] = d.logs.finalize[t]
          /\ t \in left2 <=> t \in left
      BY <1>2, <2>2
    <3> HIDE DEF left2
    <3>3. QED BY <1>1, <3>1, <3>2 DEF Pooled, Finalized, Own
  <2>3. QED BY <2>1, <2>2
<1>5. ASSUME NEW k \in Classes
      PROVE  /\ \A j \in Member : <<k, j>> \in left2 <=> <<k, Baseline>> \in left2
             /\ IF <<k, Baseline>> \in left2 THEN NoModel(e, k) ELSE Modelled(e, k)
  <2>1. CASE k = c
    BY <2>1 DEF Refinished
  <2>2. CASE k # c
    <3>1. \A j \in Member : <<k, j>> \in left2 <=> <<k, j>> \in left
      BY <2>2
    <3>2. e.class[k] = d.class[k]
      BY <2>2 DEF Refinished
    <3> HIDE DEF left2
    <3>3. QED BY <3>1, <3>2, TaskFacts DEF InFinalize, NoModel, Modelled
  <2>3. QED BY <2>1, <2>2
<1>6. QED BY <1>4, <1>5 DEF InFinalize

(* The report: a task is solved by one worker, or once more by the finalize *)
(* pass, and what it counts are the clients.                                *)
LEMMA WhoSolved ==
  ASSUME NEW d \in Directory, NEW t \in Task, NEW r \in Nat, r > 0, NEW i,
         Finalized(d, t, r, i)
  PROVE  TimeOf(d.logs, t) = Time(Of(d, t)) /\ NameOf(d.logs, t) = WorkerOf(t)
<1>1. WorkerOf(t) \in Worker
  BY TaskFacts
<1>2. \A w \in Worker : IsTime(d.logs.worker[w][t]) <=> w = WorkerOf(t)
  BY DEF Finalized, LoggedOnce, IsTime, NoLine
<1>3. Solvers(d.logs, t) = {WorkerOf(t)}
  BY <1>1, <1>2 DEF Solvers
<1>4. Max({WorkerOf(t)}) = WorkerOf(t)
  BY <1>1, Largest
<1>5. NameOf(d.logs, t) = WorkerOf(t)
  BY <1>3, <1>4 DEF NameOf
<1>6. d.logs.worker[WorkerOf(t)][t] = [run |-> r, by |-> WorkerOf(t)]
  BY <1>1 DEF Finalized, LoggedOnce
<1>7. TimeOf(d.logs, t) = Time(Of(d, t))
  <2>1. CASE Of(d, t).by = WorkerOf(t) /\ d.logs.finalize[t] = Resumed
    <3>1. ~IsTime(d.logs.finalize[t])
      BY <2>1 DEF IsTime, Resumed
    <3>2. TimeOf(d.logs, t) = [run |-> r, by |-> WorkerOf(t)]
      BY <1>3, <1>4, <1>6, <3>1 DEF TimeOf
    <3>3. QED BY <2>1, <3>2 DEF Finalized, Own, Time
  <2>2. CASE d.logs.finalize[t] = Time(Of(d, t))
    <3>1. IsTime(d.logs.finalize[t])
      BY <2>2 DEF IsTime, Time, Finalized, Own
    <3>2. QED BY <2>2, <3>1 DEF TimeOf
  <2>3. QED BY <2>1, <2>2 DEF Finalized
<1>8. QED BY <1>5, <1>7

LEMMA ReportIsOfTheRun ==
  ASSUME NEW d \in Directory, NEW r \in Nat, r > 0, NEW i, AllTrained(d, r, i), Unreported(d),
         NEW W, W = {t \in Task : d.class[t[1]].ckpt[t[2]] # NoSolve}
  PROVE  LET e == [d EXCEPT !.report = Append(@, Section(r, d.logs, W))]
         IN  Reported(e, r, i) /\ e.metrics = {}
<1> DEFINE s == Section(r, d.logs, W)
           e == [d EXCEPT !.report = Append(@, s)]
<1>1. e.class = d.class /\ e.metrics = d.metrics /\ e.report = Append(d.report, s)
  BY DEF Directory
<1>2. d.metrics = {} /\ d.report = <<>>
  BY DEF Unreported
<1>3. \A t \in Task : Own(d, t, r, i)
  BY DEF AllTrained, Finalized
<1>4. W = Task
  BY <1>3 DEF Own, Of, NoSolve
<1>5. s.uploads = Classes \X Client
  <2>1. s.uploads = {t \in Task : t[2] # Baseline}
    BY <1>4 DEF Section, Uploads
  <2>2. \A j \in Member : j # Baseline <=> j \in Client
    BY ReportAssumption DEF Member, Baseline, Client
  <2>3. \A t \in Task : t[2] # Baseline <=> t \in Classes \X Client
    BY <2>2, TaskFacts DEF Task
  <2>4. Classes \X Client \subseteq Task
    BY TaskFacts DEF Task
  <2>5. QED BY <2>1, <2>3, <2>4
<1>6. ASSUME NEW t \in Task
      PROVE  Of(d, t).by # Finalizer => s.time[t] = Time(Of(d, t)) /\ s.name[t] = Of(d, t).by
  <2>1. Finalized(d, t, r, i)
    BY DEF AllTrained
  <2>2. s.time[t] = Time(Of(d, t)) /\ s.name[t] = WorkerOf(t)
    BY <2>1, WhoSolved DEF Section
  <2>3. Of(d, t).by # Finalizer => Of(d, t).by = WorkerOf(t)
    BY <2>1 DEF Finalized
  <2>4. QED BY <2>2, <2>3
<1>7. s.run = r
  BY DEF Section
<1> HIDE DEF s
<1>8. Len(e.report) = 1 /\ e.report[1] = s
  BY <1>1, <1>2
<1> HIDE DEF e
<1>9. \A t \in Task : Own(e, t, r, i) /\ Of(e, t) = Of(d, t)
  BY <1>1, <1>3 DEF Own, Of
<1>10. \A c \in Classes : Modelled(e, c)
  BY <1>1 DEF AllTrained, Modelled
<1>11. Reported(e, r, i)
  BY <1>5, <1>6, <1>7, <1>8, <1>9, <1>10 DEF Reported
<1>12. QED BY <1>1, <1>2, <1>11 DEF e, s

(* A report stands for the class directories and the metrics beside it.     *)
LEMMA SameResults ==
  ASSUME NEW d, NEW e, NEW r, NEW i, Finished(d, r, i),
         \A c \in Classes : e.class[c] = d.class[c],
         e.metrics = d.metrics, e.report = d.report
  PROVE  Finished(e, r, i)
<1>1. \A t \in Task : Of(e, t) = Of(d, t)
  BY TaskFacts DEF Of
<1>2. \A c \in Classes : Modelled(e, c)
  BY DEF Finished, Reported, Modelled
<1>3. QED BY <1>1, <1>2 DEF Finished, Reported, Own

-----------------------------------------------------------------------------
(* The induction, in the environment the scripts are written for.           *)
LEMMA HereNext ==
  ASSUME TypeOK, cur' = cur, NEW d \in Directory,
         PutHere(d) \/ (Plain /\ PutThere(d))
  PROVE  Here' = d
<1>1. PythonRoot = ShellRoot \/ ~Plain
  BY PlainFacts DEF TypeOK
<1>2. tree' = Put(tree, ShellRoot, d)
  BY <1>1 DEF PutHere, PutThere
<1>3. tree'[ShellRoot][C.k] = d
  BY <1>2, PutFacts, RootFacts DEF TypeOK
<1>4. QED BY <1>3 DEF Here, C, ShellRoot

LEMMA PlainStays == [Next]_vars => env' = env /\ (Plain' <=> Plain)
<1> SUFFICES ASSUME [Next]_vars PROVE env' = env
  BY DEF Plain
<1>1. CASE Run
  BY <1>1 DEF Run, Prepare, PrepareRefuses, ForkChildren, ResumeTask, SolveTask,
              PoolDone, FinalizeClass, FinalizeDone, WriteReport, WriteMetrics, place
<1>2. CASE ~Run
  BY <1>2 DEF Next, Driver, vars, place, Start, Skip, CleanDest, CleanTree, Move, Moved,
              MarkFailed, Summarise, RunFails, MoveEntryFails, Kill
<1>3. QED BY <1>1, <1>2

LEMMA RunInvInit == Init => RunInv
BY DEF Init, RunInv

(* The phases of the run.                                                   *)
LEMMA RunKeeps ==
  ASSUME TypeOK, NoResults, Plain, RunInv, Run
  PROVE  RunInv'
<1>0. /\ Here \in Directory /\ There = Here /\ runs \in Nat /\ todo \subseteq Task
      /\ Problem(cur, env) = Intended(cur) /\ Resumable(NoSolve) = FALSE
  BY TreeFacts, PlainFacts DEF TypeOK, Resumable
<1>r. runs > 0 /\ moved = 0
  BY RunIsAPhase DEF NoResults, Phases
<1>u. UNCHANGED <<dest, cur, runs, moved, env>>
  BY RunType DEF place
<1>1. CASE Prepare
  <2> DEFINE d == [Here EXCEPT !.class[0].depth = C.depth]
  <2>1. d \in Directory
    BY <1>0, PrepareType
  <2>2. Here' = d
    <3>1. PutThere(d)
      BY <1>0, <1>1 DEF Prepare
    <3> HIDE DEF d
    <3>2. QED BY <1>u, <2>1, <3>1, HereNext
  <2>3. at = "prepare" /\ at' = "fork"
    BY <1>1 DEF Prepare
  <2>4. InPool(Here, Task, runs, cur) /\ Unreported(Here)
    BY <2>3 DEF RunInv
  <2>5. InPool(d, Task, runs, cur) /\ Unreported(d)
    BY <1>0, <2>4, PreparedIsInPool
  <2> HIDE DEF d
  <2>6. QED BY <1>u, <2>2, <2>3, <2>5 DEF RunInv
<1>2. CASE PrepareRefuses
  BY <1>2 DEF PrepareRefuses, RunInv
<1>3. CASE ForkChildren
  <2> DEFINE d == [Here EXCEPT !.logs.worker = NoLogs.worker]
  <2>1. d \in Directory
    BY <1>0, LogEdits, NoTreeType
  <2>2. Here' = d
    <3>1. PutThere(d)
      BY <1>0, <1>3 DEF ForkChildren
    <3> HIDE DEF d
    <3>2. QED BY <1>u, <2>1, <3>1, HereNext
  <2>3. at = "fork" /\ at' = "pool" /\ todo' = Task
    BY <1>3 DEF ForkChildren
  <2>4. InPool(Here, Task, runs, cur) /\ Unreported(Here)
    BY <2>3 DEF RunInv
  <2>5. InPool(d, Task, runs, cur) /\ Unreported(d)
    BY <1>0, <2>4, ForkedIsInPool
  <2> HIDE DEF d
  <2>6. QED BY <1>u, <2>2, <2>3, <2>5 DEF RunInv
<1>4. ASSUME NEW t \in Task, ResumeTask(t)
      PROVE  FALSE
  <2>1. at = "pool" /\ t \in todo /\ Resumable(Of(Here, t))
    BY <1>0, <1>4 DEF ResumeTask, NextOfShard, Of
  <2>2. Of(Here, t) = NoSolve
    BY <2>1 DEF RunInv, InPool
  <2>3. QED BY <1>0, <2>1, <2>2
<1>5. ASSUME NEW t \in Task, SolveTask(t)
      PROVE  RunInv'
  <2>1. PICK finite \in BOOLEAN : PutThere(Solved(Here, t, Solve(WorkerOf(t), finite)))
    BY <1>0, <1>5 DEF SolveTask, Solved
  <2> DEFINE s == Solve(WorkerOf(t), finite)
  <2>2. /\ s \in Solves /\ s.run = runs /\ s.by = WorkerOf(t)
        /\ s.problem = Intended(cur)
    <3>1. s \in Solves
      BY SolveType, TaskFacts
    <3>2. QED BY <1>0, <3>1 DEF Solve
  <2>3. /\ at = "pool" /\ at' = "pool" /\ t \in todo /\ todo' = todo \ {t}
    BY <1>5 DEF SolveTask, NextOfShard
  <2>4. InPool(Here, todo, runs, cur) /\ Unreported(Here)
    BY <2>3 DEF RunInv
  <2> HIDE DEF s
  <2>5. Solved(Here, t, s) \in Directory
    BY <1>0, <2>2, SolvedType DEF Solved
  <2>6. InPool(Solved(Here, t, s), todo \ {t}, runs, cur) /\ Unreported(Solved(Here, t, s))
    BY <1>0, <2>2, <2>3, <2>4, SolvedIsInPool
  <2>7. Here' = Solved(Here, t, s)
    <3>1. PutThere(Solved(Here, t, s))
      BY <2>1 DEF s
    <3>2. QED BY <1>u, <2>5, <3>1, HereNext
  <2>8. QED BY <1>u, <2>3, <2>6, <2>7 DEF RunInv
<1>6. CASE PoolDone
  <2> DEFINE d == [Here EXCEPT !.logs.finalize = NoLines]
  <2>1. d \in Directory
    BY <1>0, LogEdits, NoTreeType
  <2>2. Here' = d
    <3>1. PutHere(d)
      BY <1>6 DEF PoolDone
    <3> HIDE DEF d
    <3>2. QED BY <1>u, <2>1, <3>1, HereNext
  <2>3. at = "pool" /\ todo = {} /\ at' = "finalize" /\ todo' = Task
    BY <1>6 DEF PoolDone
  <2>4. InPool(Here, {}, runs, cur) /\ Unreported(Here)
    BY <2>3 DEF RunInv
  <2>5. InFinalize(d, Task, runs, cur) /\ Unreported(d)
    BY <1>0, <2>4, PooledIsToFinalize
  <2> HIDE DEF d
  <2>6. QED BY <1>u, <2>2, <2>3, <2>5 DEF RunInv
<1>7. ASSUME NEW c \in Classes, FinalizeClass(c)
      PROVE  RunInv'
  <2>1. /\ at = "finalize" /\ at' = "finalize" /\ <<c, Baseline>> \in todo
        /\ todo' = {t \in todo : t[1] # c}
    BY <1>7 DEF FinalizeClass
  <2>2. InFinalize(Here, todo, runs, cur) /\ Unreported(Here)
    BY <2>1 DEF RunInv
  <2>3. PICK finite \in BOOLEAN :
          LET ckpt == Retried(c, finite)
          IN  tree' = Put(Trained(c, ckpt), ShellRoot,
                        [Trained(c, ckpt)[ShellRoot][C.k] EXCEPT
                           !.logs.finalize = FinalLines(c, ckpt)])
    BY <1>7 DEF FinalizeClass
  <2> DEFINE ckpt == Retried(c, finite)
             x == [depth |-> C.depth, ckpt |-> ckpt, model |-> {ckpt[j] : j \in Client}]
             l == FinalLines(c, ckpt)
             e == [[Here EXCEPT !.class[c] = x] EXCEPT !.logs.finalize = l]
  <2>4. /\ ckpt \in [Member -> Solves] /\ l \in Lines
        /\ [Here EXCEPT !.class[c] = x] \in Directory
        /\ Trained(c, ckpt) \in [Roots -> [Ks -> Directory]]
    BY <1>0, TrainedType
  <2>5. Trained(c, ckpt)[ShellRoot][C.k] = [Here EXCEPT !.class[c] = x]
    <3>1. /\ PythonRoot = ShellRoot /\ ShellRoot \in Roots /\ cur \in Config
          /\ tree \in [Roots -> [Ks -> Directory]]
      BY PlainFacts, RootFacts DEF TypeOK
    <3>2. Trained(c, ckpt) = Put(tree, ShellRoot, [Here EXCEPT !.class[c] = x])
      BY <1>0, <3>1 DEF Trained
    <3> DEFINE y == [Here EXCEPT !.class[c] = x]
    <3> HIDE DEF y, x, ckpt
    <3>3. y \in Directory /\ Trained(c, ckpt) = Put(tree, ShellRoot, y)
      BY <2>4, <3>2 DEF y
    <3>4. Trained(c, ckpt)[ShellRoot][C.k] = y
      BY <3>1, <3>3, PutFacts
    <3>5. QED BY <3>4 DEF y
  <2>6. e \in Directory
    <3> DEFINE y == [Here EXCEPT !.class[c] = x]
    <3> HIDE DEF y, x, ckpt, l
    <3>1. [y EXCEPT !.logs.finalize = l] \in Directory
      BY <2>4, LogEdits DEF y
    <3>2. QED BY <3>1 DEF y
  <2>7. Here' = e
    <3>1. tree' = Put(Trained(c, ckpt), ShellRoot, e)
      BY <2>3, <2>5
    <3>2. ShellRoot \in Roots /\ cur \in Config
      BY RootFacts DEF TypeOK
    <3> HIDE DEF e, ckpt
    <3>3. tree'[ShellRoot][C.k] = e
      BY <2>4, <2>6, <3>1, <3>2, PutFacts
    <3>4. QED BY <1>u, <3>3 DEF Here, C, ShellRoot
  <2>8. x \in ClassDir
    BY <2>4, TaskFacts, TreeFacts DEF ClassDir
  <2>9. /\ \A k \in Classes : e.class[k] = IF k = c THEN x ELSE Here.class[k]
        /\ e.logs.worker = Here.logs.worker /\ e.logs.finalize = l
        /\ e.metrics = Here.metrics /\ e.report = Here.report
    <3> HIDE DEF x, l
    <3>1. QED BY <1>0, <2>4, <2>8, TrainedParts
  <2>10. \A j \in Member : /\ j \in Again(c) => ckpt[j] = Solve(Finalizer, finite)
                           /\ j \notin Again(c) => ckpt[j] = Here.class[c].ckpt[j]
    BY <1>0 DEF Retried
  <2>11. \A t \in Task : l[t] =
           IF t[1] # c THEN Here.logs.finalize[t]
           ELSE IF t[2] \in Again(c) THEN Time(ckpt[t[2]]) ELSE Resumed
    BY DEF FinalLines
  <2>12. x.ckpt = ckpt /\ x.model = {ckpt[j] : j \in Client}
    OBVIOUS
  <2>13. /\ Solve(Finalizer, finite).run = runs /\ Solve(Finalizer, finite).by = Finalizer
         /\ Solve(Finalizer, finite).problem = Intended(cur)
    BY <1>0 DEF Solve
  <2>14. Again(c) \in SUBSET Member
    BY DEF Again
  <2> HIDE DEF e, x, l, ckpt
  <2>15. InFinalize(e, {t \in todo : t[1] # c}, runs, cur)
    <3>1. Modelled(e, c)
      BY <2>9, <2>12 DEF Modelled
    <3>2. \A k \in Classes \ {c} : e.class[k] = Here.class[k]
      BY <2>9
    <3>3. e.class[c].ckpt = ckpt
      BY <2>9, <2>12
    <3>4. \A j \in Again(c) : /\ e.class[c].ckpt[j].run = runs
                              /\ e.class[c].ckpt[j].by = Finalizer
                              /\ e.class[c].ckpt[j].problem = Intended(cur)
      BY <2>10, <2>13, <2>14, <3>3
    <3>5. \A j \in Member \ Again(c) : e.class[c].ckpt[j] = Here.class[c].ckpt[j]
      BY <2>10, <3>3
    <3>6. \A t \in Task : e.logs.finalize[t] =
            IF t[1] # c THEN Here.logs.finalize[t]
            ELSE IF t[2] \in Again(c) THEN Time(e.class[c].ckpt[t[2]]) ELSE Resumed
      BY <2>9, <2>11, <3>3
    <3>7. Refinished(Here, e, c, Again(c), runs, cur)
      BY <2>9, <3>1, <3>2, <3>4, <3>5, <3>6 DEF Refinished
    <3>8. QED BY <1>0, <2>1, <2>2, <2>6, <2>14, <3>7, ClassIsFinalized
  <2>16. Unreported(e)
    BY <2>2, <2>9 DEF Unreported
  <2>17. QED BY <1>u, <2>1, <2>7, <2>15, <2>16 DEF RunInv
<1>8. CASE FinalizeDone
  <2>1. at = "finalize" /\ todo = {} /\ at' = "report" /\ UNCHANGED tree
    BY <1>8 DEF FinalizeDone
  <2>2. InFinalize(Here, {}, runs, cur) /\ Unreported(Here)
    BY <2>1 DEF RunInv
  <2>3. AllTrained(Here, runs, cur)
    BY <2>2 DEF InFinalize, AllTrained
  <2>4. Here' = Here
    BY <1>u, <2>1 DEF Here, C, ShellRoot
  <2>5. QED BY <1>u, <2>1, <2>2, <2>3, <2>4 DEF RunInv
<1>9. CASE WriteReport
  <2> DEFINE W == {t \in Task : Here.class[t[1]].ckpt[t[2]] # NoSolve}
             s == Section(runs, Here.logs, W)
             d == [Here EXCEPT !.report = Append(@, s)]
  <2>1. at = "report" /\ at' = "metrics"
    BY <1>9 DEF WriteReport
  <2>2. AllTrained(Here, runs, cur) /\ Unreported(Here)
    BY <2>1 DEF RunInv
  <2>3. Reported(d, runs, cur) /\ d.metrics = {}
    <3> HIDE DEF s
    <3>0. W = {t \in Task : Here.class[t[1]].ckpt[t[2]] # NoSolve}
      OBVIOUS
    <3> HIDE DEF W
    <3>1. QED BY <1>0, <1>r, <2>2, <3>0, ReportIsOfTheRun DEF s
  <2>4. d \in Directory
    <3>1. s \in Sections
      <4>1. W \in SUBSET Task /\ Here.logs \in Logs
        BY <1>0, DirectoryParts
      <4> HIDE DEF W
      <4>2. QED BY <1>0, <4>1, SectionType
    <3> HIDE DEF s
    <3>2. Append(Here.report, s) \in Seq(Sections)
      BY <1>0, <3>1, DirectoryParts
    <3>3. QED BY <1>0, <3>2 DEF Directory
  <2>5. PutHere(d)
    BY <1>9 DEF WriteReport
  <2> HIDE DEF d
  <2>6. Here' = d
    BY <1>u, <2>4, <2>5, HereNext
  <2>7. QED BY <1>u, <2>1, <2>3, <2>6 DEF RunInv
<1>10. CASE WriteMetrics
  <2> DEFINE d == [Here EXCEPT !.metrics = @ \cup {runs}]
  <2>1. at = "metrics" /\ at' = "move" /\ PutHere(d)
    BY <1>10 DEF WriteMetrics
  <2>2. Reported(Here, runs, cur) /\ Here.metrics = {}
    BY <2>1 DEF RunInv
  <2>3. d.class = Here.class /\ d.report = Here.report /\ d.metrics = {runs}
    BY <1>0, <2>2 DEF Directory
  <2>4. d \in Directory
    BY <1>0 DEF Directory
  <2> HIDE DEF d
  <2>5. Here' = d
    BY <1>u, <2>1, <2>4, HereNext
  <2>6. Finished(d, runs, cur)
    <3>1. /\ \A t \in Task : Of(d, t) = Of(Here, t)
          /\ \A c \in Classes : Modelled(d, c) <=> Modelled(Here, c)
      BY <2>3 DEF Of, Modelled
    <3>2. Reported(d, runs, cur)
      BY <2>2, <2>3, <3>1 DEF Reported, Own
    <3>3. QED BY <2>3, <3>2 DEF Finished
  <2>7. /\ \A c \in Classes : Together'.class[c] = d.class[c]
        /\ Together'.metrics = d.metrics /\ Together'.report = d.report
    BY <1>r, <1>u, <2>5, ReportAssumption DEF Together, Classes
  <2>8. Finished(Together', runs, cur)
    BY <2>6, <2>7, SameResults
  <2>9. QED BY <1>u, <2>1, <2>8 DEF RunInv
<1>11. QED
  BY <1>1, <1>2, <1>3, <1>4, <1>5, <1>6, <1>7, <1>8, <1>9, <1>10 DEF Run

(* A move takes entry after entry from one half of Together to the other.   *)
LEMMA MovedTogether ==
  ASSUME TypeOK, Move
  PROVE  /\ \A c \in Classes : Together'.class[c] = Together.class[c]
         /\ Together'.metrics = Together.metrics
         /\ Together'.report = Together.report
<1> DEFINE j == moved + 1
           x == Take(dest[cur], MoveOrder[j], Here)
           y == Take(Here, MoveOrder[j], NoTree)
<1>0. /\ j \in 1 .. NClasses + 3 /\ Here \in Directory /\ dest[cur] \in Directory
      /\ dest'[cur] = x /\ NoTree \in Directory
  BY MovePlace, NoTreeType
<1>1. y \in Directory
  BY <1>0, TakeType
<1>2. Here' = y
  <2>1. PutHere(y) /\ cur' = cur
    BY DEF Move
  <2> HIDE DEF y
  <2>2. QED BY <1>1, <2>1, HereNext
<1>3. /\ \A c \in Classes : x.class[c] = IF j = c + 1 THEN Here.class[c] ELSE dest[cur].class[c]
      /\ x.metrics = IF j = NClasses + 2 THEN Here.metrics ELSE dest[cur].metrics
      /\ x.report = IF j = NClasses + 3 THEN Here.report ELSE dest[cur].report
  BY <1>0, TakeFacts
<1>4. /\ \A c \in Classes : y.class[c] = IF j = c + 1 THEN NoTree.class[c] ELSE Here.class[c]
      /\ y.metrics = IF j = NClasses + 2 THEN NoTree.metrics ELSE Here.metrics
      /\ y.report = IF j = NClasses + 3 THEN NoTree.report ELSE Here.report
  BY <1>0, TakeFacts
<1> HIDE DEF x, y
<1>5. moved' = j /\ j = moved + 1 /\ moved \in Nat /\ NClasses \in Nat /\ cur' = cur
  BY MoveFacts, ReportAssumption DEF Move, TypeOK
<1> HIDE DEF j
<1>6. ASSUME NEW c \in Classes
      PROVE  Together'.class[c] = Together.class[c]
  <2>1. c \in Nat
    BY DEF Classes
  <2>2. Together.class[c] = IF c < moved THEN dest[cur].class[c] ELSE Here.class[c]
    BY DEF Together
  <2>3. Together'.class[c] = IF c < moved' THEN dest'[cur].class[c] ELSE Here'.class[c]
    BY <1>5 DEF Together
  <2>4. QED BY <1>0, <1>2, <1>3, <1>4, <1>5, <2>1, <2>2, <2>3
<1>7. Together'.metrics = Together.metrics
  <2>1. Together.metrics = IF NClasses + 1 < moved THEN dest[cur].metrics ELSE Here.metrics
    BY DEF Together
  <2>2. Together'.metrics = IF NClasses + 1 < moved' THEN dest'[cur].metrics ELSE Here'.metrics
    BY <1>5 DEF Together
  <2>3. QED BY <1>0, <1>2, <1>3, <1>4, <1>5, <2>1, <2>2
<1>8. Together'.report = Together.report
  <2>1. Together.report = IF NClasses + 2 < moved THEN dest[cur].report ELSE Here.report
    BY DEF Together
  <2>2. Together'.report = IF NClasses + 2 < moved' THEN dest'[cur].report ELSE Here'.report
    BY <1>5 DEF Together
  <2>3. QED BY <1>0, <1>2, <1>3, <1>4, <1>5, <2>1, <2>2
<1>9. QED BY <1>6, <1>7, <1>8

LEMMA RunInvNext ==
  ASSUME TypeOK, NoResults, Plain, RunInv, [Next]_vars
  PROVE  RunInv'
<1>1. CASE Run
  BY <1>1, RunKeeps
<1>2. CASE at' \notin Phases \cup {"move"}
  BY <1>2 DEF RunInv, Phases
<1>3. CASE CleanTree
  <2>1. PutHere(NoTree) /\ UNCHANGED <<cur, dest>> /\ at' = "prepare"
    BY <1>3 DEF CleanTree
  <2>2. Here' = NoTree
    BY <2>1, HereNext, NoTreeType
  <2>3. QED BY <2>1, <2>2, EmptyIsInPool DEF RunInv
<1>4. CASE Move
  <2>1. at = "move" /\ at' = "move" /\ UNCHANGED <<cur, runs>>
    BY <1>4 DEF Move
  <2>2. cur \notin torn => Finished(Together, runs, cur)
    BY <2>1 DEF RunInv
  <2>3. cur \notin torn => Finished(Together', runs, cur)
    BY <1>4, <2>2, MovedTogether, SameResults
  <2>4. torn' = torn
    BY <1>4 DEF Move
  <2>5. QED BY <2>1, <2>3, <2>4 DEF RunInv
<1>5. CASE UNCHANGED vars
  <2>1. UNCHANGED <<at, cur, moved, torn, runs, todo, dest, tree>>
    BY <1>5 DEF vars
  <2>2. Here' = Here
    BY <2>1 DEF Here, C, ShellRoot
  <2>3. Together' = Together
    BY <2>1, <2>2 DEF Together
  <2>4. QED BY <2>1, <2>2, <2>3 DEF RunInv
<1>6. CASE Skip \/ Moved \/ MarkFailed
  <2>1. at' \in {"check", "summary"}
    BY <1>6, ContinueType DEF Skip, Moved, MarkFailed
  <2>2. QED BY <1>2, <2>1 DEF Phases
<1>7. CASE Start \/ CleanDest \/ Summarise \/ RunFails \/ Kill
  <2>1. at' \in {"check", "clean", "idle", "failed"}
    BY <1>7 DEF Start, CleanDest, Summarise, RunFails, Kill
  <2>2. QED BY <1>2, <2>1 DEF Phases
<1>8. CASE MoveEntryFails
  <2>1. at = "move" /\ at' = "move" /\ cur' = cur /\ cur \in torn'
    BY <1>8 DEF MoveEntryFails
  <2>2. QED BY <2>1 DEF RunInv
<1>9. QED
  BY <1>1, <1>3, <1>4, <1>5, <1>6, <1>7, <1>8 DEF Next, Driver

(* Global models of the current run are made of its own checkpoints.        *)
OwnModels(d, i) == \A c \in Classes : \A s \in d.class[c].model : s.problem = Intended(i)

LEMMA OwnWhileTraining ==
  ASSUME TypeOK, RunInv, at \in {"finalize", "report", "metrics"}
  PROVE  OwnModels(Here, cur)
<1> SUFFICES ASSUME NEW c \in Classes, NEW s \in Here.class[c].model
             PROVE  s.problem = Intended(cur)
  BY DEF OwnModels
<1>1. /\ Modelled(Here, c)
      /\ \A j \in Member : Own(Here, <<c, j>>, runs, cur)
  <2>1. CASE at = "finalize"
    <3>1. InFinalize(Here, todo, runs, cur)
      BY <2>1 DEF RunInv
    <3>2. Modelled(Here, c) /\ <<c, Baseline>> \notin todo
      BY <3>1 DEF InFinalize, NoModel
    <3>3. \A j \in Member : Finalized(Here, <<c, j>>, runs, cur)
      BY <3>1, <3>2, TaskFacts DEF InFinalize
    <3>4. QED BY <3>2, <3>3 DEF Finalized
  <2>2. CASE at = "report"
    BY <2>2, TaskFacts DEF RunInv, AllTrained, Finalized
  <2>3. CASE at = "metrics"
    BY <2>3, TaskFacts DEF RunInv, Reported
  <2>4. QED BY <2>1, <2>2, <2>3
<1>2. PICK j \in Client : s = Here.class[c].ckpt[j]
  BY <1>1 DEF Modelled
<1>3. Of(Here, <<c, j>>) = s
  BY <1>2 DEF Of
<1>4. QED BY <1>1, <1>3, TaskFacts DEF Own

LEMMA OwnHere ==
  ASSUME OwnProblem, There = Here, at = "move"
  PROVE  OwnModels(Here, cur)
<1>1. <<cur, Here>> \in Models
  BY DEF Models
<1>2. \A c \in Classes : \A s \in <<cur, Here>>[2].class[c].model :
        s.problem = Intended(<<cur, Here>>[1])
  BY <1>1 DEF OwnProblem
<1>3. QED BY <1>2 DEF OwnModels

LEMMA OwnWhileMoving ==
  ASSUME TypeOK, Plain, RunInv, OwnProblem, [Next]_vars, at' = "move"
  PROVE  OwnModels(Here', cur')
<1>0. Here \in Directory /\ There = Here
  BY TreeFacts, PlainFacts DEF TypeOK
<1>1. ASSUME at = "move" PROVE OwnModels(Here, cur)
  BY <1>0, <1>1, OwnHere
<1>2. CASE WriteMetrics
  <2> DEFINE d == [Here EXCEPT !.metrics = @ \cup {runs}]
  <2>1. at = "metrics" /\ PutHere(d) /\ cur' = cur
    BY <1>2 DEF WriteMetrics, place
  <2>2. d.class = Here.class
    BY <1>0 DEF Directory
  <2>3. d \in Directory
    <3>1. Here.metrics \cup {runs} \in SUBSET Nat
      BY <1>0, DirectoryParts DEF TypeOK
    <3>2. QED BY <1>0, <3>1 DEF Directory
  <2> HIDE DEF d
  <2>4. Here' = d
    BY <2>1, <2>3, HereNext
  <2>5. OwnModels(Here, cur)
    BY <2>1, OwnWhileTraining
  <2>6. QED BY <2>1, <2>2, <2>4, <2>5 DEF OwnModels
<1>3. CASE Move
  <2> DEFINE y == Take(Here, MoveOrder[moved + 1], NoTree)
  <2>1. PutHere(y) /\ cur' = cur /\ at = "move"
    BY <1>3 DEF Move
  <2>2. moved + 1 \in 1 .. NClasses + 3
    BY <1>3, MovePlace
  <2>3. y \in Directory
    BY <1>0, <2>2, TakeType, NoTreeType
  <2>0. \A c \in Classes : y.class[c] = IF moved + 1 = c + 1 THEN NoTree.class[c]
                                      ELSE Here.class[c]
    BY <1>0, <2>2, TakeFacts, NoTreeType
  <2> HIDE DEF y
  <2>4. Here' = y
    BY <2>1, <2>3, HereNext
  <2>5. \A c \in Classes : NoTree.class[c].model = {}
    BY DEF NoTree, NoClass
  <2>6. \A c \in Classes : y.class[c].model \subseteq Here.class[c].model
    BY <2>0, <2>5
  <2>7. QED BY <1>1, <2>1, <2>4, <2>6 DEF OwnModels
<1>4. CASE MoveEntryFails \/ UNCHANGED vars
  <2>1. at = "move" /\ cur' = cur /\ Here' = Here
    BY <1>4 DEF MoveEntryFails, vars, Here, C, ShellRoot
  <2>2. QED BY <1>1, <2>1
<1>5. CASE Skip \/ Moved \/ MarkFailed
  BY <1>5, ContinueType DEF Skip, Moved, MarkFailed
<1>6. QED
  BY <1>2, <1>3, <1>4, <1>5
     DEF Next, Driver, Run, Start, CleanDest, CleanTree, Summarise, RunFails, Kill,
         Prepare, PrepareRefuses, ForkChildren, ResumeTask, SolveTask, PoolDone,
         FinalizeClass, FinalizeDone, WriteReport

(* A directory of results keeps what it has; only the current one changes.  *)
LEMMA RunsGrow ==
  ASSUME TypeOK, [Next]_vars
  PROVE  runs' \in Nat /\ runs <= runs'
<1>1. CASE Run
  BY <1>1, RunType DEF place, TypeOK
<1>2. CASE ~Run
  BY <1>2 DEF TypeOK, Next, Driver, vars, place, Start, Skip, CleanDest, CleanTree, Move,
              Moved, MarkFailed, Summarise, RunFails, MoveEntryFails, Kill
<1>3. QED BY <1>1, <1>2

LEMMA ResultsInvNext ==
  ASSUME TypeOK, NoResults, Plain, RunInv, ResultsInv, OwnProblem, [Next]_vars
  PROVE  ResultsInv'
<1>0. runs \in Nat /\ runs' \in Nat /\ runs <= runs'
  BY RunsGrow DEF TypeOK
<1>1. ASSUME NEW i \in Config, dest'[i] = dest[i], i \notin torn' => i \notin torn
      PROVE  /\ HasReport(i)' /\ i \notin torn' =>
                  \E r \in 1 .. runs' : Finished(dest'[i], r, i)
             /\ OwnModels(dest'[i], i)
  <2>1. HasReport(i)' <=> HasReport(i)
    BY <1>1 DEF HasReport
  <2>2. HasReport(i) /\ i \notin torn => \E r \in 1 .. runs : Finished(dest[i], r, i)
    BY DEF ResultsInv
  <2>3. OwnModels(dest[i], i)
    BY DEF ResultsInv, OwnModels
  <2>4. QED BY <1>0, <1>1, <2>1, <2>2, <2>3
<1>2. SUFFICES ASSUME NEW i \in Config
               PROVE  /\ HasReport(i)' /\ i \notin torn' =>
                           \E r \in 1 .. runs' : Finished(dest'[i], r, i)
                      /\ OwnModels(dest'[i], i)
  BY DEF ResultsInv, OwnModels
<1>3. CASE CleanDest
  <2>1. i = cur => dest'[i] = NoTree
    BY <1>3, DestEdit, NoTreeType DEF CleanDest
  <2>2. i # cur => dest'[i] = dest[i] /\ (i \notin torn' => i \notin torn)
    BY <1>3, DestEdit, NoTreeType DEF CleanDest
  <2>3. NoTree.report = <<>> /\ \A c \in Classes : NoTree.class[c].model = {}
    BY DEF NoTree, NoClass
  <2>4. QED BY <1>1, <2>1, <2>2, <2>3 DEF HasReport, OwnModels
<1>4. CASE Move
  <2>0. torn' = torn
    BY <1>4 DEF Move
  <2>1. i # cur => dest'[i] = dest[i]
    BY <1>4, MovePlace
  <2>2. CASE i = cur
    <3>1. at = "move" /\ at' = "move" /\ moved' = moved + 1 /\ UNCHANGED <<cur, runs>>
      BY <1>4 DEF Move
    <3>2. runs \in 1 .. runs
      BY <1>0, <3>1 DEF NoResults
    <3>3. /\ moved + 1 \in 1 .. NClasses + 3 /\ Here \in Directory
          /\ dest[cur] \in Directory
          /\ dest'[cur] = Take(dest[cur], MoveOrder[moved + 1], Here)
      BY <1>4, MovePlace
    <3>4. /\ \A c \in Classes : dest'[cur].class[c] =
               IF moved + 1 = c + 1 THEN Here.class[c] ELSE dest[cur].class[c]
          /\ dest'[cur].report =
               IF moved + 1 = NClasses + 3 THEN Here.report ELSE dest[cur].report
      BY <3>3, TakeFacts
    <3>5. OwnModels(dest'[cur], cur)
      <4>1. OwnModels(dest[cur], cur)
        BY <2>2 DEF ResultsInv, OwnModels
      <4>2. OwnModels(Here, cur)
        BY <3>1, PlainFacts, OwnHere DEF TypeOK
      <4>3. QED BY <3>4, <4>1, <4>2 DEF OwnModels
    <3>6. ASSUME HasReport(i)', i \notin torn' PROVE Finished(dest'[cur], runs, cur)
      <4>1. dest[cur].report = <<>>
        BY <1>4, <3>1 DEF Move, NoResults
      <4>2. dest'[cur].report # <<>>
        BY <2>2, <3>1, <3>6 DEF HasReport
      <4>3. moved' = NClasses + 3
        BY <3>1, <3>4, <4>1, <4>2
      <4>4. Finished(Together', runs, cur)
        BY <2>2, <3>1, <3>6, RunInvNext DEF RunInv
      <4>5. /\ \A c \in Classes : c < NClasses + 3
            /\ NClasses + 1 < NClasses + 3 /\ NClasses + 2 < NClasses + 3
        BY ReportAssumption DEF Classes
      <4>6. /\ \A c \in Classes : Together'.class[c] = dest'[cur].class[c]
            /\ Together'.metrics = dest'[cur].metrics
            /\ Together'.report = dest'[cur].report
        BY <3>1, <4>3, <4>5 DEF Together
      <4>7. QED BY <4>4, <4>6, SameResults
    <3>7. QED BY <2>2, <3>1, <3>2, <3>5, <3>6
  <2>3. QED BY <1>1, <2>0, <2>1, <2>2
<1>5. CASE Run
  <2>1. dest' = dest /\ torn' = torn
    BY <1>5, RunType DEF place
  <2>2. QED BY <1>1, <2>1
<1>6. CASE UNCHANGED <<dest, torn>>
  BY <1>1, <1>6
<1>7. CASE MoveEntryFails
  BY <1>1, <1>7 DEF MoveEntryFails
<1>8. QED
  BY <1>3, <1>4, <1>5, <1>6, <1>7
     DEF Next, Driver, vars, place, Start, Skip, CleanTree, Moved, MarkFailed, Summarise,
         RunFails, Kill

LEMMA OwnFromParts ==
  ASSUME ResultsInv, There = Here,
         at \in {"finalize", "report", "metrics", "move"} => OwnModels(Here, cur)
  PROVE  OwnProblem
<1> SUFFICES ASSUME NEW m \in Models, NEW c \in Classes, NEW s \in m[2].class[c].model
             PROVE  s.problem = Intended(m[1])
  BY DEF OwnProblem
<1>1. CASE \E i \in Config : m = <<i, dest[i]>>
  BY <1>1 DEF ResultsInv
<1>2. CASE /\ at \in {"finalize", "report", "metrics", "move"}
           /\ m = <<cur, There>>
  BY <1>2 DEF OwnModels
<1>3. QED BY <1>1, <1>2 DEF Models
LEMMA OwnFromPartsNext ==
  ( /\ ResultsInv /\ There = Here
    /\ at \in {"finalize", "report", "metrics", "move"} => OwnModels(Here, cur)
    => OwnProblem )'
BY OwnFromParts, PTL
LEMMA OwnWhileTrainingNext ==
  (TypeOK /\ RunInv /\ at \in {"finalize", "report", "metrics"} => OwnModels(Here, cur))'
BY OwnWhileTraining, PTL
LEMMA PlainFactsNext == (TypeOK /\ Plain => There = Here)'
<1>1. TypeOK /\ Plain => There = Here
  BY PlainFacts DEF TypeOK
<1>2. QED BY <1>1, PTL

-----------------------------------------------------------------------------
(* Every variable keeps its type, with any faults and in any environment.   *)
THEOREM CampaignTypeCorrect == Spec => []TypeOK
<1>1. QED BY TypeInit, TypeNext, PTL DEF Spec

(* The inductive invariant: what the directory of the current configuration *)
(* holds in each phase of its run, and the results after any interruption.  *)
LEMMA PlainInit == Init => RunInv /\ ResultsInv /\ OwnProblem
<1> SUFFICES ASSUME Init PROVE RunInv /\ ResultsInv /\ OwnProblem
  OBVIOUS
<1>1. RunInv
  BY RunInvInit
<1>2. NoTree.report = <<>> /\ \A c \in Classes : NoTree.class[c].model = {}
  BY DEF NoTree, NoClass
<1>3. \A i \in Config : dest[i] = NoTree
  BY DEF Init
<1>4. ResultsInv
  BY <1>2, <1>3 DEF ResultsInv, HasReport
<1>5. OwnProblem
  BY <1>2, <1>3 DEF OwnProblem, Models, Init
<1>6. QED BY <1>1, <1>4, <1>5

LEMMA CampaignInvNext == CampaignInv /\ [Next]_vars => CampaignInv'
<1> SUFFICES ASSUME CampaignInv, [Next]_vars PROVE CampaignInv'
  OBVIOUS
<1>1. TypeOK' /\ NoResults' /\ Unmarked'
  BY TypeNext, ResultsNext DEF CampaignInv
<1>2. ASSUME Plain' PROVE RunInv' /\ ResultsInv' /\ OwnProblem'
  <2>1. Plain /\ TypeOK /\ NoResults /\ RunInv /\ ResultsInv /\ OwnProblem
    BY <1>2, PlainStays DEF CampaignInv
  <2>2. RunInv'
    BY <2>1, RunInvNext
  <2>3. ResultsInv'
    BY <2>1, ResultsInvNext
  <2>4. There' = Here'
    BY <1>1, <1>2, PlainFactsNext
  <2>5. at' \in {"finalize", "report", "metrics"} => OwnModels(Here', cur')
    BY <1>1, <2>2, OwnWhileTrainingNext
  <2>6. at' = "move" => OwnModels(Here', cur')
    BY <2>1, OwnWhileMoving
  <2>7. OwnProblem'
    BY <2>3, <2>4, <2>5, <2>6, OwnFromPartsNext
  <2>8. QED BY <2>2, <2>3, <2>7
<1>3. QED BY <1>1, <1>2 DEF CampaignInv

THEOREM CampaignInvariance == Spec => []CampaignInv
<1>1. Init => CampaignInv
  BY TypeInit, ResultsInit, PlainInit DEF CampaignInv
<1>2. QED BY <1>1, CampaignInvNext, PTL DEF Spec

(* A configuration that is skipped as done has all its results in its       *)
(* directory, of one run that went through, unless mv left an entry of them *)
(* behind; and no FAILED beside them.                                       *)
THEOREM DoneIsOneCompleteRun == Spec => []DoneIsOneRun
<1>1. CampaignInv => DoneIsOneRun
  <2> SUFFICES ASSUME CampaignInv, NEW i \in Config, HasReport(i)
               PROVE  /\ i \notin failed
                      /\ Plain /\ i \notin torn => \E r \in 1 .. runs : ResultsOf(dest[i], r)
    BY DEF DoneIsOneRun
  <2>1. i \notin failed
    BY DEF CampaignInv, Unmarked
  <2>2. ASSUME Plain, i \notin torn PROVE \E r \in 1 .. runs : ResultsOf(dest[i], r)
    <3>1. PICK r \in 1 .. runs : Finished(dest[i], r, i)
      BY <2>2 DEF CampaignInv, ResultsInv
    <3>2. \A c \in Classes, j \in Member : dest[i].class[c].ckpt[j].run = r
      <4>1. \A t \in Task : Of(dest[i], t).run = r
        BY <3>1 DEF Finished, Reported, Own
      <4>2. QED BY <4>1, TaskFacts DEF Of
    <3>3. QED BY <3>1, <3>2 DEF ResultsOf, Finished, Reported, Modelled
  <2>3. QED BY <2>1, <2>2
<1>2. QED BY <1>1, CampaignInvariance, PTL

(* No global model is made of a checkpoint of another configuration.        *)
THEOREM OwnCheckpointsOnly == Spec => []PlainOwnProblem
<1>1. CampaignInv => PlainOwnProblem
  BY DEF CampaignInv, PlainOwnProblem
<1>2. QED BY <1>1, CampaignInvariance, PTL

(* A report that is kept tells, of every task whose kept ciphertexts are a  *)
(* worker's, the time of that solve and that worker's name.                 *)
THEOREM ReportTellsOfItsRun == Spec => []ReportIsTrue
<1>1. CampaignInv => ReportIsTrue
  <2> SUFFICES ASSUME CampaignInv, NEW i \in Config, Plain, HasReport(i), i \notin torn
               PROVE  LET s == dest[i].report[1]
                      IN  /\ \A t \in Task : Of(dest[i], t).by # Finalizer =>
                               /\ s.time[t] = Time(Of(dest[i], t))
                               /\ s.name[t] = Of(dest[i], t).by
                          /\ s.uploads = Classes \X Client
    BY DEF ReportIsTrue, Of
  <2>1. PICK r \in 1 .. runs : Finished(dest[i], r, i)
    BY DEF CampaignInv, ResultsInv
  <2>2. QED BY <2>1 DEF Finished, Reported
<1>2. QED BY <1>1, CampaignInvariance, PTL

(* What is done is never touched again, in any environment.                 *)
THEOREM DoneIsKept == Spec => FinishedIsKept
<1>1. CampaignInv /\ [Next]_vars =>
        [\A i \in Config : HasReport(i) => dest'[i] = dest[i]]_vars
  BY FinishedStep DEF CampaignInv
<1>2. QED BY <1>1, CampaignInvariance, PTL DEF Spec, FinishedIsKept
=============================================================================
