------------------------- MODULE SharedContextProofs -------------------------
(***************************************************************************)
(* Proofs about SharedContext for every number of classes and clients,     *)
(* every set of interruption points and any number of faults.              *)
(***************************************************************************)
EXTENDS SharedContext, TLAPS

(* Both save orders name files of a class directory and begin with          *)
(* cryptocontext.bin; the longer one bounds pos.                            *)
LEMMA OrderFacts ==
  /\ Len(ContextFiles) = 5 /\ Len(GlobalFiles) = 10
  /\ \A i \in 1 .. 5 : ContextFiles[i] \in Files
  /\ \A i \in 1 .. 10 : GlobalFiles[i] \in Files
  /\ ContextFiles[1] = "cryptocontext" /\ GlobalFiles[1] = "cryptocontext"
<1>1. Len(ContextFiles) = 5 /\ Len(GlobalFiles) = 10
  BY DEF ContextFiles, GlobalFiles
<1>2. \A i \in 1 .. 5 : ContextFiles[i] \in Files
  <2>1. SUFFICES ASSUME NEW i \in 1 .. 5 PROVE ContextFiles[i] \in Files
    OBVIOUS
  <2>2. i = 1 \/ i = 2 \/ i = 3 \/ i = 4 \/ i = 5
    OBVIOUS
  <2>3. QED BY <2>2 DEF ContextFiles, Files
<1>3. \A i \in 1 .. 10 : GlobalFiles[i] \in Files
  <2>1. SUFFICES ASSUME NEW i \in 1 .. 10 PROVE GlobalFiles[i] \in Files
    OBVIOUS
  <2>2. \/ i = 1 \/ i = 2 \/ i = 3 \/ i = 4 \/ i = 5
        \/ i = 6 \/ i = 7 \/ i = 8 \/ i = 9 \/ i = 10
    OBVIOUS
  <2>3. QED BY <2>2 DEF GlobalFiles, Files
<1>4. ContextFiles[1] = "cryptocontext" /\ GlobalFiles[1] = "cryptocontext"
  BY DEF ContextFiles, GlobalFiles
<1>5. QED BY <1>1, <1>2, <1>3, <1>4

(* While a save is in progress its position is within its order, so the     *)
(* file it names is a file of the class directory.                          *)
LEMMA OrderInFiles ==
  ASSUME TypeOK, Saving, pos <= Len(Order)
  PROVE  /\ Order[pos] \in Files
         /\ pos = 1 => Order[pos] = "cryptocontext"
         /\ pos + 1 \in 1 .. Len(GlobalFiles) + 1
<1>1. pos \in 1 .. 11
  BY OrderFacts DEF TypeOK, ProcType
<1>2. CASE at = "context"
  <2>1. Order = ContextFiles
    BY <1>2 DEF Order
  <2>2. pos \in 1 .. 5
    BY <1>1, <2>1, OrderFacts
  <2>3. QED BY <2>1, <2>2, OrderFacts
<1>3. CASE at # "context"
  <2>1. Order = GlobalFiles
    BY <1>3 DEF Order
  <2>2. pos \in 1 .. 10
    BY <1>1, <2>1, OrderFacts
  <2>3. QED BY <2>1, <2>2, OrderFacts
<1>4. QED BY <1>2, <1>3

(* The set of tasks, and what Content is.                                   *)
LEMMA ConstantFacts ==
  /\ 0 \in Classes
  /\ \A c \in Classes : c \in Nat
  /\ Absent # Torn /\ Absent \notin Key /\ Torn \notin Key /\ NoKey \notin Key
BY ContextAssumption DEF Classes, Absent, Torn, NoKey, Key

-----------------------------------------------------------------------------
(* The control state that Goto and Launch leave is well typed.              *)
LEMMA GotoType ==
  ASSUME NEW p \in {"none", "prepare", "pool", "train"},
         NEW a \in {"start", "class", "context", "solve", "global"},
         NEW c \in Classes, Goto(p, a, c),
         key' \in {NoKey} \cup Key, acc' \in SUBSET ({NoKey} \cup Key),
         task' \in [Task -> {"todo", "saving", "done", "failed"}]
  PROVE  ProcType' /\ OpenInOrder'
<1>1. pos' \in 1 .. Len(GlobalFiles) + 1
  BY OrderFacts DEF Goto
<1>2. QED BY <1>1 DEF Goto, ProcType, OpenInOrder

LEMMA LaunchType ==
  ASSUME NEW p \in {"none", "prepare", "pool", "train"}, Launch(p)
  PROVE  ProcType' /\ OpenInOrder'
<1>1. key' \in {NoKey} \cup Key /\ acc' \in SUBSET ({NoKey} \cup Key)
  BY DEF Launch
<1>2. task' \in [Task -> {"todo", "saving", "done", "failed"}]
  BY DEF Launch
<1>3. Goto(p, "start", 0)
  BY DEF Launch
<1>4. QED BY <1>1, <1>2, <1>3, GotoType, ConstantFacts

LEMMA EndType ==
  ASSUME NEW how \in {"done", "refused", "unloadable", "failed", "killed"},
         End(how)
  PROVE  /\ ProcType' /\ OpenInOrder'
         /\ outcome' \in {"done", "refused", "unloadable", "failed", "killed"}
BY LaunchType DEF End

(* Type correctness: every variable keeps its type, at every interruption.  *)
LEMMA TypeInit == Init => TypeOK
<1> SUFFICES ASSUME Init PROVE TypeOK
  OBVIOUS
<1>1. StoreType
  BY DEF Init, StoreType, Content
<1>2. pos \in 1 .. Len(GlobalFiles) + 1
  BY OrderFacts DEF Init
<1>3. ProcType
  BY <1>2, ConstantFacts DEF Init, ProcType
<1>4. faults \in 0 .. MaxFaults
  BY ContextAssumption DEF Init
<1>5. QED BY <1>1, <1>3, <1>4 DEF Init, TypeOK, OpenInOrder

LEMMA TypeNext == TypeOK /\ [Next]_vars => TypeOK'
<1> SUFFICES ASSUME TypeOK, [Next]_vars PROVE TypeOK'
  OBVIOUS
<1>1. ASSUME NEW p \in Commands, Run(p) PROVE TypeOK'
  <2>1. ProcType' /\ OpenInOrder'
    BY <1>1, LaunchType, ContextAssumption DEF Run
  <2>2. QED BY <1>1, <2>1 DEF Run, TypeOK, StoreType, ckptVars
<1>2. CASE Prepare
  <2>1. CASE PrepareReuse
    BY <2>1, LaunchType DEF PrepareReuse, TypeOK, StoreType, ckptVars
  <2>2. CASE PrepareFresh
    <3>1. generated' \in Nat /\ key' \in Key
      BY <2>2 DEF PrepareFresh, FreshKey, TypeOK, StoreType, Key
    <3>2. ProcType' /\ OpenInOrder'
      BY <2>2, <3>1, GotoType, ConstantFacts
         DEF PrepareFresh, TypeOK, ProcType
    <3>3. QED
      BY <2>2, <3>1, <3>2 DEF PrepareFresh, TypeOK, StoreType, ckptVars
  <2>3. CASE PrepareRefuse
    BY <2>3, EndType DEF PrepareRefuse, TypeOK, StoreType, ckptVars
  <2>4. CASE PrepareDone
    BY <2>4, LaunchType DEF PrepareDone, TypeOK, StoreType, ckptVars
  <2>5. QED BY <1>2, <2>1, <2>2, <2>3, <2>4 DEF Prepare
<1>3. CASE OpenFile
  <2>1. disk' \in [Classes -> [Files -> Content]]
    BY <1>3, OrderInFiles DEF OpenFile, Content, TypeOK, StoreType
  <2>2. QED
    BY <1>3, <2>1 DEF OpenFile, TypeOK, StoreType, ProcType, ckptVars,
                      OpenInOrder, Saving, Order
<1>4. CASE CloseFile
  <2>1. key \in Content
    BY DEF TypeOK, ProcType, Content, NoKey, Absent
  <2>2. disk' \in [Classes -> [Files -> Content]]
    BY <1>4, <2>1 DEF CloseFile, TypeOK, StoreType
  <2>3. pos' \in 1 .. Len(GlobalFiles) + 1
    BY <1>4, OrderInFiles DEF CloseFile, TypeOK, OpenInOrder
  <2>4. QED
    BY <1>4, <2>2, <2>3 DEF CloseFile, TypeOK, StoreType, ProcType, ckptVars,
                            OpenInOrder
<1>5. CASE Pool
  <2>1. CASE PoolLoad
    <3>1. key' \in Key
      BY <2>1, ConstantFacts DEF PoolLoad, Loadable, Whole
    <3>2. ProcType' /\ OpenInOrder'
      BY <2>1, <3>1, GotoType, ConstantFacts DEF PoolLoad, TypeOK, ProcType
    <3>3. QED BY <2>1, <3>2 DEF PoolLoad, TypeOK, StoreType, ckptVars
  <2>2. CASE PoolDie
    BY <2>2, EndType DEF PoolDie, TypeOK, StoreType, ckptVars
  <2>3. CASE PoolSucceeds
    BY <2>3, LaunchType DEF PoolSucceeds, TypeOK, StoreType, ckptVars
  <2>4. CASE PoolFails
    BY <2>4, EndType DEF PoolFails, TypeOK, StoreType, ckptVars
  <2>5. QED BY <1>5, <2>1, <2>2, <2>3, <2>4 DEF Pool
<1>6. ASSUME NEW t \in Task, Resume(t) PROVE TypeOK'
  <2>1. {bias[t], weights[t]} \subseteq Key
    BY <1>6 DEF Resume, CtsExist, TypeOK, StoreType
  <2>2. acc' \in SUBSET ({NoKey} \cup Key)
    BY <1>6, <2>1 DEF Resume, Gather, TypeOK, ProcType
  <2>3. QED
    BY <1>6, <2>2 DEF Resume, TypeOK, StoreType, ProcType, ckptVars,
         OpenInOrder, Saving, Order
<1>7. ASSUME NEW t \in Task, SaveBias(t) PROVE TypeOK'
  <2>1. bias' \in [Task -> {Absent} \cup Key]
    BY <1>7 DEF SaveBias, TypeOK, StoreType, ProcType, NoKey, Absent
  <2>2. QED BY <1>7, <2>1 DEF SaveBias, TypeOK, StoreType, ProcType,
         OpenInOrder, Saving, Order
<1>8. ASSUME NEW t \in Task, SaveWeights(t) PROVE TypeOK'
  <2>1. weights' \in [Task -> {Absent} \cup Key]
    BY <1>8 DEF SaveWeights, TypeOK, StoreType, ProcType, NoKey, Absent
  <2>2. acc' \in SUBSET ({NoKey} \cup Key)
    BY <1>8 DEF SaveWeights, Gather, TypeOK, ProcType
  <2>3. QED BY <1>8, <2>1, <2>2 DEF SaveWeights, TypeOK, StoreType, ProcType,
         OpenInOrder, Saving, Order
<1>9. CASE Train
  <2>1. ASSUME NEW c \in Classes, TrainLoad(c) PROVE TypeOK'
    <3>1. key' \in Key
      BY <2>1 DEF TrainLoad, Loadable, Whole
    <3>2. ProcType' /\ OpenInOrder'
      BY <2>1, <3>1, GotoType, ConstantFacts DEF TrainLoad, TypeOK, ProcType
    <3>3. QED BY <2>1, <3>2 DEF TrainLoad, TypeOK, StoreType, ckptVars
  <2>2. ASSUME NEW c \in Classes, TrainUnloadable(c) PROVE TypeOK'
    BY <2>2, EndType DEF TrainUnloadable, TypeOK, StoreType, ckptVars
  <2>3. CASE TrainFresh
    <3>1. generated' \in Nat /\ key' \in Key
      BY <2>3 DEF TrainFresh, FreshKey, TypeOK, StoreType, Key
    <3>2. ProcType' /\ OpenInOrder'
      BY <2>3, <3>1, GotoType, ConstantFacts DEF TrainFresh, TypeOK, ProcType
    <3>3. QED BY <2>3, <3>1, <3>2 DEF TrainFresh, TypeOK, StoreType, ckptVars
  <2>4. CASE TrainRefuse
    BY <2>4, EndType DEF TrainRefuse, TypeOK, StoreType, ckptVars
  <2>5. CASE BeginClass
    <3>1. ProcType' /\ OpenInOrder'
      BY <2>5, GotoType DEF BeginClass, TypeOK, ProcType
    <3>2. QED BY <2>5, <3>1 DEF BeginClass, TypeOK, StoreType, ckptVars
  <2>6. CASE TrainSavedContext
    <3>1. ProcType' /\ OpenInOrder'
      BY <2>6, GotoType DEF TrainSavedContext, TypeOK, ProcType
    <3>2. QED BY <2>6, <3>1 DEF TrainSavedContext, TypeOK, StoreType, ckptVars
  <2>7. CASE BeginGlobal
    <3>1. ProcType' /\ OpenInOrder'
      BY <2>7, GotoType DEF BeginGlobal, TypeOK, ProcType
    <3>2. QED BY <2>7, <3>1 DEF BeginGlobal, TypeOK, StoreType, ckptVars
  <2>8. CASE NextClass
    <3>1. ProcType' /\ OpenInOrder'
      BY <2>8, GotoType DEF NextClass, TypeOK, ProcType
    <3>2. QED BY <2>8, <3>1 DEF NextClass, TypeOK, StoreType, ckptVars
  <2>9. CASE TrainDone
    BY <2>9, EndType DEF TrainDone, TypeOK, StoreType, ckptVars
  <2>10. QED
    BY <1>9, <2>1, <2>2, <2>3, <2>4, <2>5, <2>6, <2>7, <2>8, <2>9 DEF Train
<1>10. ASSUME NEW t \in Task, WorkerFails(t) PROVE TypeOK'
  <2>1. faults' \in 0 .. MaxFaults
    BY <1>10, ContextAssumption DEF WorkerFails, TypeOK
  <2>2. QED
    BY <1>10, <2>1 DEF WorkerFails, TypeOK, StoreType, ProcType, ckptVars,
         OpenInOrder, Saving, Order
<1>11. CASE Kill
  <2>1. faults' \in 0 .. MaxFaults
    BY <1>11, ContextAssumption DEF Kill, TypeOK
  <2>2. QED BY <1>11, <2>1, EndType DEF Kill, TypeOK, StoreType, ckptVars
<1>12. CASE UNCHANGED vars
  BY <1>12 DEF vars, procVars, TypeOK, StoreType, ProcType,
         OpenInOrder, Saving, Order
<1>13. QED
  BY <1>1, <1>2, <1>3, <1>4, <1>5, <1>6, <1>7, <1>8, <1>9, <1>10, <1>11, <1>12
     DEF Next, Step, Start, Solve

(* Every variable keeps its type in every behaviour.                        *)
THEOREM TypeCorrect == Spec => []TypeOK
BY TypeInit, TypeNext, PTL DEF Spec

-----------------------------------------------------------------------------
(* One key.  First what the predicates say of an unchanged, an empty and a  *)
(* loaded store.                                                            *)
LEMMA StoreSame ==
  ASSUME UNCHANGED <<disk, ckptVars>>
  PROVE  /\ \A k \in Key : Under(k)' <=> Under(k)
         /\ Anchored' <=> Anchored
         /\ Empty' <=> Empty
         /\ SomeContextFile' <=> SomeContextFile
BY DEF ckptVars, Under, Anchored, Empty, SomeContextFile

LEMMA FreshIsEmpty ==
  ASSUME TypeOK, Anchored, SafeToCreate
  PROVE  \A k \in Key : Under(k)
BY DEF SafeToCreate, Anchored, SomeContextFile, Empty, Under

LEMMA OwnerUnique ==
  ASSUME NEW k \in Key, Under(k), NEW c \in Classes, NEW f \in Files, Whole(c, f)
  PROVE  disk[c][f] = k
BY ConstantFacts DEF Under, Whole

LEMMA HeldKey ==
  ASSUME TypeOK, HoldsKey, at # "start"
  PROVE  key \in Key /\ key \in 1 .. generated /\ Under(key)
BY DEF HoldsKey, TypeOK, StoreType, Key

(* A process that ends or hands over touches no file and forgets its key.   *)
LEMMA LaunchAgrees ==
  ASSUME TypeOK, Agreement, NEW p, Launch(p), UNCHANGED <<disk, ckptVars, generated>>
  PROVE  Agreement'
<1>1. OneOwner'
  BY StoreSame DEF Agreement, OneOwner, Key, TypeOK, StoreType
<1>2. Anchored'
  BY StoreSame DEF Agreement
<1>3. AggregateUnderOneKey' /\ HoldsKey'
  BY DEF Launch, Goto, AggregateUnderOneKey, HoldsKey
<1>4. Working'
  BY DEF Launch, Goto, Working, Saving
<1>5. QED BY <1>1, <1>2, <1>3, <1>4 DEF Agreement

(* A step of a working process that touches no file and keeps its key.      *)
LEMMA GotoAgrees ==
  ASSUME TypeOK, Agreement, at # "start", key' = key, acc' \subseteq {key},
         NEW p, NEW a, NEW c, Goto(p, a, c), a # "start",
         a = "solve" => SomeContextFile,
         UNCHANGED <<disk, ckptVars, generated>>
  PROVE  Agreement'
<1>1. key \in Key /\ key \in 1 .. generated /\ Under(key)
  BY HeldKey DEF Agreement
<1>2. OneOwner' /\ Anchored' /\ (a = "solve" => SomeContextFile')
  BY StoreSame DEF Agreement, OneOwner, Key, TypeOK, StoreType
<1>3. HoldsKey'
  BY <1>1, StoreSame DEF Goto, HoldsKey
<1>4. AggregateUnderOneKey' /\ Working'
  BY <1>2 DEF Goto, AggregateUnderOneKey, Working, Saving
<1>5. QED BY <1>2, <1>3, <1>4 DEF Agreement

(* A process that takes a key: a loaded one is the owner's, a fresh one     *)
(* finds nothing on disk.                                                   *)
LEMMA LoadAgrees ==
  ASSUME TypeOK, Agreement, at = "start", NEW c \in Classes, Loadable(c),
         key' = disk[c]["secret_key"], acc' = acc,
         NEW p, NEW a \in {"class", "solve"}, NEW d, Goto(p, a, d),
         UNCHANGED <<disk, ckptVars, generated>>
  PROVE  Agreement'
<1>1. PICK k \in 1 .. generated : Under(k)
  BY ConstantFacts DEF Agreement, OneOwner, Empty, Loadable, Whole, Files
<1>2. k \in Key
  BY DEF Key, TypeOK, StoreType
<1>3. key' = k
  BY <1>1, <1>2, OwnerUnique DEF Loadable, Files
<1>4. Under(k)'
  BY <1>1, <1>2, StoreSame
<1>5. HoldsKey' /\ OneOwner'
  BY <1>3, <1>4 DEF Goto, HoldsKey, Under, OneOwner
<1>6. SomeContextFile'
  BY ConstantFacts, StoreSame DEF Loadable, Whole, SomeContextFile
<1>7. Anchored' /\ AggregateUnderOneKey' /\ Working'
  BY <1>6 DEF Agreement, HoldsKey, Anchored, AggregateUnderOneKey, Working, Goto,
              Saving
<1>8. QED BY <1>5, <1>7 DEF Agreement

LEMMA FreshAgrees ==
  ASSUME TypeOK, Agreement, at = "start", FreshKey, acc' = acc,
         NEW p, NEW a \in {"class", "context"}, NEW c, Goto(p, a, c),
         UNCHANGED <<disk, ckptVars>>
  PROVE  Agreement'
<1>1. PICK k \in Key : k = generated + 1
  BY DEF Key, TypeOK, StoreType
<1>2. key' = k /\ k \in 1 .. generated'
  BY <1>1 DEF FreshKey, TypeOK, StoreType
<1>3. Under(k)'
  BY FreshIsEmpty, StoreSame DEF FreshKey, Agreement
<1>4. OneOwner' /\ HoldsKey'
  BY <1>2, <1>3 DEF OneOwner, HoldsKey, Goto, Under
<1>5. Anchored' /\ AggregateUnderOneKey' /\ Working'
  BY StoreSame DEF Agreement, HoldsKey, AggregateUnderOneKey, Working, Goto,
                   Saving
<1>6. QED BY <1>4, <1>5 DEF Agreement

(* The steps that write.                                                    *)
LEMMA OpenFileAgrees == TypeOK /\ Agreement /\ OpenFile => Agreement'
<1> SUFFICES ASSUME TypeOK, Agreement, OpenFile PROVE Agreement'
  OBVIOUS
<1>1. key \in Key /\ key \in 1 .. generated /\ Under(key)
  BY HeldKey DEF Agreement, OpenFile, Saving
<1>2. /\ Order[pos] \in Files
      /\ pos = 1 => Order[pos] = "cryptocontext"
  BY OrderInFiles DEF OpenFile
<1>3. Under(key)'
  <2>1. \A c \in Classes, f \in Files : disk'[c][f] \in {Absent, Torn, key}
    BY <1>1, <1>2 DEF OpenFile, Under, TypeOK, StoreType
  <2>2. QED BY <1>1, <2>1 DEF OpenFile, Under, ckptVars
<1>4. OneOwner' /\ HoldsKey'
  BY <1>1, <1>3 DEF OpenFile, Saving, OneOwner, HoldsKey, Under
<1>5. disk'[cls]["cryptocontext"] # Absent
  BY <1>2, ConstantFacts
     DEF OpenFile, Agreement, Working, TypeOK, StoreType, ProcType, Files
<1>6. SomeContextFile'
  BY <1>5 DEF SomeContextFile, TypeOK, ProcType
<1>7. Anchored' /\ AggregateUnderOneKey' /\ Working'
  BY <1>5, <1>6 DEF OpenFile, Agreement, Anchored, AggregateUnderOneKey, Working,
                    Saving
<1>8. QED BY <1>4, <1>7 DEF Agreement

LEMMA CloseFileAgrees == TypeOK /\ Agreement /\ CloseFile => Agreement'
<1> SUFFICES ASSUME TypeOK, Agreement, CloseFile PROVE Agreement'
  OBVIOUS
<1>1. key \in Key /\ key \in 1 .. generated /\ Under(key)
  BY HeldKey DEF Agreement, CloseFile, Saving
<1>2. Order[pos] \in Files
  BY OrderInFiles DEF CloseFile, TypeOK, OpenInOrder
<1>3. Under(key)'
  <2>1. \A c \in Classes, f \in Files : disk'[c][f] \in {Absent, Torn, key}
    BY <1>1, <1>2 DEF CloseFile, Under, TypeOK, StoreType
  <2>2. QED BY <1>1, <2>1 DEF CloseFile, Under, ckptVars
<1>4. OneOwner' /\ HoldsKey'
  BY <1>1, <1>3 DEF CloseFile, Saving, OneOwner, HoldsKey, Under
<1>5. disk'[cls]["cryptocontext"] # Absent
  BY <1>1, <1>2, ConstantFacts
     DEF CloseFile, Agreement, Working, TypeOK, StoreType, ProcType, Files
<1>6. SomeContextFile'
  BY <1>5 DEF SomeContextFile, TypeOK, ProcType
<1>7. Anchored' /\ AggregateUnderOneKey' /\ Working'
  BY <1>5, <1>6 DEF CloseFile, Agreement, Anchored, AggregateUnderOneKey, Working,
                    Saving
<1>8. QED BY <1>4, <1>7 DEF Agreement

(* A solved pair is saved under the key in memory, in a directory tree that *)
(* holds a context.                                                         *)
LEMMA SolveAgrees ==
  ASSUME TypeOK, Agreement, NEW t \in Task,
         Resume(t) \/ SaveBias(t) \/ SaveWeights(t)
  PROVE  Agreement'
<1>1. at = "solve" /\ at' = at /\ key' = key /\ generated' = generated
  BY DEF Resume, SaveBias, SaveWeights, MayTake
<1>2. key \in Key /\ key \in 1 .. generated /\ Under(key)
  BY <1>1, HeldKey DEF Agreement
<1>3. disk' = disk
  BY DEF Resume, SaveBias, SaveWeights
<1>4. \A u \in Task : bias'[u] \in {Absent, key} /\ weights'[u] \in {Absent, key}
  BY <1>2 DEF Resume, SaveBias, SaveWeights, ckptVars, Under, TypeOK, StoreType
<1>5. Under(key)'
  BY <1>1, <1>2, <1>3, <1>4 DEF Under
<1>6. OneOwner' /\ HoldsKey'
  BY <1>1, <1>2, <1>5 DEF OneOwner, HoldsKey, Under
<1>7. SomeContextFile' /\ Anchored' /\ Working'
  BY <1>1, <1>3 DEF Agreement, Working, SomeContextFile, Anchored, Saving
<1>8. AggregateUnderOneKey'
  <2>1. acc \subseteq {key}
    BY DEF Agreement, AggregateUnderOneKey
  <2>2. CASE Resume(t)
    <3>1. {bias[t], weights[t]} \subseteq {key}
      BY <1>2, <2>2 DEF Resume, CtsExist, Under
    <3>2. QED BY <1>1, <2>1, <2>2, <3>1 DEF Resume, Gather, AggregateUnderOneKey
  <2>3. CASE SaveBias(t)
    BY <1>1, <2>1, <2>3 DEF SaveBias, AggregateUnderOneKey
  <2>4. CASE SaveWeights(t)
    BY <1>1, <2>1, <2>4 DEF SaveWeights, Gather, AggregateUnderOneKey
  <2>5. QED BY <2>2, <2>3, <2>4
<1>9. QED BY <1>6, <1>7, <1>8 DEF Agreement

LEMMA KeyInit == Init => KeyInv
<1> SUFFICES ASSUME Init PROVE Agreement
  BY TypeInit DEF KeyInv
<1>1. Empty
  BY DEF Init, Empty
<1>2. QED
  BY <1>1 DEF Init, Agreement, OneOwner, AggregateUnderOneKey, Anchored, HoldsKey,
              Working, Saving

LEMMA KeyNext == KeyInv /\ [Next]_vars => KeyInv'
<1> SUFFICES ASSUME TypeOK, Agreement, [Next]_vars PROVE Agreement'
  BY TypeNext DEF KeyInv
<1>1. ASSUME NEW p \in Commands, Run(p) PROVE Agreement'
  BY <1>1, LaunchAgrees DEF Run
<1>2. CASE Prepare
  <2>1. CASE PrepareReuse
    BY <2>1, LaunchAgrees DEF PrepareReuse
  <2>2. CASE PrepareFresh
    BY <2>2, FreshAgrees DEF PrepareFresh
  <2>3. CASE PrepareRefuse
    BY <2>3, LaunchAgrees DEF PrepareRefuse, End
  <2>4. CASE PrepareDone
    BY <2>4, LaunchAgrees DEF PrepareDone
  <2>5. QED BY <1>2, <2>1, <2>2, <2>3, <2>4 DEF Prepare
<1>3. CASE OpenFile
  BY <1>3, OpenFileAgrees
<1>4. CASE CloseFile
  BY <1>4, CloseFileAgrees
<1>5. CASE Pool
  <2>1. CASE PoolLoad
    BY <2>1, LoadAgrees, ConstantFacts DEF PoolLoad
  <2>2. CASE PoolDie
    BY <2>2, LaunchAgrees DEF PoolDie, End
  <2>3. CASE PoolSucceeds
    BY <2>3, LaunchAgrees DEF PoolSucceeds
  <2>4. CASE PoolFails
    BY <2>4, LaunchAgrees DEF PoolFails, End
  <2>5. QED BY <1>5, <2>1, <2>2, <2>3, <2>4 DEF Pool
<1>6. CASE Solve
  BY <1>6, SolveAgrees DEF Solve
<1>7. CASE Train
  <2> USE DEF AggregateUnderOneKey
  <2>1. ASSUME NEW c \in Classes, TrainLoad(c) PROVE Agreement'
    BY <2>1, LoadAgrees DEF TrainLoad
  <2>2. ASSUME NEW c \in Classes, TrainUnloadable(c) PROVE Agreement'
    BY <2>2, LaunchAgrees DEF TrainUnloadable, End
  <2>3. CASE TrainFresh
    BY <2>3, FreshAgrees DEF TrainFresh
  <2>4. CASE TrainRefuse
    BY <2>4, LaunchAgrees DEF TrainRefuse, End
  <2>5. CASE BeginClass
    <3>1. ContextExists(cls) => SomeContextFile
      BY ConstantFacts
         DEF ContextExists, Whole, Agreement, Anchored, Empty, TypeOK, ProcType,
             Files
    <3>2. QED BY <2>5, <3>1, GotoAgrees DEF BeginClass
  <2>6. CASE TrainSavedContext
    <3>1. Saving /\ pos > 1
      BY <2>6 DEF TrainSavedContext, Saved, Saving, Order, ContextFiles, TypeOK,
                  ProcType
    <3>2. SomeContextFile
      BY <3>1 DEF Agreement, Working, SomeContextFile, TypeOK, ProcType
    <3>3. QED BY <2>6, <3>2, GotoAgrees DEF TrainSavedContext, Saved, Agreement
  <2>7. CASE BeginGlobal
    BY <2>7, GotoAgrees DEF BeginGlobal, Agreement
  <2>8. CASE NextClass
    BY <2>8, GotoAgrees DEF NextClass, Saved, Agreement
  <2>9. CASE TrainDone
    BY <2>9, LaunchAgrees DEF TrainDone, End
  <2>10. QED
    BY <1>7, <2>1, <2>2, <2>3, <2>4, <2>5, <2>6, <2>7, <2>8, <2>9 DEF Train
<1>8. ASSUME NEW t \in Task, WorkerFails(t) PROVE Agreement'
  <2>1. UNCHANGED <<disk, ckptVars, at, key, cls, pos, open, acc, generated>>
    BY <1>8 DEF WorkerFails
  <2>2. QED
    BY <2>1, StoreSame
       DEF Agreement, OneOwner, AggregateUnderOneKey, HoldsKey, Working, Saving,
           Under, ckptVars
<1>9. CASE Kill
  BY <1>9, LaunchAgrees DEF Kill, End
<1>10. CASE UNCHANGED vars
  <2>1. UNCHANGED <<disk, ckptVars, at, key, cls, pos, open, acc, generated>>
    BY <1>10 DEF vars, procVars, ckptVars
  <2>2. QED
    BY <2>1, StoreSame
       DEF Agreement, OneOwner, AggregateUnderOneKey, HoldsKey, Working, Saving,
           Under, ckptVars
<1>11. QED
  BY <1>1, <1>2, <1>3, <1>4, <1>5, <1>6, <1>7, <1>8, <1>9, <1>10
     DEF Next, Step, Start

(* The inductive invariant holds in every behaviour.                        *)
THEOREM KeyInvariance == Spec => []KeyInv
BY KeyInit, KeyNext, PTL DEF Spec

(* Whatever is on disk is the content of some file.                         *)
LEMMA OnDiskFacts ==
  ASSUME NEW x \in OnDisk
  PROVE  \/ \E c \in Classes, f \in Files : x = disk[c][f]
         \/ \E t \in Task : x = bias[t] \/ x = weights[t]
<1>1. CASE x \in (UNION {{disk[c][f] : f \in Files} : c \in Classes})
  <2>1. PICK S \in {{disk[c][f] : f \in Files} : c \in Classes} : x \in S
    BY <1>1
  <2>2. PICK c \in Classes : S = {disk[c][f] : f \in Files}
    BY <2>1
  <2>3. QED BY <2>1, <2>2
<1>2. CASE x \in {bias[t] : t \in Task} \cup {weights[t] : t \in Task}
  BY <1>2
<1>3. QED BY <1>1, <1>2 DEF OnDisk

(* No two complete artifacts of models/k=N/ belong to different keys,       *)
(* wherever prepare, the pool or train were interrupted and rerun.          *)
THEOREM OneKeyForLife == Spec => []OneKey
<1>1. KeyInv => OneKey
  <2> SUFFICES ASSUME TypeOK, OneOwner, NEW i \in Owners, NEW j \in Owners
               PROVE  i = j
    BY DEF KeyInv, Agreement, OneKey
  <2>1. CASE Empty
    <3>1. \A x \in OnDisk : x = Absent
      BY <2>1, OnDiskFacts DEF Empty
    <3>2. QED BY <3>1 DEF Owners, Key, Absent
  <2>2. ASSUME NEW k \in 1 .. generated, Under(k) PROVE i = j
    <3>1. \A x \in OnDisk : x \in {Absent, Torn, k}
      BY <2>2, OnDiskFacts DEF Under
    <3>2. QED BY <3>1 DEF Owners, Key, Absent, Torn
  <2>3. QED BY <2>1, <2>2 DEF OneOwner
<1>2. QED BY <1>1, KeyInvariance, PTL

(* FedAvg never adds ciphertexts of different keys, and train decrypts the  *)
(* sum with the key all of them are under.                                  *)
THEOREM AggregationIsSound == Spec => []AggregateUnderOneKey
<1>1. KeyInv => AggregateUnderOneKey
  BY DEF KeyInv, Agreement
<1>2. QED BY <1>1, KeyInvariance, PTL

-----------------------------------------------------------------------------
(* Progress and layout.  Where the files a proof asks for are in the two    *)
(* orders: no file is twice in one, only the context save writes the        *)
(* marker, and the global save writes everything else.                      *)
LEMMA OrderOnce ==
  /\ \A i, j \in 1 .. 5 : ContextFiles[i] = ContextFiles[j] => i = j
  /\ \A i, j \in 1 .. 10 : GlobalFiles[i] = GlobalFiles[j] => i = j
  /\ \A i \in 1 .. 5 : /\ ContextFiles[i] = "marker" <=> i = 4
                       /\ ContextFiles[i] \notin {"phi_mean", "threshold"}
  /\ \A i \in 1 .. 10 : /\ GlobalFiles[i] # "marker"
                        /\ GlobalFiles[i] = "phi_mean" <=> i = 9
  /\ /\ GlobalFiles[8] = "checkpoint" /\ GlobalFiles[5] = "public_key"
     /\ GlobalFiles[7] = "security"
<1>1. \A i, j \in 1 .. 5 : ContextFiles[i] = ContextFiles[j] => i = j
  <2>1. SUFFICES ASSUME NEW i \in 1 .. 5, NEW j \in 1 .. 5,
                        ContextFiles[i] = ContextFiles[j]
                 PROVE  i = j
    OBVIOUS
  <2>2. i = 1 \/ i = 2 \/ i = 3 \/ i = 4 \/ i = 5
    OBVIOUS
  <2>3. j = 1 \/ j = 2 \/ j = 3 \/ j = 4 \/ j = 5
    OBVIOUS
  <2>4. QED BY <2>1, <2>2, <2>3 DEF ContextFiles
<1>2. \A i, j \in 1 .. 10 : GlobalFiles[i] = GlobalFiles[j] => i = j
  <2>1. SUFFICES ASSUME NEW i \in 1 .. 10, NEW j \in 1 .. 10,
                        GlobalFiles[i] = GlobalFiles[j]
                 PROVE  i = j
    OBVIOUS
  <2>2. \/ i = 1 \/ i = 2 \/ i = 3 \/ i = 4 \/ i = 5
        \/ i = 6 \/ i = 7 \/ i = 8 \/ i = 9 \/ i = 10
    OBVIOUS
  <2>3. \/ j = 1 \/ j = 2 \/ j = 3 \/ j = 4 \/ j = 5
        \/ j = 6 \/ j = 7 \/ j = 8 \/ j = 9 \/ j = 10
    OBVIOUS
  <2>4. QED BY <2>1, <2>2, <2>3 DEF GlobalFiles
<1>3. \A i \in 1 .. 5 : /\ ContextFiles[i] = "marker" <=> i = 4
                        /\ ContextFiles[i] \notin {"phi_mean", "threshold"}
  <2>1. SUFFICES ASSUME NEW i \in 1 .. 5
                 PROVE  /\ ContextFiles[i] = "marker" <=> i = 4
                        /\ ContextFiles[i] \notin {"phi_mean", "threshold"}
    OBVIOUS
  <2>2. i = 1 \/ i = 2 \/ i = 3 \/ i = 4 \/ i = 5
    OBVIOUS
  <2>3. QED BY <2>2 DEF ContextFiles
<1>4. \A i \in 1 .. 10 : /\ GlobalFiles[i] # "marker"
                         /\ GlobalFiles[i] = "phi_mean" <=> i = 9
  <2>1. SUFFICES ASSUME NEW i \in 1 .. 10
                 PROVE  /\ GlobalFiles[i] # "marker"
                        /\ GlobalFiles[i] = "phi_mean" <=> i = 9
    OBVIOUS
  <2>2. \/ i = 1 \/ i = 2 \/ i = 3 \/ i = 4 \/ i = 5
        \/ i = 6 \/ i = 7 \/ i = 8 \/ i = 9 \/ i = 10
    OBVIOUS
  <2>3. QED BY <2>2 DEF GlobalFiles
<1>5. /\ GlobalFiles[8] = "checkpoint" /\ GlobalFiles[5] = "public_key"
      /\ GlobalFiles[7] = "security"
  BY DEF GlobalFiles
<1>6. QED BY <1>1, <1>2, <1>3, <1>4, <1>5

LEMMA GlobalCovers ==
  \A f \in Files : f = "marker" \/ \E i \in 1 .. 10 : GlobalFiles[i] = f
<1>1. /\ GlobalFiles[1] = "cryptocontext" /\ GlobalFiles[2] = "secret_key"
      /\ GlobalFiles[3] = "bias" /\ GlobalFiles[4] = "weights"
      /\ GlobalFiles[5] = "public_key" /\ GlobalFiles[6] = "mode"
      /\ GlobalFiles[7] = "security" /\ GlobalFiles[8] = "checkpoint"
      /\ GlobalFiles[9] = "phi_mean" /\ GlobalFiles[10] = "threshold"
  BY DEF GlobalFiles
<1>2. QED BY <1>1 DEF Files

(* What a step may do to the store: a save truncates or completes the one   *)
(* file it is at, a solver completes one of its pair, and no other step     *)
(* touches anything.                                                        *)
LEMMA StoreStep ==
  ASSUME [Next]_vars
  PROVE  \/ UNCHANGED <<disk, ckptVars>>
         \/ OpenFile
         \/ CloseFile
         \/ \E t \in Task : SaveBias(t) \/ SaveWeights(t)
<1>1. CASE Start
  BY <1>1 DEF Start, Run
<1>2. CASE Prepare
  BY <1>2 DEF Prepare, PrepareReuse, PrepareFresh, PrepareRefuse, PrepareDone
<1>3. CASE Pool
  BY <1>3 DEF Pool, PoolLoad, PoolDie, PoolSucceeds, PoolFails
<1>4. CASE Solve
  BY <1>4 DEF Solve, Resume
<1>5. CASE Train
  BY <1>5 DEF Train, TrainLoad, TrainUnloadable, TrainFresh, TrainRefuse,
              BeginClass, TrainSavedContext, BeginGlobal, NextClass, TrainDone
<1>6. ASSUME NEW t \in Task, WorkerFails(t) PROVE UNCHANGED <<disk, ckptVars>>
  BY <1>6 DEF WorkerFails
<1>7. CASE Kill
  BY <1>7 DEF Kill
<1>8. CASE UNCHANGED vars
  BY <1>8 DEF vars, ckptVars
<1>9. QED
  BY <1>1, <1>2, <1>3, <1>4, <1>5, <1>6, <1>7, <1>8 DEF Next, Step

(* The one file a save is at, and what the step leaves of the others.       *)
LEMMA SaveStep ==
  ASSUME TypeOK, OpenFile \/ CloseFile
  PROVE  /\ Saving /\ pos <= Len(Order) /\ Order[pos] \in Files
         /\ pos \in 1 .. Len(Order) /\ cls \in Classes
         /\ \A c \in Classes, f \in Files :
              c # cls \/ f # Order[pos] => disk'[c][f] = disk[c][f]
         /\ OpenFile => disk'[cls][Order[pos]] = Torn
         /\ CloseFile => disk'[cls][Order[pos]] = key
         /\ UNCHANGED <<ckptVars, proc, at, key, cls, task, acc, generated, outcome>>
         /\ Order' = Order
<1>1. Saving /\ pos <= Len(Order)
  BY DEF OpenFile, CloseFile, TypeOK, OpenInOrder
<1>2. Order[pos] \in Files /\ pos \in Nat /\ pos >= 1
  BY <1>1, OrderInFiles, OrderFacts DEF TypeOK, ProcType
<1>3. Len(Order) \in Nat
  BY OrderFacts DEF Order
<1>4. /\ UNCHANGED <<ckptVars, proc, at, key, cls, task, acc, generated, outcome>>
      /\ Order' = Order
  BY DEF OpenFile, CloseFile, Order
<1>5. \A c \in Classes, f \in Files :
        c # cls \/ f # Order[pos] => disk'[c][f] = disk[c][f]
  BY <1>2 DEF OpenFile, CloseFile, TypeOK, StoreType, ProcType
<1>6. /\ OpenFile => disk'[cls][Order[pos]] = Torn
      /\ CloseFile => disk'[cls][Order[pos]] = key
  BY <1>2 DEF OpenFile, CloseFile, TypeOK, StoreType, ProcType
<1>7. QED BY <1>1, <1>2, <1>3, <1>4, <1>5, <1>6 DEF TypeOK, ProcType

(* No file that exists is ever removed, and only a save in progress in its  *)
(* own directory touches one.                                               *)
LEMMA NothingRemoved ==
  ASSUME KeyInv, [Next]_vars, NEW c \in Classes, NEW f \in Files,
         disk[c][f] # Absent
  PROVE  disk'[c][f] # Absent
<1>1. CASE OpenFile \/ CloseFile
  <2>1. key # Absent
    BY <1>1, HeldKey, ConstantFacts
       DEF OpenFile, CloseFile, Saving, KeyInv, Agreement
  <2>2. QED BY <1>1, <2>1, SaveStep, ConstantFacts DEF KeyInv
<1>2. CASE UNCHANGED disk
  BY <1>2
<1>3. QED
  BY <1>1, <1>2, StoreStep DEF SaveBias, SaveWeights

(* A checkpoint only ever goes from missing to complete.                    *)
LEMMA CheckpointsStay ==
  ASSUME KeyInv, [Next]_vars, NEW t \in Task
  PROVE  /\ bias[t] \in Key => bias'[t] \in Key
         /\ weights[t] \in Key => weights'[t] \in Key
<1>1. ASSUME NEW u \in Task, SaveBias(u) \/ SaveWeights(u)
      PROVE  /\ bias[t] \in Key => bias'[t] \in Key
             /\ weights[t] \in Key => weights'[t] \in Key
  <2>1. key \in Key
    BY <1>1, HeldKey DEF SaveBias, SaveWeights, MayTake, KeyInv, Agreement
  <2>2. QED
    BY <1>1, <2>1 DEF SaveBias, SaveWeights, KeyInv, TypeOK, StoreType
<1>2. CASE UNCHANGED ckptVars
  BY <1>2 DEF ckptVars
<1>3. QED
  BY <1>1, <1>2, StoreStep DEF OpenFile, CloseFile

(* A class that is complete stays so while nothing is saved in its          *)
(* directory.                                                               *)
LEMMA CompleteStays ==
  ASSUME KeyInv, [Next]_vars, NEW c \in Classes, Complete(c),
         ~(OpenFile \/ CloseFile) \/ c # cls
  PROVE  Complete(c)'
<1>1. \A f \in Files : disk'[c][f] = disk[c][f]
  BY StoreStep, SaveStep DEF SaveBias, SaveWeights, KeyInv
<1>2. \A i \in 0 .. NClients : <<c, i>> \in Task
  BY DEF Task
<1>3. QED
  BY <1>1, <1>2, CheckpointsStay DEF Complete, Whole

(* The steps that leave the store alone either give up the control state    *)
(* altogether, or take a key, or move train on in its loop.                 *)
Moves == \/ PrepareFresh \/ PoolLoad \/ TrainFresh
         \/ \E c \in Classes : TrainLoad(c)
         \/ BeginClass \/ TrainSavedContext \/ BeginGlobal \/ NextClass

LEMMA NextShape ==
  ASSUME [Next]_vars
  PROVE  \/ \E p : Launch(p) /\ UNCHANGED <<disk, ckptVars>>
         \/ OpenFile
         \/ CloseFile
         \/ \E t \in Task : Resume(t) \/ SaveBias(t) \/ SaveWeights(t)
                              \/ WorkerFails(t)
         \/ Moves
         \/ UNCHANGED vars
<1>1. CASE Start
  BY <1>1 DEF Start, Run
<1>2. CASE Prepare
  BY <1>2 DEF Prepare, PrepareReuse, PrepareRefuse, PrepareDone, End, Moves
<1>3. CASE Pool
  BY <1>3 DEF Pool, PoolDie, PoolSucceeds, PoolFails, End, Moves
<1>4. CASE Train
  BY <1>4 DEF Train, TrainUnloadable, TrainRefuse, TrainDone, End, Moves
<1>5. CASE Kill
  BY <1>5 DEF Kill, End
<1>6. QED BY <1>1, <1>2, <1>3, <1>4, <1>5 DEF Next, Step, Solve

(* A move begins a save, if any, at its first file and touches no store.    *)
LEMMA MoveFacts ==
  ASSUME Moves
  PROVE  /\ UNCHANGED <<disk, ckptVars, task, outcome>>
         /\ pos' = 1 /\ open' = FALSE
<1>1. CASE PrepareFresh \/ PoolLoad \/ TrainFresh
  BY <1>1 DEF PrepareFresh, PoolLoad, TrainFresh, Goto
<1>2. ASSUME NEW c \in Classes, TrainLoad(c)
      PROVE  /\ UNCHANGED <<disk, ckptVars, task, outcome>>
             /\ pos' = 1 /\ open' = FALSE
  BY <1>2 DEF TrainLoad, Goto
<1>3. CASE BeginClass \/ TrainSavedContext \/ BeginGlobal \/ NextClass
  BY <1>3 DEF BeginClass, TrainSavedContext, BeginGlobal, NextClass, Goto
<1>4. QED BY <1>1, <1>2, <1>3 DEF Moves

LEMMA WrittenNext == TreeInv /\ [Next]_vars => Written'
<1> SUFFICES ASSUME TreeInv, [Next]_vars PROVE Written'
  OBVIOUS
<1> USE DEF Whole
<1>1. ASSUME NEW p, Launch(p) PROVE Written'
  BY <1>1 DEF Launch, Goto, Written, Saving
<1>2. CASE OpenFile \/ CloseFile
  <2> DEFINE n == Len(Order)
  <2>1. \A i, j \in 1 .. n : Order[i] \in Files /\ (Order[i] = Order[j] => i = j)
    <3>1. CASE at = "context"
      <4>1. Order = ContextFiles
        BY <3>1 DEF Order
      <4>2. QED BY <4>1, OrderOnce, OrderFacts
    <3>2. CASE at # "context"
      <4>1. Order = GlobalFiles
        BY <3>2 DEF Order
      <4>2. QED BY <4>1, OrderOnce, OrderFacts
    <3>3. QED BY <3>1, <3>2
  <2>2. n \in Nat /\ pos \in 1 .. n /\ cls \in Classes /\ UNCHANGED <<at, cls, key>>
    BY <1>2, SaveStep, OrderFacts DEF Order, TreeInv, KeyInv
  <2>3. key \in Key
    BY <1>2, HeldKey, SaveStep DEF TreeInv, KeyInv, Agreement, Saving
  <2>4. \A i \in 1 .. pos - 1 : disk[cls][Order[i]] \in Key
    BY <1>2, SaveStep DEF TreeInv, KeyInv, Progress, Written
  <2>5. \A i \in 1 .. pos - 1 : disk'[cls][Order[i]] \in Key
    BY <1>2, <2>1, <2>2, <2>4, SaveStep DEF TreeInv, KeyInv
  <2>6. CASE OpenFile
    <3>1. pos' = pos /\ Order' = Order
      BY <2>6, SaveStep DEF OpenFile, TreeInv, KeyInv
    <3>2. QED BY <2>2, <2>5, <3>1 DEF Written
  <2>7. CASE CloseFile
    <3>1. pos' = pos + 1 /\ Order' = Order /\ disk'[cls][Order[pos]] \in Key
      BY <2>3, <2>7, SaveStep DEF CloseFile, TreeInv, KeyInv
    <3>2. QED BY <2>2, <2>5, <3>1 DEF Written
  <2>8. QED BY <1>2, <2>6, <2>7
<1>3. ASSUME NEW t \in Task,
             Resume(t) \/ SaveBias(t) \/ SaveWeights(t) \/ WorkerFails(t)
      PROVE  Written'
  BY <1>3 DEF Resume, SaveBias, SaveWeights, WorkerFails, MayTake, Written, Saving
<1>4. CASE Moves
  BY <1>4, MoveFacts DEF Written
<1>5. CASE UNCHANGED vars
  BY <1>5 DEF vars, procVars, TreeInv, Progress, Written, Saving, Order
<1>6. QED BY <1>1, <1>2, <1>3, <1>4, <1>5, NextShape

LEMMA CheckpointedNext == TreeInv /\ [Next]_vars => Checkpointed'
<1> SUFFICES ASSUME TreeInv, [Next]_vars, NEW t \in Task
             PROVE  /\ task'[t] \in {"saving", "done"} => bias'[t] \in Key
                    /\ task'[t] = "done" => weights'[t] \in Key
  BY DEF Checkpointed
<1> DEFINE Kept == /\ task'[t] \in {"saving", "done"} => bias'[t] \in Key
                   /\ task'[t] = "done" => weights'[t] \in Key
<1>1. /\ task[t] \in {"saving", "done"} => bias[t] \in Key
      /\ task[t] = "done" => weights[t] \in Key
  <2>1. Checkpointed
    BY DEF TreeInv, Progress
  <2>2. QED BY <2>1 DEF Checkpointed
<1>2. /\ bias[t] \in Key => bias'[t] \in Key
      /\ weights[t] \in Key => weights'[t] \in Key
  BY CheckpointsStay DEF TreeInv
<1>3. ASSUME task'[t] = task[t] PROVE Kept
  BY <1>1, <1>2, <1>3
<1>4. ASSUME NEW p, Launch(p) PROVE Kept
  BY <1>4 DEF Launch
<1>5. ASSUME NEW u \in Task,
             Resume(u) \/ SaveBias(u) \/ SaveWeights(u) \/ WorkerFails(u)
      PROVE  Kept
  <2>1. CASE t # u
    <3>1. task'[t] = task[t]
      BY <1>5, <2>1 DEF Resume, SaveBias, SaveWeights, WorkerFails, TreeInv,
                        KeyInv, TypeOK, ProcType
    <3>2. QED BY <3>1, <1>3
  <2>2. CASE t = u /\ Resume(u)
    BY <2>2, <1>2 DEF Resume, CtsExist, TreeInv, KeyInv, TypeOK, StoreType, ProcType
  <2>3. CASE t = u /\ (SaveBias(u) \/ SaveWeights(u))
    <3>1. key \in Key
      BY <2>3, HeldKey DEF SaveBias, SaveWeights, MayTake, TreeInv, KeyInv, Agreement
    <3>2. QED
      BY <2>3, <3>1, <1>1 DEF SaveBias, SaveWeights, TreeInv, KeyInv, TypeOK,
                              StoreType, ProcType
  <2>4. CASE t = u /\ WorkerFails(u)
    BY <2>4 DEF WorkerFails, TreeInv, KeyInv, TypeOK, ProcType
  <2>5. QED BY <1>5, <2>1, <2>2, <2>3, <2>4
<1>6. CASE OpenFile \/ CloseFile \/ Moves \/ UNCHANGED vars
  BY <1>3, <1>6, MoveFacts DEF OpenFile, CloseFile, vars, procVars
<1>7. QED BY <1>4, <1>5, <1>6, NextShape

(* When the save of a global model has come to its end, the class has all   *)
(* its files and checkpoints.                                               *)
LEMMA ClassFinished ==
  ASSUME TreeInv, Saved("global")
  PROVE  proc = "train" /\ Complete(cls)
<1>1. /\ proc = "train" /\ Whole(cls, "marker") /\ Saving
      /\ \A i \in 0 .. NClients : task[<<cls, i>>] = "done"
  BY DEF Saved, Saving, TreeInv, Progress, InLoop
<1>2. \A i \in 1 .. 10 : Whole(cls, GlobalFiles[i])
  <2>1. Order = GlobalFiles
    BY DEF Saved, Order
  <2>2. pos > 10 /\ pos \in Nat
    BY <2>1, OrderFacts DEF Saved, TreeInv, KeyInv, TypeOK, ProcType
  <2>3. QED BY <1>1, <2>1, <2>2 DEF TreeInv, Progress, Written
<1>3. \A f \in Files : Whole(cls, f)
  BY <1>1, <1>2, GlobalCovers
<1>4. \A i \in 0 .. NClients : <<cls, i>> \in Task
  BY DEF Task, TreeInv, KeyInv, TypeOK, ProcType
<1>5. Checkpointed
  BY DEF TreeInv, Progress
<1>6. QED BY <1>1, <1>3, <1>4, <1>5 DEF Complete, Checkpointed

(* When the save of a class context has come to its end, so has its marker. *)
LEMMA MarkerWritten ==
  ASSUME TreeInv, Saved("context")
  PROVE  Whole(cls, "marker")
<1>1. Saving /\ Order = ContextFiles
  BY DEF Saved, Saving, Order
<1>2. pos > 5 /\ pos \in Nat
  BY <1>1, OrderFacts DEF Saved, TreeInv, KeyInv, TypeOK, ProcType
<1>3. ContextFiles[4] = "marker"
  BY DEF ContextFiles
<1>4. QED BY <1>1, <1>2, <1>3 DEF TreeInv, Progress, Written

LEMMA InLoopNext == TreeInv /\ [Next]_vars => InLoop'
<1> SUFFICES ASSUME TreeInv, [Next]_vars PROVE InLoop'
  OBVIOUS
<1> USE DEF TreeInv
<1>1. InLoop /\ KeyInv
  BY DEF Progress
<1>2. cls \in Classes /\ cls \in Nat /\ \A c \in 0 .. cls - 1 : c \in Classes /\ c # cls
  BY <1>1, ContextAssumption DEF KeyInv, TypeOK, ProcType, Classes
<1>3. ASSUME NEW p, Launch(p) PROVE InLoop'
  BY <1>3 DEF Launch, Goto, InLoop
<1>4. CASE OpenFile \/ CloseFile
  <2>1. /\ UNCHANGED <<proc, at, cls, task>>
        /\ pos \in 1 .. Len(Order)
        /\ \A f \in Files : f # Order[pos] => disk'[cls][f] = disk[cls][f]
    BY <1>1, <1>2, <1>4, SaveStep DEF KeyInv
  <2>2. \A c \in 0 .. cls - 1 : Complete(c) => Complete(c)'
    BY <1>1, <1>2, CompleteStays
  <2>3. at = "global" => (Whole(cls, "marker") => Whole(cls, "marker")')
    BY <2>1, OrderOnce, OrderFacts DEF Order, Files, Whole
  <2>4. at # "solve"
    BY <1>4 DEF OpenFile, CloseFile, KeyInv, TypeOK, OpenInOrder, Saving
  <2>5. QED BY <1>1, <2>1, <2>2, <2>3, <2>4 DEF InLoop
<1>5. ASSUME NEW t \in Task,
             Resume(t) \/ SaveBias(t) \/ SaveWeights(t) \/ WorkerFails(t)
      PROVE  InLoop'
  <2>1. at = "solve" /\ UNCHANGED <<disk, proc, at, cls>>
    BY <1>5 DEF Resume, SaveBias, SaveWeights, WorkerFails, MayTake
  <2>2. \A c \in 0 .. cls - 1 : Complete(c) => Complete(c)'
    BY <1>1, <1>2, <2>1, CompleteStays DEF OpenFile, CloseFile, KeyInv, TypeOK,
                                           OpenInOrder, Saving
  <2>3. QED BY <1>1, <2>1, <2>2 DEF InLoop, Whole
<1>6. CASE Moves
  <2>1. \A c \in Classes : Complete(c)' <=> Complete(c)
    BY <1>6, MoveFacts DEF Complete, Whole, ckptVars
  <2>2. \A c \in Classes, f \in Files : Whole(c, f)' <=> Whole(c, f)
    BY <1>6, MoveFacts DEF Whole
  <2>3. CASE PrepareFresh \/ PoolLoad \/ TrainFresh \/ \E c \in Classes : TrainLoad(c)
    <3>1. cls' = 0 /\ at' \in {"context", "solve", "class"}
          /\ (at' = "solve" => proc' = "pool")
      BY <2>3 DEF PrepareFresh, PoolLoad, TrainFresh, TrainLoad, Goto
    <3>2. QED BY <3>1 DEF InLoop
  <2>4. CASE BeginClass
    BY <1>1, <1>2, <2>1, <2>2, <2>4 DEF BeginClass, Goto, InLoop, ContextExists, Files
  <2>5. CASE TrainSavedContext
    BY <1>1, <1>2, <2>1, <2>2, <2>5, MarkerWritten
       DEF TrainSavedContext, Saved, Goto, InLoop, Files
  <2>6. CASE BeginGlobal
    BY <1>1, <1>2, <2>1, <2>2, <2>6 DEF BeginGlobal, Goto, InLoop, Files
  <2>7. CASE NextClass
    <3>1. Complete(cls) /\ at = "global" /\ cls' = cls + 1 /\ proc' = "train" /\ at' = "class"
      BY <2>7, ClassFinished DEF NextClass, Saved, Goto
    <3>2. \A c \in 0 .. cls : Complete(c)
      BY <1>1, <1>2, <3>1, <2>7 DEF InLoop, NextClass
    <3>3. \A c \in 0 .. cls' - 1 : Complete(c)'
      BY <1>2, <2>1, <3>1, <3>2
    <3>4. QED BY <3>1, <3>3 DEF InLoop
  <2>8. QED BY <1>6, <2>3, <2>4, <2>5, <2>6, <2>7 DEF Moves
<1>7. CASE UNCHANGED vars
  BY <1>1, <1>7 DEF vars, procVars, InLoop, Complete, Whole
<1>8. QED BY <1>3, <1>4, <1>5, <1>6, <1>7, NextShape

(* A run reports success only at the end of its last class, and until the   *)
(* next command nothing happens to what it left.                            *)
LEMMA EndedNext == TreeInv /\ [Next]_vars => Ended' /\ DoneIsComplete'
<1> SUFFICES ASSUME TreeInv, [Next]_vars, outcome' = "done"
             PROVE  /\ proc' = "none" /\ at' = "start"
                    /\ \A c \in Classes : Complete(c)'
  BY DEF Ended, DoneIsComplete
<1>1. CASE outcome = "done"
  <2>1. /\ proc = "none" /\ at = "start"
        /\ \A c \in Classes : Complete(c)
    BY <1>1 DEF TreeInv, Progress, Ended, DoneIsComplete
  <2>2. CASE Start
    BY <2>2 DEF Start, Run
  <2>3. CASE UNCHANGED vars
    BY <2>1, <2>3 DEF vars, procVars, Complete, Whole
  <2>4. ~(Step \/ Kill \/ \E t \in Task : WorkerFails(t))
    <3>1. ~(Prepare \/ Pool)
      BY <2>1 DEF Prepare, PrepareReuse, PrepareFresh, PrepareRefuse, PrepareDone,
                  Pool, PoolLoad, PoolDie, PoolSucceeds, PoolFails
    <3>2. ~(OpenFile \/ CloseFile \/ Solve)
      BY <2>1 DEF OpenFile, CloseFile, Saving, Solve, Resume, SaveBias,
                  SaveWeights, MayTake
    <3>3. ~Train
      BY <2>1 DEF Train, TrainLoad, TrainUnloadable, TrainFresh, TrainRefuse,
                  BeginClass, TrainSavedContext, BeginGlobal, NextClass, TrainDone
    <3>4. QED BY <2>1, <3>1, <3>2, <3>3 DEF Step, Kill, WorkerFails
  <2>5. QED BY <2>2, <2>3, <2>4 DEF Next
<1>2. CASE outcome # "done"
  <2>1. TrainDone
    <3>1. ~(Start \/ Prepare \/ Pool)
      BY <1>2 DEF Start, Run, End,
                  Prepare, PrepareReuse, PrepareFresh, PrepareRefuse, PrepareDone,
                  Pool, PoolLoad, PoolDie, PoolSucceeds, PoolFails
    <3>2. ~(OpenFile \/ CloseFile \/ Solve)
      BY <1>2 DEF OpenFile, CloseFile, Solve, Resume, SaveBias, SaveWeights
    <3>3. Train => TrainDone
      BY <1>2 DEF Train, TrainLoad, TrainUnloadable, TrainFresh, TrainRefuse, End,
                  BeginClass, TrainSavedContext, BeginGlobal, NextClass
    <3>4. ~(Kill \/ \E t \in Task : WorkerFails(t))
      BY <1>2 DEF Kill, End, WorkerFails
    <3>5. ~UNCHANGED vars
      BY <1>2 DEF vars
    <3>6. QED BY <3>1, <3>2, <3>3, <3>4, <3>5 DEF Next, Step
  <2>2. Complete(cls) /\ \A c \in 0 .. cls - 1 : Complete(c)
    BY <2>1, ClassFinished DEF TrainDone, Saved, TreeInv, Progress, InLoop
  <2>3. \A c \in Classes : c \in 0 .. cls - 1 \/ c = cls
    BY <2>1, ContextAssumption DEF TrainDone, Classes, TreeInv, KeyInv, TypeOK, ProcType
  <2>4. \A c \in Classes : Complete(c)
    BY <2>2, <2>3
  <2>5. UNCHANGED <<disk, ckptVars>> /\ proc' = "none" /\ at' = "start"
    BY <2>1 DEF TrainDone, End, Launch, Goto
  <2>6. QED BY <2>4, <2>5 DEF Complete, Whole, ckptVars
<1>3. QED BY <1>1, <1>2

(* The classes are filled one after the other.                              *)
LEMMA LayeredNext == TreeInv /\ [Next]_vars => Layered'
<1> SUFFICES ASSUME TreeInv, [Next]_vars, NEW c \in Classes,
                    disk'[c]["phi_mean"] # Absent
             PROVE  /\ \A f \in {"checkpoint", "public_key", "security"} :
                         disk'[c][f] # Absent
                    /\ \A b \in 0 .. c - 1 : disk'[b]["threshold"] # Absent
  BY DEF Layered
<1>1. KeyInv /\ \A b \in 0 .. c - 1 : b \in Classes
  BY ContextAssumption DEF TreeInv, Classes
<1>2. SUFFICES /\ \A f \in {"checkpoint", "public_key", "security"} :
                    disk[c][f] # Absent
               /\ \A b \in 0 .. c - 1 : disk[b]["threshold"] # Absent
  BY <1>1, NothingRemoved DEF Files
<1>3. CASE disk[c]["phi_mean"] # Absent
  BY <1>3 DEF TreeInv, Layered
<1>4. CASE disk[c]["phi_mean"] = Absent
  <2>1. OpenFile \/ CloseFile
    BY <1>4, StoreStep DEF SaveBias, SaveWeights
  <2>2. c = cls /\ Order[pos] = "phi_mean" /\ pos \in 1 .. Len(Order) /\ Saving
    BY <1>1, <1>4, <2>1, SaveStep DEF KeyInv, Files
  <2>3. at = "global"
    <3>1. CASE at = "context"
      <4>1. Order = ContextFiles
        BY <3>1 DEF Order
      <4>2. QED BY <2>2, <4>1, OrderOnce, OrderFacts
    <3>2. QED BY <2>2, <3>1 DEF Saving
  <2>4. Order = GlobalFiles
    BY <2>3 DEF Order
  <2>5. pos = 9
    BY <2>2, <2>4, OrderOnce, OrderFacts
  <2>6. \A i \in 1 .. 8 : Whole(cls, GlobalFiles[i])
    BY <2>2, <2>4, <2>5 DEF TreeInv, Progress, Written
  <2>7. \A f \in {"checkpoint", "public_key", "security"} : Whole(c, f)
    BY <2>2, <2>6, OrderOnce
  <2>8. \A b \in 0 .. c - 1 : Complete(b)
    BY <2>2, <2>3 DEF TreeInv, Progress, InLoop
  <2>9. QED BY <2>7, <2>8, ConstantFacts DEF Complete, Whole, Files
<1>5. QED BY <1>3, <1>4

(* A complete marker is never written again.                                *)
LEMMA MarkerStays ==
  ASSUME TreeInv, [Next]_vars, NEW c \in Classes, Whole(c, "marker")
  PROVE  Whole(c, "marker")'
<1>1. CASE OpenFile \/ CloseFile
  <2>1. CASE c = cls /\ Order[pos] = "marker"
    <3>1. pos \in 1 .. Len(Order) /\ Saving
      BY <1>1, SaveStep DEF TreeInv, KeyInv
    <3>2. CASE at = "context"
      <4>1. Order = ContextFiles
        BY <3>2 DEF Order
      <4>2. pos = 4
        BY <2>1, <3>1, <4>1, OrderOnce, OrderFacts
      <4>3. QED BY <2>1, <3>2, <4>2 DEF TreeInv, FirstOpens
    <3>3. CASE at # "context"
      <4>1. Order = GlobalFiles
        BY <3>3 DEF Order
      <4>2. QED BY <2>1, <3>1, <4>1, OrderOnce, OrderFacts
    <3>4. QED BY <3>2, <3>3
  <2>2. CASE c # cls \/ Order[pos] # "marker"
    BY <1>1, <2>2, SaveStep DEF TreeInv, KeyInv, Whole, Files
  <2>3. QED BY <2>1, <2>2
<1>2. CASE UNCHANGED disk
  BY <1>2 DEF Whole
<1>3. QED BY <1>1, <1>2, StoreStep DEF SaveBias, SaveWeights

(* A fresh key meets an empty tree.                                         *)
LEMMA FreshFindsNothing ==
  ASSUME TreeInv, SafeToCreate
  PROVE  Empty
BY DEF TreeInv, KeyInv, Agreement, Anchored, SomeContextFile, SafeToCreate

LEMMA FirstOpensNext == TreeInv /\ [Next]_vars => FirstOpens'
<1> SUFFICES ASSUME TreeInv, [Next]_vars PROVE FirstOpens'
  OBVIOUS
<1>1. KeyInv /\ InLoop /\ FirstOpens /\ cls \in Classes /\ 0 \in Classes
  BY ConstantFacts DEF TreeInv, Progress, KeyInv, TypeOK, ProcType
<1>2. ASSUME NEW c \in Classes \ {0}, disk'[c]["cryptocontext"] # Absent
      PROVE  Whole(0, "marker")'
  <2>1. Whole(0, "marker")
    <3>1. CASE disk[c]["cryptocontext"] # Absent
      BY <1>1, <3>1 DEF FirstOpens
    <3>2. CASE disk[c]["cryptocontext"] = Absent
      <4>1. OpenFile \/ CloseFile
        BY <1>2, <3>2, StoreStep DEF SaveBias, SaveWeights
      <4>2. c = cls
        BY <1>1, <1>2, <3>2, <4>1, SaveStep DEF KeyInv, Files
      <4>3. cls > 0 /\ cls \in Nat
        BY <1>1, <1>2, <4>2, ConstantFacts
      <4>4. Complete(0)
        BY <1>1, <4>3 DEF InLoop
      <4>5. QED BY <4>4 DEF Complete, Files
    <3>3. QED BY <3>1, <3>2
  <2>2. QED BY <1>1, <2>1, MarkerStays
<1> DEFINE Begins == /\ at' = "context" /\ pos' <= 4 => ~Whole(cls, "marker")'
                     /\ cls' = 0 /\ (at' = "class" \/ (at' = "context" /\ pos' = 1 /\ ~open'))
                          => Whole(0, "marker")' \/ Empty'
<1>3. SUFFICES Begins
  BY <1>2 DEF FirstOpens
<1>4. ASSUME NEW p, Launch(p) PROVE Begins
  BY <1>4 DEF Launch, Goto
<1>5. CASE OpenFile \/ CloseFile
  <2>1. /\ UNCHANGED <<at, cls>> /\ Saving /\ pos \in 1 .. Len(Order)
        /\ OpenFile => open' = TRUE /\ pos' = pos
        /\ CloseFile => pos' = pos + 1
    BY <1>1, <1>5, SaveStep DEF KeyInv, OpenFile, CloseFile
  <2>2. ASSUME at = "context", pos' <= 4 PROVE ~Whole(cls, "marker")'
    <3>1. Order = ContextFiles
      BY <2>2 DEF Order
    <3>2. pos \in 1 .. 5 /\ (Order[pos] = "marker" <=> pos = 4)
      BY <2>1, <3>1, OrderOnce, OrderFacts
    <3>3. pos <= 4 /\ (CloseFile => pos # 4)
      BY <1>5, <2>1, <2>2, <3>2
    <3>4. ~Whole(cls, "marker")
      BY <1>1, <2>2, <3>3 DEF FirstOpens
    <3>5. CASE pos = 4
      BY <1>1, <1>5, <2>1, <3>2, <3>3, <3>5, SaveStep, ConstantFacts DEF Whole, KeyInv
    <3>6. CASE pos # 4
      BY <1>1, <1>5, <2>1, <3>2, <3>4, <3>6, SaveStep DEF Whole, KeyInv, Files
    <3>7. QED BY <3>5, <3>6
  <2>3. ~(at' = "class" \/ (at' = "context" /\ pos' = 1 /\ ~open'))
    BY <1>5, <2>1 DEF Saving
  <2>4. QED BY <2>1, <2>2, <2>3
<1>6. ASSUME NEW t \in Task,
             Resume(t) \/ SaveBias(t) \/ SaveWeights(t) \/ WorkerFails(t)
      PROVE  Begins
  BY <1>6 DEF Resume, SaveBias, SaveWeights, WorkerFails, MayTake
<1>7. CASE Moves
  <2>1. /\ UNCHANGED <<disk, ckptVars>>
        /\ \A c \in Classes, f \in Files : Whole(c, f)' <=> Whole(c, f)
        /\ Empty' <=> Empty
    BY <1>7, MoveFacts, StoreSame DEF Whole
  <2>2. CASE PrepareFresh \/ TrainFresh
    <3>1. Empty /\ cls' = 0
      BY <2>2, FreshFindsNothing DEF PrepareFresh, TrainFresh, FreshKey, Goto
    <3>2. ~Whole(0, "marker")
      BY <1>1, <3>1, ConstantFacts DEF Empty, Whole, Files
    <3>3. QED BY <1>1, <2>1, <3>1, <3>2 DEF Files
  <2>3. ASSUME NEW c \in Classes, TrainLoad(c) PROVE Begins
    <3>1. Whole(c, "marker") /\ Whole(c, "cryptocontext") /\ at' = "class"
      BY <2>3 DEF TrainLoad, IsExistingDir, Usable, Matches, ContextExists, Loadable, Goto
    <3>2. Whole(0, "marker")
      BY <1>1, <3>1, ConstantFacts DEF FirstOpens, Whole
    <3>3. QED BY <1>1, <2>1, <3>1, <3>2 DEF Files
  <2>4. CASE BeginClass
    <3>1. at' = "context" => ~Whole(cls, "marker")
      BY <2>4 DEF BeginClass, Goto, ContextExists
    <3>2. at = "class" /\ cls' = cls /\ at' # "class"
      BY <2>4 DEF BeginClass, Goto
    <3>3. QED BY <1>1, <2>1, <3>1, <3>2 DEF FirstOpens, Files
  <2>5. CASE PoolLoad \/ TrainSavedContext \/ BeginGlobal
    BY <2>5 DEF PoolLoad, TrainSavedContext, BeginGlobal, Goto
  <2>6. CASE NextClass
    BY <1>1, <2>6, ConstantFacts DEF NextClass, Goto
  <2>7. QED BY <1>7, <2>2, <2>3, <2>4, <2>5, <2>6 DEF Moves
<1>8. CASE UNCHANGED vars
  BY <1>1, <1>8, StoreSame DEF vars, procVars, ckptVars, FirstOpens, Whole
<1>9. QED BY <1>4, <1>5, <1>6, <1>7, <1>8, NextShape

LEMMA TreeInit == Init => TreeInv
<1> SUFFICES ASSUME Init PROVE TreeInv
  OBVIOUS
<1>1. KeyInv
  BY KeyInit
<1>2. Progress
  BY DEF Init, Progress, Written, Saving, Checkpointed, InLoop, Ended, DoneIsComplete
<1>3. Layered /\ FirstOpens
  BY DEF Init, Layered, FirstOpens, Files
<1>4. QED BY <1>1, <1>2, <1>3 DEF TreeInv

(* The invariant behind the next two theorems: what the running process has *)
(* really written, and how the tree is layered, whatever was interrupted.   *)
THEOREM TreeInvariance == Spec => []TreeInv
<1>1. TreeInv /\ [Next]_vars => TreeInv'
  BY KeyNext, WrittenNext, CheckpointedNext, InLoopNext, EndedNext, LayeredNext,
     FirstOpensNext DEF TreeInv, Progress
<1>2. QED BY <1>1, TreeInit, PTL DEF Spec

(* Success is not reported while a class lacks a file or a checkpoint, or   *)
(* has a truncated one left by an earlier interruption.                     *)
THEOREM SuccessLeavesEverything == Spec => []DoneIsComplete
<1>1. TreeInv => DoneIsComplete
  BY DEF TreeInv, Progress
<1>2. QED BY <1>1, TreeInvariance, PTL

(* What infer.py may count on in a class from the moment it finds phi_mean, *)
(* and which of it stays: no step takes a file away.                        *)
Present(c) == disk[c]["phi_mean"] # Absent
Served(c) == /\ \A f \in Optional \ {"threshold"} : disk[c][f] # Absent
             /\ \A d \in 0 .. c - 1 : disk[d]["threshold"] # Absent

(* What infer.py does without is, once it has found phi_mean.npy, missing   *)
(* at no later moment, but the threshold of a class whose successor is not  *)
(* there yet: whatever writes beside it, and wherever that is interrupted.  *)
THEOREM InferReadsWholeModels == Spec => InferReadsItsModel
<1>1. ASSUME NEW c \in Classes PROVE Spec => [](CanScore(c) => []Served(c))
  <2>1. CanScore(c) => Present(c)
    BY ConstantFacts DEF CanScore, Present, Whole
  <2>2. TreeInv /\ Present(c) => Served(c)
    BY DEF TreeInv, Layered, Present, Served, Optional
  <2>3. TreeInv /\ Present(c) /\ [Next]_vars => Present(c)'
    BY NothingRemoved DEF TreeInv, Present, Files
  <2>4. QED BY <2>1, <2>2, <2>3, TreeInvariance, PTL DEF Spec
<1>2. QED BY <1>1 DEF InferReadsItsModel, Served

-----------------------------------------------------------------------------
(* SharedContext implements KeyCustody.  Owners under the refinement        *)
(* mapping: whatever is complete on disk.                                   *)
OnFile(x) == \/ \E c \in Classes, f \in Files : x = disk[c][f]
             \/ \E t \in Task : x = bias[t] \/ x = weights[t]

LEMMA OnDiskIs == \A x : x \in OnDisk <=> OnFile(x)
<1>1. ASSUME NEW x \in OnDisk PROVE OnFile(x)
  BY OnDiskFacts DEF OnFile
<1>2. \A x : OnFile(x) => x \in OnDisk
  BY DEF OnFile, OnDisk
<1>3. QED BY <1>1, <1>2

(* The same of the next state.                                              *)
LEMMA OnDiskIsNext == (\A x : x \in OnDisk <=> OnFile(x))'
BY OnDiskIs, PTL

LEMMA OwnersUnder ==
  ASSUME NEW k \in Key, Under(k)
  PROVE  Owners \subseteq {k}
<1>1. \A x \in OnDisk : x \in {Absent, Torn, k}
  BY OnDiskIs DEF OnFile, Under
<1>2. QED BY <1>1, ConstantFacts DEF Owners

LEMMA NobodyOwnsNothing ==
  ASSUME Owners = {}
  PROVE  /\ \A c \in Classes, f \in Files : ~Whole(c, f)
         /\ \A t \in Task : bias[t] \notin Key /\ weights[t] \notin Key
BY OnDiskIs DEF OnFile, Owners, Whole

(* The sub-problems with a complete checkpoint.                             *)
Pairs == {t \in Task : bias[t] \in Key /\ weights[t] \in Key}

(* Whatever a save truncates, something complete stays beside it.           *)
LEMMA Survivor ==
  ASSUME TreeInv, OpenFile, Owners # {}
  PROVE  Owners' # {}
<1>1. ASSUME NEW c \in Classes, NEW f \in Files, Whole(c, f),
             c # cls \/ f # Order[pos]
      PROVE  Owners' # {}
  <2>1. disk'[c][f] = disk[c][f]
    BY <1>1, SaveStep DEF TreeInv, KeyInv
  <2>2. disk'[c][f] \in OnDisk'
    BY OnDiskIsNext DEF OnFile
  <2>3. QED BY <1>1, <2>1, <2>2 DEF Whole, Owners
<1>2. /\ Saving /\ ~open /\ pos \in 1 .. Len(Order) /\ cls \in Classes
      /\ Order[pos] \in Files
  BY SaveStep DEF TreeInv, KeyInv, OpenFile
<1>3. CASE pos > 1
  <2>1. pos - 1 \in 1 .. Len(Order) /\ pos - 1 # pos /\ Len(Order) \in Nat
    BY <1>2, <1>3, OrderFacts DEF Order
  <2>2. Order[pos - 1] \in Files /\ Order[pos - 1] # Order[pos]
    <3>1. CASE at = "context"
      <4>1. Order = ContextFiles
        BY <3>1 DEF Order
      <4>2. QED BY <1>2, <2>1, <4>1, OrderOnce, OrderFacts
    <3>2. CASE at # "context"
      <4>1. Order = GlobalFiles
        BY <3>2 DEF Order
      <4>2. QED BY <1>2, <2>1, <4>1, OrderOnce, OrderFacts
    <3>3. QED BY <3>1, <3>2
  <2>3. Whole(cls, Order[pos - 1])
    BY <1>2, <1>3, <2>1 DEF TreeInv, Progress, Written
  <2>4. QED BY <1>1, <1>2, <2>2, <2>3
<1>4. CASE pos = 1
  <2>1. Order[pos] = "cryptocontext"
    BY <1>2, <1>4, OrderInFiles DEF TreeInv, KeyInv
  <2>2. CASE at = "global"
    <3>1. Whole(cls, "marker")
      BY <2>2 DEF TreeInv, Progress, InLoop
    <3>2. QED BY <1>1, <1>2, <2>1, <3>1 DEF Files
  <2>3. CASE at = "context" /\ cls = 0
    <3>1. Empty
      BY <1>2, <1>4, <2>3 DEF TreeInv, FirstOpens
    <3>2. \A x \in OnDisk : x = Absent
      BY <3>1, OnDiskFacts DEF Empty
    <3>3. QED BY <3>2, ConstantFacts DEF Owners
  <2>4. CASE at = "context" /\ cls # 0
    <3>1. Complete(0) /\ 0 \in Classes
      BY <1>2, <2>4, ConstantFacts DEF TreeInv, Progress, InLoop
    <3>2. QED BY <1>1, <2>4, <3>1 DEF Complete, Files
  <2>5. QED BY <1>2, <2>2, <2>3, <2>4 DEF Saving
<1>5. QED BY <1>2, <1>3, <1>4

(* The owner never changes, and a step that finds the tree unowned does not *)
(* complete a checkpoint.                                                   *)
LEMMA OwnersStep ==
  ASSUME TreeInv, TreeInv', [Next]_vars
  PROVE  \/ Owners' = Owners
         \/ /\ Owners = {} /\ Pairs' = Pairs
            /\ \E k \in Key : Owners' = {k}
<1>1. CASE UNCHANGED <<disk, ckptVars>>
  BY <1>1 DEF Owners, OnDisk, ckptVars
<1>2. ASSUME OpenFile \/ CloseFile \/ \E t \in Task : SaveBias(t) \/ SaveWeights(t)
      PROVE  /\ key \in Key /\ Owners \subseteq {key} /\ Owners' \subseteq {key}
             /\ key' = key
  <2>1. at # "start" /\ at' = at /\ key' = key
    BY <1>2 DEF OpenFile, CloseFile, Saving, SaveBias, SaveWeights, MayTake
  <2>2. key \in Key /\ Under(key) /\ Owners \subseteq {key}
    BY <2>1, HeldKey, OwnersUnder DEF TreeInv, KeyInv, Agreement
  <2>3. Under(key)'
    BY <2>1 DEF TreeInv, KeyInv, Agreement, HoldsKey
  <2>4. \A x \in OnDisk' : x \in {Absent, Torn, key}
    BY <2>1, <2>3, OnDiskIsNext DEF OnFile, Under
  <2>5. QED BY <2>1, <2>2, <2>4, ConstantFacts DEF Owners
<1>3. CASE OpenFile
  <2>1. ASSUME Owners = {} PROVE Owners' = {}
    <3>1. \A c \in Classes, f \in Files : disk'[c][f] \notin Key
      BY <1>3, <2>1, SaveStep, NobodyOwnsNothing, ConstantFacts
         DEF TreeInv, KeyInv, Whole
    <3>2. \A t \in Task : bias'[t] \notin Key /\ weights'[t] \notin Key
      BY <1>3, <2>1, NobodyOwnsNothing DEF OpenFile, ckptVars
    <3>3. \A x \in OnDisk' : x \notin Key
      BY <3>1, <3>2, OnDiskIsNext DEF OnFile
    <3>4. QED BY <3>3 DEF Owners
  <2>2. QED BY <1>2, <1>3, <2>1, Survivor
<1>4. CASE CloseFile
  <2>1. key \in Owners'
    BY <1>2, <1>4, SaveStep, OnDiskIsNext DEF TreeInv, KeyInv, Owners, OnFile
  <2>2. Pairs' = Pairs
    BY <1>4 DEF CloseFile, Pairs, ckptVars
  <2>3. QED BY <1>2, <1>4, <2>1, <2>2
<1>5. ASSUME NEW t \in Task, SaveBias(t) \/ SaveWeights(t)
      PROVE  \/ Owners' = Owners
             \/ /\ Owners = {} /\ Pairs' = Pairs
                /\ \E k \in Key : Owners' = {k}
  <2>1. bias'[t] = key \/ weights'[t] = key
    BY <1>5 DEF SaveBias, SaveWeights, TreeInv, KeyInv, TypeOK, StoreType
  <2>2. key \in Owners'
    BY <1>2, <1>5, <2>1, OnDiskIsNext DEF Owners, OnFile
  <2>3. ASSUME Owners = {} PROVE Pairs' = Pairs
    <3>1. SaveBias(t)
      BY <1>5, <2>3, NobodyOwnsNothing
         DEF SaveWeights, TreeInv, Progress, Checkpointed
    <3>2. QED BY <2>3, <3>1, NobodyOwnsNothing DEF SaveBias, Pairs
  <2>4. QED BY <1>2, <1>5, <2>2, <2>3
<1>6. QED BY <1>1, <1>3, <1>4, <1>5, StoreStep

(* A step gives at most one sub-problem its checkpoint and takes none.      *)
LEMMA PairsStep ==
  ASSUME TreeInv, [Next]_vars
  PROVE  \/ Pairs' = Pairs
         \/ /\ Owners # {}
            /\ \E t \in Task : t \notin Pairs /\ Pairs' = Pairs \cup {t}
<1>1. CASE UNCHANGED ckptVars
  BY <1>1 DEF Pairs, ckptVars
<1>2. ASSUME NEW t \in Task, SaveBias(t) \/ SaveWeights(t)
      PROVE  \/ Pairs' = Pairs
             \/ /\ Owners # {}
                /\ \E u \in Task : u \notin Pairs /\ Pairs' = Pairs \cup {u}
  <2>1. \A u \in Task : u # t => bias'[u] = bias[u] /\ weights'[u] = weights[u]
    BY <1>2 DEF SaveBias, SaveWeights, TreeInv, KeyInv, TypeOK, StoreType
  <2>2. Pairs \subseteq Pairs'
    BY CheckpointsStay DEF Pairs, TreeInv
  <2>3. Pairs' \subseteq Pairs \cup {t}
    BY <2>1 DEF Pairs
  <2>4. ASSUME Owners = {} PROVE Pairs' = Pairs
    <3>1. SaveBias(t)
      BY <1>2, <2>4, NobodyOwnsNothing
         DEF SaveWeights, TreeInv, Progress, Checkpointed
    <3>2. QED BY <2>4, <3>1, NobodyOwnsNothing DEF SaveBias, Pairs
  <2>5. QED BY <2>2, <2>3, <2>4
<1>3. QED BY <1>1, <1>2, StoreStep DEF OpenFile, CloseFile

(* The directory has at most one owner, for ever, and a sub-problem that    *)
(* has a checkpoint never loses it: SharedContext implements KeyCustody.    *)
THEOREM CustodyIsKept == Spec => KeepsCustody
<1>1. Init => Custody!CustodyInit
  <2> SUFFICES ASSUME Init PROVE Owners = {} /\ Pairs = {}
    BY DEF Custody!CustodyInit, Pairs
  <2>1. Empty
    BY DEF Init, Empty
  <2>2. \A x \in OnDisk : x = Absent
    BY <2>1, OnDiskFacts DEF Empty
  <2>3. QED BY <2>1, <2>2, ConstantFacts DEF Owners, Pairs, Empty
<1>2. TreeInv /\ TreeInv' /\ [Next]_vars => [Custody!CustodyNext]_(Custody!custodyVars)
  <2> SUFFICES ASSUME TreeInv, TreeInv', [Next]_vars
               PROVE  \/ Custody!CustodyNext
                      \/ Owners' = Owners /\ Pairs' = Pairs
    BY DEF Custody!custodyVars, Pairs
  <2>1. ASSUME Owners = {}, Pairs' = Pairs, NEW k \in Key, Owners' = {k}
        PROVE  Custody!Adopt
    BY <2>1 DEF Custody!Adopt, Pairs
  <2>2. ASSUME NEW t \in Task, Owners # {}, Owners' = Owners, t \notin Pairs,
               Pairs' = Pairs \cup {t}
        PROVE  Custody!Checkpoint(t)
    BY <2>2 DEF Custody!Checkpoint, Pairs
  <2>3. QED
    BY <2>1, <2>2, OwnersStep, PairsStep DEF Custody!CustodyNext
<1>3. QED BY <1>1, <1>2, TreeInvariance, PTL DEF Spec, KeepsCustody, Custody!CustodySpec
=============================================================================
