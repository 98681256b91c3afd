--------------------------- MODULE TaskQueueProofs ---------------------------
(***************************************************************************)
(* Proofs about TaskQueue, for any number of workers, callers and tasks.   *)
(* The inductive invariant is Inv below: typing, the mutex discipline, the *)
(* two facts about waiting, the order of the list, and Ownership, which    *)
(* says where each task that left the list is.                             *)
(***************************************************************************)
EXTENDS TaskQueue, SequenceLemmas

(* The list is a queue, and what is done with it is written out below.     *)
USE DEF Push, Woken, Oldest, Dropped, Unlocked

-----------------------------------------------------------------------------
(* Where each task that left the list is: a worker inside .first holds a   *)
(* task that was fetched and not worked, one inside .second a task that    *)
(* was worked and not reported, and no two workers hold the same task.     *)
Ownership ==
  /\ IsInjective(accepted)
  /\ IsInjective(worked) /\ IsInjective(reported)
  /\ Range(worked) \subseteq Range(fetched)
  /\ Range(reported) \subseteq Range(worked) \ NullSecond
  /\ \A w \in Workers : pc[w] = "first" =>
       tmp_task[w] \in Range(fetched) \ Range(worked)
  /\ \A w \in Workers : pc[w] = "second" =>
       tmp_task[w] \in Range(worked) \ (Range(reported) \cup NullSecond)
  /\ \A v, w \in Workers : tmp_task[v] = tmp_task[w] /\ v # w => tmp_task[v] = NoTask

(* A worker is inside put_task only while a task's function runs on it.    *)
PutFromTask ==
  \A w \in Workers : putting[w] # NoTask => pc[w] \in {"first", "second"}

Inv == TypeOK /\ MutexDiscipline /\ TakeHasTask /\ FifoNoLoss /\ NoLostWakeup
       /\ PutFromTask /\ Ownership

-----------------------------------------------------------------------------
LEMMA InitInv == Init => Inv
<1> SUFFICES ASSUME Init PROVE Inv
  OBVIOUS
<1> USE TaskQueueAssumption
<1>1. TypeOK
  BY DEF Init, TypeOK
<1>2. MutexDiscipline /\ TakeHasTask /\ NoLostWakeup /\ PutFromTask
  BY DEF Init, MutexDiscipline, TakeHasTask, NoLostWakeup, PutFromTask, Threads
<1>3. FifoNoLoss
  BY DEF Init, FifoNoLoss
<1>4. Ownership
  BY DEF Init, Ownership, IsInjective, Range
<1> QED BY <1>1, <1>2, <1>3, <1>4 DEF Inv

(* Every step keeps the types.                                             *)
LEMMA TypeStep == Inv /\ [Next]_vars => TypeOK'
<1> SUFFICES ASSUME Inv, [Next]_vars PROVE TypeOK'
  OBVIOUS
<1> USE TaskQueueAssumption DEF Inv, TypeOK, Threads
<1>1. ASSUME NEW t \in Threads, NEW k \in Tasks, Put(t, k) PROVE TypeOK'
  BY <1>1, AppendProperties DEF Put
<1>2. ASSUME NEW t \in Threads, NotifyAll(t) PROVE TypeOK'
  BY <1>2 DEF NotifyAll
<1>3. ASSUME NEW w \in Workers, Spawn(w) PROVE TypeOK'
  BY <1>3 DEF Spawn
<1>4. ASSUME NEW w \in Workers, Enter(w) PROVE TypeOK'
  BY <1>4 DEF Enter
<1>5. ASSUME NEW w \in Workers, Take(w) PROVE TypeOK'
  <2>1. Head(msg_queue) \in Tasks /\ Tail(msg_queue) \in Seq(Tasks)
    BY <1>5, HeadTailProperties DEF Take, TakeHasTask
  <2> QED BY <1>5, <2>1, AppendProperties DEF Take
<1>6. ASSUME NEW w \in Workers, FirstReturns(w) PROVE TypeOK'
  BY <1>6, AppendProperties DEF FirstReturns
<1>7. ASSUME NEW w \in Workers, SecondReturns(w) PROVE TypeOK'
  BY <1>7, AppendProperties DEF SecondReturns
<1>8. ASSUME NEW w \in Workers, SpuriousWake(w) PROVE TypeOK'
  BY <1>8 DEF SpuriousWake
<1>9. CASE UNCHANGED vars
  BY <1>9 DEF vars
<1> HIDE DEF Inv
<1> QED BY <1>1, <1>2, <1>3, <1>4, <1>5, <1>6, <1>7, <1>8, <1>9 DEF Next, RunStep

(* The mutex and the condition variable.                                   *)
LEMMA SyncStep ==
  Inv /\ [Next]_vars => MutexDiscipline' /\ TakeHasTask' /\ NoLostWakeup' /\ PutFromTask'
<1> DEFINE Sync == MutexDiscipline /\ TakeHasTask /\ NoLostWakeup /\ PutFromTask
<1> SUFFICES ASSUME Inv, [Next]_vars PROVE Sync'
  OBVIOUS
<1> USE TaskQueueAssumption
    DEF Inv, TypeOK, Threads, MutexDiscipline, TakeHasTask, NoLostWakeup, PutFromTask
<1>1. ASSUME NEW t \in Threads, NEW k \in Tasks, Put(t, k) PROVE Sync'
  <2>1. MutexDiscipline'
    BY <1>1 DEF Put, MayCall
  <2>2. TakeHasTask' /\ NoLostWakeup' /\ PutFromTask'
    BY <1>1 DEF Put, MayCall
  <2> QED BY <2>1, <2>2
<1>2. ASSUME NEW t \in Threads, NotifyAll(t) PROVE Sync'
  BY <1>2 DEF NotifyAll
<1>3. ASSUME NEW w \in Workers, Spawn(w) PROVE Sync'
  BY <1>3 DEF Spawn
<1>4. ASSUME NEW w \in Workers, Enter(w) PROVE Sync'
  BY <1>4 DEF Enter
<1>5. ASSUME NEW w \in Workers, Take(w) PROVE Sync'
  BY <1>5 DEF Take
<1>6. ASSUME NEW w \in Workers, FirstReturns(w) PROVE Sync'
  BY <1>6 DEF FirstReturns
<1>7. ASSUME NEW w \in Workers, SecondReturns(w) PROVE Sync'
  BY <1>7 DEF SecondReturns
<1>8. ASSUME NEW w \in Workers, SpuriousWake(w) PROVE Sync'
  BY <1>8 DEF SpuriousWake
<1>9. CASE UNCHANGED vars
  BY <1>9 DEF vars
<1> HIDE DEF Inv
<1> QED BY <1>1, <1>2, <1>3, <1>4, <1>5, <1>6, <1>7, <1>8, <1>9 DEF Next, RunStep

(* The order of the list: only Put and Take touch it.                      *)
LEMMA FifoStep == Inv /\ [Next]_vars => FifoNoLoss'
<1> SUFFICES ASSUME Inv, [Next]_vars PROVE FifoNoLoss'
  OBVIOUS
<1> USE DEF Inv, TypeOK, FifoNoLoss
<1>1. ASSUME NEW t \in Threads, NEW k \in Tasks, Put(t, k) PROVE FifoNoLoss'
  <2>1. /\ fetched \in Seq(Tasks) /\ msg_queue \in Seq(Tasks) /\ accepted \in Seq(Tasks)
        /\ accepted = fetched \o msg_queue
    OBVIOUS
  <2>2. Append(accepted, k) = fetched \o Append(msg_queue, k)
    BY ONLY <2>1, <1>1, AppendRight
  <2> QED BY <1>1, <2>2 DEF Put
<1>2. ASSUME NEW w \in Workers, Take(w) PROVE FifoNoLoss'
  BY <1>2, HeadMoves DEF Take, TakeHasTask
<1>3. ASSUME NEW t \in Threads, NotifyAll(t) PROVE FifoNoLoss'
  BY <1>3 DEF NotifyAll
<1>4. ASSUME NEW w \in Workers,
             Spawn(w) \/ Enter(w) \/ FirstReturns(w) \/ SecondReturns(w) \/ SpuriousWake(w)
      PROVE  FifoNoLoss'
  BY <1>4 DEF Spawn, Enter, FirstReturns, SecondReturns, SpuriousWake
<1>5. CASE UNCHANGED vars
  BY <1>5 DEF vars
<1> QED BY <1>1, <1>2, <1>3, <1>4, <1>5 DEF Next, RunStep

(* Who has which task.  The histories grow by one task at a time, and the  *)
(* task a worker takes is one nobody fetched before.                       *)
LEMMA OwnershipStep == Inv /\ [Next]_vars => Ownership'
<1> SUFFICES ASSUME Inv, [Next]_vars PROVE Ownership'
  OBVIOUS
<1> USE TaskQueueAssumption DEF Inv, TypeOK
<1>1. ASSUME NEW t \in Threads, NEW k \in Tasks, Put(t, k) PROVE Ownership'
  <2>1. IsInjective(Append(accepted, k))
    BY <1>1, InjectiveAppend DEF Put, Fresh, Ownership
  <2> QED BY <1>1, <2>1 DEF Put, Ownership
<1>2. ASSUME NEW w \in Workers, Take(w) PROVE Ownership'
  <2> DEFINE k == Head(msg_queue)
  <2>1. msg_queue # <<>> /\ k \in Tasks
    BY <1>2, HeadTailProperties DEF Take, TakeHasTask
  <2>2. k \notin Range(fetched)
    BY <2>1, HeadIsFresh DEF Ownership, FifoNoLoss
  <2>3. Range(fetched') = Range(fetched) \cup {k}
    BY <1>2, <2>1, RangeAppend DEF Take
  <2>4. \A v \in Workers : tmp_task[v] # NoTask => tmp_task[v] \in Range(fetched)
    BY DEF Ownership
  <2>5. \A v \in Workers \ {w} : tmp_task'[v] = tmp_task[v] /\ pc'[v] = pc[v]
    BY <1>2 DEF Take
  <2>6. \/ tmp_task'[w] = NoTask /\ pc'[w] = "lock"
        \/ tmp_task'[w] = k /\ pc'[w] = "first"
    BY <1>2 DEF Take
  <2>7. UNCHANGED <<accepted, worked, reported>>
    BY <1>2 DEF Take
  <2> HIDE DEF k
  <2>8. \A v, u \in Workers : tmp_task'[v] = tmp_task'[u] /\ v # u => tmp_task'[v] = NoTask
    BY <2>2, <2>4, <2>5, <2>6 DEF Ownership
  <2>9. \A v \in Workers : pc'[v] = "first" =>
          tmp_task'[v] \in Range(fetched') \ Range(worked')
    BY <2>2, <2>3, <2>5, <2>6, <2>7 DEF Ownership
  <2>10. \A v \in Workers : pc'[v] = "second" =>
          tmp_task'[v] \in Range(worked') \ (Range(reported') \cup NullSecond)
    BY <2>5, <2>6, <2>7 DEF Ownership
  <2> QED BY <2>3, <2>7, <2>8, <2>9, <2>10 DEF Ownership
<1>3. ASSUME NEW w \in Workers, FirstReturns(w) PROVE Ownership'
  <2> DEFINE k == tmp_task[w]
  <2>1. k \in Tasks /\ k \in Range(fetched) \ Range(worked)
    BY <1>3 DEF FirstReturns, Ownership
  <2>2. Range(worked') = Range(worked) \cup {k} /\ IsInjective(worked')
    BY <1>3, <2>1, RangeAppend, InjectiveAppend DEF FirstReturns, Ownership
  <2>3. \A v \in Workers \ {w} :
          tmp_task'[v] = tmp_task[v] /\ pc'[v] = pc[v] /\ tmp_task[v] # k
    BY <1>3, <2>1 DEF FirstReturns, Ownership
  <2>4. \/ tmp_task'[w] = NoTask /\ pc'[w] = "lock"
        \/ tmp_task'[w] = k /\ pc'[w] = "second" /\ k \notin NullSecond
    BY <1>3 DEF FirstReturns
  <2>5. UNCHANGED <<accepted, fetched, reported>>
    BY <1>3 DEF FirstReturns
  <2> HIDE DEF k
  <2>6. \A v, u \in Workers : tmp_task'[v] = tmp_task'[u] /\ v # u => tmp_task'[v] = NoTask
    BY <2>3, <2>4 DEF Ownership
  <2>7. \A v \in Workers : pc'[v] = "first" =>
          tmp_task'[v] \in Range(fetched') \ Range(worked')
    BY <2>2, <2>3, <2>4, <2>5 DEF Ownership
  <2>8. \A v \in Workers : pc'[v] = "second" =>
          tmp_task'[v] \in Range(worked') \ (Range(reported') \cup NullSecond)
    BY <2>1, <2>2, <2>3, <2>4, <2>5 DEF Ownership
  <2> QED BY <2>1, <2>2, <2>5, <2>6, <2>7, <2>8 DEF Ownership
<1>4. ASSUME NEW w \in Workers, SecondReturns(w) PROVE Ownership'
  <2> DEFINE k == tmp_task[w]
  <2>1. k \in Tasks /\ k \in Range(worked) \ (Range(reported) \cup NullSecond)
    BY <1>4 DEF SecondReturns, Ownership
  <2>2. Range(reported') = Range(reported) \cup {k} /\ IsInjective(reported')
    BY <1>4, <2>1, RangeAppend, InjectiveAppend DEF SecondReturns, Ownership
  <2>3. \A v \in Workers \ {w} :
          tmp_task'[v] = tmp_task[v] /\ pc'[v] = pc[v] /\ tmp_task[v] # k
    BY <1>4, <2>1 DEF SecondReturns, Ownership
  <2>4. tmp_task'[w] = NoTask /\ pc'[w] = "lock"
    BY <1>4 DEF SecondReturns
  <2>5. UNCHANGED <<accepted, fetched, worked>>
    BY <1>4 DEF SecondReturns
  <2> HIDE DEF k
  <2> QED BY <2>1, <2>2, <2>3, <2>4, <2>5 DEF Ownership
<1>5. ASSUME NEW t \in Threads, NotifyAll(t) PROVE Ownership'
  BY <1>5 DEF NotifyAll, Ownership
<1>6. ASSUME NEW w \in Workers, Spawn(w) \/ Enter(w) \/ SpuriousWake(w)
      PROVE  Ownership'
  BY <1>6 DEF Spawn, Enter, SpuriousWake, Ownership
<1>7. CASE UNCHANGED vars
  BY <1>7 DEF vars, Ownership
<1> HIDE DEF Inv
<1> QED BY <1>1, <1>2, <1>3, <1>4, <1>5, <1>6, <1>7 DEF Next, RunStep

-----------------------------------------------------------------------------
(* The inductive invariant of the task queue.                              *)
THEOREM Invariance == Spec => []Inv
<1>1. Inv /\ [Next]_vars => Inv'
  BY TypeStep, SyncStep, FifoStep, OwnershipStep DEF Inv
<1> QED BY InitInv, <1>1, PTL DEF Spec

(* Every variable keeps its type, and a worker holds a task exactly while  *)
(* it is inside one of the task's functions.                               *)
THEOREM TypeCorrect == Spec => []TypeOK
BY Invariance, PTL DEF Inv

(* The mutex is held inside put_task and around the pop, never during a    *)
(* task's functions, whatever the number of threads.                       *)
THEOREM MutexSafe == Spec => []MutexDiscipline
BY Invariance, PTL DEF Inv

(* run() never pops an empty list.                                         *)
THEOREM PopSafe == Spec => []TakeHasTask
BY Invariance, PTL DEF Inv

(* No task is lost, doubled or overtaken between put_task and run().       *)
THEOREM QueueOrder == Spec => []FifoNoLoss
BY Invariance, PTL DEF Inv

(* No worker sleeps while a task waits, unless a notification is due.      *)
THEOREM WakeupSafe == Spec => []NoLostWakeup
BY Invariance, PTL DEF Inv

(* Each function of a task is called at most once, .second only after      *)
(* .first returned.                                                        *)
THEOREM OnceOnly == Spec => []AtMostOnce
<1>1. Inv => AtMostOnce
  BY DEF Inv, Ownership, AtMostOnce
<1> QED BY <1>1, Invariance, PTL
-----------------------------------------------------------------------------
(* TaskQueue implements TaskExecutor.  The mapping reads each worker's slot *)
(* off its control point, and calls a task finished once it was fetched and *)
(* no worker holds it.                                                      *)
Slots == [w \in Workers |-> Slot(w)]
Held == {tmp_task[w] : w \in Workers}
Finished == Range(fetched) \ Held

LEMMA RefineInit == Init => Executor!Init
BY DEF Init, Executor!Init, Executor!Idle, Slot, Range

(* A put_task up to its notification is the abstract Submit.               *)
LEMMA PutIsSubmit ==
  ASSUME Inv, NEW t \in Threads, NEW k \in Tasks, Put(t, k)
  PROVE  Executor!Submit(k)
<1> USE TaskQueueAssumption DEF Inv, TypeOK
<1>1. Range(accepted) = Range(fetched) \cup Range(msg_queue)
  BY RangeConcatenation DEF FifoNoLoss
<1>2. k \notin Range(fetched) /\ k \notin Range(msg_queue)
  BY <1>1 DEF Put, Fresh
<1>3. \A w \in Workers : Slots[w].task \in Range(fetched) \cup {NoTask}
  BY DEF Ownership, Slots, Slot
<1>4. k \notin Executor!Known
  <2>1. Executor!Range(msg_queue) = Range(msg_queue)
    BY DEF Executor!Range, Range
  <2> QED BY <1>2, <1>3, <2>1 DEF Executor!Known, Slots
<1>5. Slots' = Slots /\ Finished' = Finished
  BY DEF Put, Slots, Slot, Finished, Held
<1> QED BY <1>4, <1>5 DEF Executor!Submit, Put, Slots, Finished, Held

(* Taking a task is the abstract Start, or Drop of a task without a .first. *)
LEMMA TakeIsStart ==
  ASSUME Inv, NEW w \in Workers, Take(w)
  PROVE  Executor!Start(w) \/ Executor!Drop(w)
<1> DEFINE k == Head(msg_queue)
<1> USE TaskQueueAssumption DEF Inv, TypeOK
<1>1. msg_queue # <<>> /\ k \in Tasks
  BY HeadTailProperties DEF Take, TakeHasTask
<1>2. k \notin Range(fetched)
  BY <1>1, HeadIsFresh DEF Ownership, FifoNoLoss
<1>3. Range(fetched') = Range(fetched) \cup {k}
  BY <1>1, RangeAppend DEF Take
<1>4. Range(fetched) \subseteq Tasks
  BY RangeOfSeq
<1>5. Slots[w] = Executor!Idle /\ tmp_task[w] = NoTask
  BY DEF Take, Slots, Slot, Executor!Idle
<1>6. k \notin Held
  BY <1>1, <1>2 DEF Held, Ownership
<1>7. CASE k \in NullFirst
  <2>1. Held' = Held
    BY <1>5, <1>7 DEF Take, Held
  <2>2. Slots' = Slots
    BY <1>7 DEF Take, Slots, Slot
  <2>3. Finished' = Finished \cup {k}
    BY <1>3, <1>6, <2>1 DEF Finished
  <2> QED BY <1>1, <1>5, <1>7, <2>2, <2>3
          DEF Executor!Drop, Take, Slots, Finished, Held
<1>8. CASE k \notin NullFirst
  <2>1. /\ tmp_task' = [tmp_task EXCEPT ![w] = k]
        /\ pc' = [pc EXCEPT ![w] = "first"]
    BY <1>8 DEF Take
  <2>2. Slots' = [Slots EXCEPT ![w] = Executor!Busy(k, "work")]
    BY <2>1 DEF Slots, Slot, Executor!Busy
  <2>3. \A x : x \in Held' <=> x = k \/ (\E v \in Workers \ {w} : x = tmp_task[v])
    BY <2>1 DEF Held
  <2>4. \A x : x \in Held <=> x = NoTask \/ (\E v \in Workers \ {w} : x = tmp_task[v])
    BY <1>5 DEF Held
  <2>5. Finished' = Finished
    BY <1>2, <1>3, <1>4, <2>3, <2>4 DEF Finished
  <2> QED BY <1>1, <1>5, <1>8, <2>2, <2>5
          DEF Executor!Start, Take, Slots, Finished, Held
<1> QED BY <1>7, <1>8

(* What a worker's last call does to the set of finished tasks.            *)
LEMMA Releases ==
  ASSUME Inv, NEW w \in Workers, tmp_task[w] # NoTask, fetched' = fetched,
         tmp_task' = [tmp_task EXCEPT ![w] = NoTask]
  PROVE  Finished' = Finished \cup {tmp_task[w]}
<1> USE TaskQueueAssumption DEF Inv, TypeOK
<1>1. tmp_task[w] \in Range(fetched)
  BY DEF Ownership
<1>2. \A x : x \in Held' <=> x = NoTask \/ (\E v \in Workers \ {w} : x = tmp_task[v])
  BY DEF Held
<1>3. \A x : x \in Held <=> x = tmp_task[w] \/ (\E v \in Workers \ {w} : x = tmp_task[v])
  BY DEF Held
<1>4. \A v \in Workers \ {w} : tmp_task[v] # tmp_task[w]
  BY DEF Ownership
<1>5. NoTask \notin Range(fetched)
  BY RangeOfSeq
<1> QED BY <1>1, <1>2, <1>3, <1>4, <1>5 DEF Finished

LEMMA FirstIsWork ==
  ASSUME Inv, NEW w \in Workers, FirstReturns(w)
  PROVE  Executor!Work(w) \/ Executor!Finish(w)
<1> USE DEF Inv, TypeOK
<1>1. pc[w] = "first" /\ tmp_task[w] # NoTask
  BY DEF FirstReturns
<1>2. CASE tmp_task[w] \notin NullSecond
  <2>1. Slots' = [Slots EXCEPT ![w].stage = "report"]
    BY <1>2 DEF FirstReturns, Slots, Slot
  <2>2. Finished' = Finished
    BY <1>2 DEF FirstReturns, Finished, Held
  <2> QED BY <1>1, <1>2, <2>1, <2>2
          DEF Executor!Work, FirstReturns, Slots, Slot, Finished, Held
<1>3. CASE tmp_task[w] \in NullSecond
  <2>1. Slots' = [Slots EXCEPT ![w] = Executor!Idle]
    BY <1>3 DEF FirstReturns, Slots, Slot, Executor!Idle
  <2>2. Finished' = Finished \cup {tmp_task[w]}
    BY <1>1, <1>3, Releases DEF FirstReturns
  <2> QED BY <1>1, <1>3, <2>1, <2>2
          DEF Executor!Finish, FirstReturns, Slots, Slot, Finished, Held
<1> QED BY <1>2, <1>3

LEMMA SecondIsFinish ==
  ASSUME Inv, NEW w \in Workers, SecondReturns(w)
  PROVE  Executor!Finish(w)
<1> USE DEF Inv, TypeOK
<1>1. pc[w] = "second" /\ tmp_task[w] # NoTask
  BY DEF SecondReturns
<1>2. Slots' = [Slots EXCEPT ![w] = Executor!Idle]
  BY DEF SecondReturns, Slots, Slot, Executor!Idle
<1>3. Finished' = Finished \cup {tmp_task[w]}
  BY <1>1, Releases DEF SecondReturns
<1> QED BY <1>1, <1>2, <1>3
        DEF Executor!Finish, SecondReturns, Slots, Slot, Finished, Held

(* The steps of the mutex and the condition variable.                      *)
LEMMA SyncIsStutter ==
  ASSUME Inv,
         \/ \E t \in Threads : NotifyAll(t)
         \/ \E w \in Workers : Spawn(w) \/ Enter(w) \/ SpuriousWake(w)
         \/ UNCHANGED vars
  PROVE  UNCHANGED Executor!vars
<1> USE DEF Inv, TypeOK
<1>1. UNCHANGED <<msg_queue, tmp_task, fetched>>
  BY DEF NotifyAll, Spawn, Enter, SpuriousWake, vars
<1>2. \A w \in Workers : \/ pc'[w] = pc[w]
                         \/ {pc[w], pc'[w]} \cap {"first", "second"} = {}
  BY DEF NotifyAll, Spawn, Enter, SpuriousWake, vars
<1>3. Slots' = Slots
  BY <1>1, <1>2 DEF Slots, Slot
<1> QED BY <1>1, <1>3 DEF Executor!vars, Slots

(* The queue, its mutex, its condition variable and its workers implement  *)
(* the executor a caller of put_task sees.                                 *)
THEOREM Refinement == Spec => ExecutorSpec
<1>1. Inv /\ [Next]_vars => [Executor!Next]_(Executor!vars)
  <2> SUFFICES ASSUME Inv, [Next]_vars PROVE [Executor!Next]_(Executor!vars)
    OBVIOUS
  <2>1. ASSUME NEW t \in Threads, NEW k \in Tasks, Put(t, k) PROVE Executor!Next
    BY <2>1, PutIsSubmit DEF Executor!Next
  <2>2. ASSUME NEW w \in Workers, Take(w) PROVE Executor!Next
    BY <2>2, TakeIsStart DEF Executor!Next
  <2>3. ASSUME NEW w \in Workers, FirstReturns(w) PROVE Executor!Next
    BY <2>3, FirstIsWork DEF Executor!Next
  <2>4. ASSUME NEW w \in Workers, SecondReturns(w) PROVE Executor!Next
    BY <2>4, SecondIsFinish DEF Executor!Next
  <2> QED BY <2>1, <2>2, <2>3, <2>4, SyncIsStutter DEF Next, RunStep
<1> QED BY RefineInit, <1>1, Invariance, PTL DEF Spec, ExecutorSpec, Executor!Spec
=============================================================================
