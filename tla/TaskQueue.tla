------------------------------ MODULE TaskQueue ------------------------------
(***************************************************************************)
(* The task queue of include/qyutil.h: class qyutil<nThread>.  Detached    *)
(* worker threads take tasks from __msg_queue under __cvmtx and wait on    *)
(* __cvar when there is none; any thread may call put_task, a worker that  *)
(* is inside a task's function included (application callbacks run there   *)
(* and may call the asynchronous API again).                               *)
(*                                                                         *)
(* A critical section is one or two steps here: what lies between taking   *)
(* and giving back the mutex cannot be seen by another thread.             *)
(***************************************************************************)
EXTENDS Naturals, FiniteSets, SequencesExt

CONSTANTS Workers,     \* the nThread worker threads
          Callers,     \* other threads that call put_task
          Tasks,       \* the tasks ever submitted
          NullFirst,   \* tasks whose .first is an empty std::function
          NullSecond,  \* tasks whose .second is empty (the JNI layer's)
          Nobody,      \* holder of a free mutex
          NoTask

Threads == Workers \cup Callers

ASSUME TaskQueueAssumption ==
  /\ Workers \cap Callers = {}
  /\ Nobody \notin Threads
  /\ NoTask \notin Tasks
  /\ NullFirst \subseteq Tasks
  /\ NullSecond \subseteq Tasks

VARIABLES cvmtx,      \* holder of __cvmtx, or Nobody
          msg_queue,  \* __msg_queue
          pc,         \* where each worker is in run()
          tmp_task,   \* run()'s local copy of the task it took
          putting,    \* the argument of a put_task in progress, by thread
          accepted,   \* history: tasks in the order they were pushed
          fetched,    \* history: tasks in the order they were popped
          worked,     \* history: tasks in the order their .first returned
          reported    \* history: tasks in the order their .second returned

vars == <<cvmtx, msg_queue, pc, tmp_task, putting, accepted, fetched, worked, reported>>

Init == /\ cvmtx = Nobody
        /\ msg_queue = <<>>
        /\ pc = [w \in Workers |-> "unborn"]
        /\ tmp_task = [w \in Workers |-> NoTask]
        /\ putting = [t \in Threads |-> NoTask]
        /\ accepted = <<>>
        /\ fetched = <<>>
        /\ worked = <<>>
        /\ reported = <<>>

-----------------------------------------------------------------------------
(* The constructor starts one thread per slot.  It runs inside the         *)
(* initialisation of getInstance's static, which holds back every caller.  *)
Spawn(w) ==
  /\ pc[w] = "unborn"
  /\ pc' = [pc EXCEPT ![w] = "lock"]
  /\ UNCHANGED <<cvmtx, msg_queue, tmp_task, putting, accepted, fetched, worked, reported>>

(* put_task: a thread that is free to call it -- a worker only from inside *)
(* one of a task's functions -- takes the mutex and pushes the task.       *)
MayCall(t) ==
  /\ putting[t] = NoTask
  /\ t \in Workers => pc[t] \in {"first", "second"}

Fresh(k) == k \notin Range(accepted)

Push_Front(queue, k) == <<k>> \o queue  \* faulty form: push_front

Push(queue, k) == Append(queue, k)

(* put_task, up to its notify_all.                                         *)
Put(t, k) ==
  /\ \A w \in Workers : pc[w] # "unborn"
  /\ MayCall(t)
  /\ Fresh(k)
  /\ cvmtx = Nobody
  /\ cvmtx' = t
  /\ msg_queue' = Push(msg_queue, k)
  /\ putting' = [putting EXCEPT ![t] = k]
  /\ accepted' = Append(accepted, k)
  /\ UNCHANGED <<pc, tmp_task, fetched, worked, reported>>

Woken_Not == "wait"  \* faulty form: notify_all is left out

Woken_NoRecheck == "pop"  \* faulty form: the predicate is not evaluated again

Woken == "lock"

(* notify_all, then the lock_guard's destructor: every waiting thread goes *)
(* after the mutex again.                                                  *)
NotifyAll(t) ==
  /\ putting[t] # NoTask
  /\ pc' = [w \in Workers |-> IF pc[w] = "wait" THEN Woken ELSE pc[w]]
  /\ cvmtx' = Nobody
  /\ putting' = [putting EXCEPT ![t] = NoTask]
  /\ UNCHANGED <<msg_queue, tmp_task, accepted, fetched, worked, reported>>

(* run(): with the mutex taken, an empty queue means waiting, which gives  *)
(* the mutex back; the predicate is evaluated again after every wake-up.   *)
Enter(w) ==
  /\ pc[w] = "lock"
  /\ cvmtx = Nobody
  /\ IF msg_queue = <<>>
     THEN pc' = [pc EXCEPT ![w] = "wait"] /\ UNCHANGED cvmtx
     ELSE pc' = [pc EXCEPT ![w] = "pop"] /\ cvmtx' = w
  /\ UNCHANGED <<msg_queue, tmp_task, putting, accepted, fetched, worked, reported>>

(* A condition variable may wake up without a notification.                *)
SpuriousWake(w) ==
  /\ pc[w] = "wait"
  /\ pc' = [pc EXCEPT ![w] = "lock"]
  /\ UNCHANGED <<cvmtx, msg_queue, tmp_task, putting, accepted, fetched, worked, reported>>

Oldest_AfterPop(queue) == IF Len(queue) > 1 THEN queue[2] ELSE NoTask  \* faulty form

Oldest(queue) == Head(queue)

Dropped_Never(k) == FALSE  \* faulty form: .first is not compared with nullptr

Dropped(k) == k \in NullFirst

Unlocked_Not(w) == w  \* faulty form: the tasks run with the mutex still held

Unlocked(w) == Nobody

(* Copy the front, pop it, give the mutex back; a task without a .first is *)
(* dropped here, its .second with it.                                      *)
Take(w) ==
  /\ pc[w] = "pop"
  /\ LET k == Oldest(msg_queue) IN
       /\ tmp_task' = [tmp_task EXCEPT ![w] = IF Dropped(k) THEN NoTask ELSE k]
       /\ pc' = [pc EXCEPT ![w] = IF Dropped(k) THEN "lock" ELSE "first"]
       /\ fetched' = Append(fetched, k)
  /\ msg_queue' = Tail(msg_queue)
  /\ cvmtx' = Unlocked(w)
  /\ UNCHANGED <<putting, accepted, worked, reported>>

(* .first returns; .second, if there is one, is called next.               *)
FirstReturns(w) ==
  /\ pc[w] = "first" /\ putting[w] = NoTask
  /\ LET more == tmp_task[w] \notin NullSecond IN
       /\ pc' = [pc EXCEPT ![w] = IF more THEN "second" ELSE "lock"]
       /\ tmp_task' = IF more THEN tmp_task ELSE [tmp_task EXCEPT ![w] = NoTask]
  /\ worked' = Append(worked, tmp_task[w])
  /\ UNCHANGED <<cvmtx, msg_queue, putting, accepted, fetched, reported>>

SecondReturns(w) ==
  /\ pc[w] = "second" /\ putting[w] = NoTask
  /\ pc' = [pc EXCEPT ![w] = "lock"]
  /\ tmp_task' = [tmp_task EXCEPT ![w] = NoTask]
  /\ reported' = Append(reported, tmp_task[w])
  /\ UNCHANGED <<cvmtx, msg_queue, putting, accepted, fetched, worked>>

-----------------------------------------------------------------------------
RunStep(w) == Spawn(w) \/ Enter(w) \/ Take(w) \/ FirstReturns(w) \/ SecondReturns(w)

Next == \/ \E t \in Threads : NotifyAll(t) \/ \E k \in Tasks : Put(t, k)
        \/ \E w \in Workers : RunStep(w) \/ SpuriousWake(w)

(* The operating system runs every runnable thread, and a task's functions *)
(* return.  Nobody has to submit anything, and nothing is assumed of the   *)
(* order in which the mutex is granted.                                    *)
Fairness == /\ \A t \in Threads : WF_vars(NotifyAll(t))
            /\ \A w \in Workers : WF_vars(RunStep(w))

Spec == Init /\ [][Next]_vars /\ Fairness

-----------------------------------------------------------------------------
(* Properties                                                              *)

(* Every variable has its type, and a worker holds a task exactly while it *)
(* is inside one of the task's functions (run(), lines 58-66).             *)
TypeOK ==
  /\ cvmtx \in Threads \cup {Nobody}
  /\ msg_queue \in Seq(Tasks)
  /\ pc \in [Workers -> {"unborn", "lock", "wait", "pop", "first", "second"}]
  /\ tmp_task \in [Workers -> Tasks \cup {NoTask}]
  /\ \A w \in Workers : (tmp_task[w] # NoTask) <=> (pc[w] \in {"first", "second"})
  /\ putting \in [Threads -> Tasks \cup {NoTask}]
  /\ accepted \in Seq(Tasks) /\ fetched \in Seq(Tasks)
  /\ worked \in Seq(Tasks) /\ reported \in Seq(Tasks)

(* The mutex is held inside put_task and around the pop and nowhere else:  *)
(* no task's function ever runs under it, so a function may call put_task  *)
(* (lock_guard of line 71, unlock() of line 60).                           *)
MutexDiscipline ==
  \A t \in Threads :
    cvmtx = t <=> putting[t] # NoTask \/ (t \in Workers /\ pc[t] = "pop")

(* pop_front is never reached on an empty list, whoever was woken and      *)
(* whatever other workers took in between (lines 53-59).                   *)
TakeHasTask == \A w \in Workers : pc[w] = "pop" => msg_queue # <<>>

(* Tasks leave the list in the order they came in; none is lost, doubled   *)
(* or overtaken (push_back of line 72, begin and pop_front of 58-59).      *)
FifoNoLoss == accepted = fetched \o msg_queue

(* Nobody sleeps over a task: while a worker waits, the list is empty or   *)
(* the thread that filled it is still about to notify (lines 53-57, 73).   *)
NoLostWakeup ==
  (\E w \in Workers : pc[w] = "wait") /\ msg_queue # <<>>
    => \E t \in Threads : putting[t] # NoTask

(* However the workers interleave, each function of a task is called at    *)
(* most once, .second only after .first returned and never when it is      *)
(* empty (lines 62-66).                                                    *)
AtMostOnce ==
  /\ IsInjective(worked) /\ IsInjective(reported)
  /\ Range(reported) \subseteq Range(worked) \ NullSecond

(* All that put_task promises of a task has happened.                      *)
Done(k) == \/ k \in Range(worked) /\ k \in NullSecond
           \/ k \in Range(reported)
           \/ k \in NullFirst /\ k \in Range(fetched)

(* A task that was put is carried out to its end: no lost wake-up, no      *)
(* worker stuck at the mutex, no task left in the list.                    *)
Completes == \A k \in Tasks : k \in Range(accepted) ~> Done(k)

-----------------------------------------------------------------------------
(* The queue keeps the promise of TaskExecutor: a step of the mutex or of  *)
(* the condition variable changes nothing there.                           *)
Slot(w) == CASE pc[w] = "first" -> [task |-> tmp_task[w], stage |-> "work"]
             [] pc[w] = "second" -> [task |-> tmp_task[w], stage |-> "report"]
             [] OTHER -> [task |-> NoTask, stage |-> "idle"]

Executor == INSTANCE TaskExecutor
              WITH pending <- msg_queue,
                   slot <- [w \in Workers |-> Slot(w)],
                   finished <- Range(fetched) \ {tmp_task[w] : w \in Workers}

(* put_task / run() as a caller sees them (TaskExecutor): started in order,*)
(* by one worker, work before report, dropped only without a .first.       *)
ExecutorSpec == Executor!Spec

=============================================================================
