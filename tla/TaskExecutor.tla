---------------------------- MODULE TaskExecutor ----------------------------
(***************************************************************************)
(* What qyutil<nThread> promises to the code that calls put_task, with the *)
(* mutex, the condition variable and the wake-ups left out: a task is      *)
(* started once, in the order of submission, by one worker, which calls    *)
(* the work function and, only after that returned, the report function.   *)
(***************************************************************************)
EXTENDS Sequences, Functions

CONSTANTS Workers,     \* the nThread worker threads
          Tasks,       \* the tasks ever submitted (each one submitted once)
          NullFirst,   \* tasks whose work function is an empty std::function
          NullSecond,  \* tasks whose report function is empty
          NoTask

VARIABLES pending,     \* submitted, not started
          slot,        \* what each worker is doing
          finished     \* tasks whose functions have all returned

vars == <<pending, slot, finished>>

Idle == [task |-> NoTask, stage |-> "idle"]
Busy(k, s) == [task |-> k, stage |-> s]

Known == Range(pending) \cup {slot[w].task : w \in Workers} \cup finished

Init == /\ pending = <<>>
        /\ slot = [w \in Workers |-> Idle]
        /\ finished = {}

Submit(k) == /\ k \notin Known
             /\ pending' = Append(pending, k)
             /\ UNCHANGED <<slot, finished>>

Start(w) == /\ slot[w] = Idle
            /\ pending # <<>> /\ Head(pending) \notin NullFirst
            /\ slot' = [slot EXCEPT ![w] = Busy(Head(pending), "work")]
            /\ pending' = Tail(pending)
            /\ UNCHANGED finished

\* A task without a work function is dropped, its report function with it.
Drop(w) == /\ slot[w] = Idle
           /\ pending # <<>> /\ Head(pending) \in NullFirst
           /\ finished' = finished \cup {Head(pending)}
           /\ pending' = Tail(pending)
           /\ UNCHANGED slot

\* The work function returned; the report function is next.
Work(w) == /\ slot[w].stage = "work"
           /\ slot[w].task \notin NullSecond
           /\ slot' = [slot EXCEPT ![w].stage = "report"]
           /\ UNCHANGED <<pending, finished>>

\* Nothing (more) to call: the worker is free again.
Finish(w) == /\ \/ slot[w].stage = "report"
                \/ slot[w].stage = "work" /\ slot[w].task \in NullSecond
             /\ finished' = finished \cup {slot[w].task}
             /\ slot' = [slot EXCEPT ![w] = Idle]
             /\ UNCHANGED pending

Next == \/ \E k \in Tasks : Submit(k)
        \/ \E w \in Workers : Start(w) \/ Drop(w) \/ Work(w) \/ Finish(w)

Spec == Init /\ [][Next]_vars
=============================================================================
