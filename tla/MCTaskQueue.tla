----------------------------- MODULE MCTaskQueue -----------------------------
(* Two callers and three tasks, one of each kind put_task accepts.          *)
EXTENDS TaskQueue

CONSTANTS w1, w2, c1, c2, plain, silent, empty

MCTwoWorkers == {w1, w2}
MCCallers == {c1, c2}
MCTasks == {plain, silent, empty}
MCNullFirst == {empty}
MCNullSecond == {silent}
=============================================================================
