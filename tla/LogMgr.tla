------------------------------- MODULE LogMgr -------------------------------
(***************************************************************************)
(* common/qylog: the singleton QYLogMgr, made with a console logger of     *)
(* level UNKNOWN, its initialisation by QYInitLog from any thread, and     *)
(* QYLog, which reads m_logger without the mutex.                          *)
(*                                                                         *)
(* m_isInit and m_logger are plain variables.  A thread that has been      *)
(* through the mutex sees what was written under it; any other may see     *)
(* the old value or the new one, and of a new logger it may see the        *)
(* pointer before the object, which leaves nothing to be said of it.       *)
(***************************************************************************)
EXTENDS Naturals, Sequences

CONSTANTS Threads, NoThread,
          Levels,    \* the QYLogPriority values used
          MaxCalls   \* bound: calls of one thread

Modes == {"Console", "File", "Mix", "deft"}
UNKNOWN == 0

ASSUME LogMgrAssumption ==
  NoThread \notin Threads /\ Levels \subseteq Nat /\ MaxCalls \in Nat

VARIABLES pc,        \* per thread: idle, lock, create, unlock, undefined
          arg,       \* per thread: the mode and level of its QYInitLog
          calls,     \* per thread: calls made
          mutex,     \* m_init_mutex: its holder
          isInit,    \* m_isInit
          config,    \* m_log_mode and m_log_level
          logger,    \* *m_logger: [kind, level, opened, by]
          made,      \* history: the threads that made a logger, in order
          through,   \* history: threads that have been through the mutex
          printed    \* history: [level, logger, sinks, through] of each QYLog

shared == <<mutex, isInit, config, logger, made>>
logVars == <<pc, arg, calls, shared, through, printed>>

Args == [mode : Modes, level : Levels]

(* The loggers' constructors.  A file may not open; the Mix logger has one *)
(* of each of the others.                                                  *)
Kind(mode) == IF mode = "deft" THEN "Console" ELSE mode

Constructed(mode, level, opened, t) ==
  [kind |-> Kind(mode), level |-> level, opened |-> opened, by |-> t]

FirstLogger == Constructed("Console", UNKNOWN, FALSE, NoThread)

LogInit == /\ pc = [t \in Threads |-> "idle"]
           /\ arg \in [Threads -> {[mode |-> "Console", level |-> UNKNOWN]}]
           /\ calls = [t \in Threads |-> 0]
           /\ mutex = NoThread /\ isInit = FALSE
           /\ config = [mode |-> "Console", level |-> UNKNOWN]
           /\ logger = FirstLogger
           /\ made = <<>> /\ through = {} /\ printed = <<>>

-----------------------------------------------------------------------------
(* What thread t may find in a variable that was `old` at the beginning.   *)
Seen(t, old, current) == IF t \in through THEN {current} ELSE {old, current}

NewCall(t) == /\ pc[t] = "idle" /\ calls[t] < MaxCalls
              /\ calls' = [calls EXCEPT ![t] = @ + 1]

(* InitLogMgr up to the outer test of m_isInit.                            *)
InitLogMgr(t) ==
  /\ NewCall(t)
  /\ \E a \in Args : arg' = [arg EXCEPT ![t] = a]
  /\ \E seen \in Seen(t, FALSE, isInit) :
       pc' = [pc EXCEPT ![t] = IF seen THEN "idle" ELSE "lock"]
  /\ UNCHANGED <<shared, through, printed>>

(* Under the mutex: the test again, and the fields set before the logger.  *)
Unset_Unasked == TRUE  \* faulty form: the inner test is left out

Unset == ~isInit

Lock(t) ==
  /\ pc[t] = "lock" /\ mutex = NoThread
  /\ mutex' = t
  /\ IF Unset
     THEN /\ config' = arg[t] /\ isInit' = TRUE
          /\ pc' = [pc EXCEPT ![t] = "create"]
     ELSE pc' = [pc EXCEPT ![t] = "unlock"] /\ UNCHANGED <<config, isInit>>
  /\ UNCHANGED <<arg, calls, logger, made, through, printed>>

(* The switch.  The logger that was there is neither deleted nor kept.     *)
Create(t) ==
  /\ pc[t] = "create"
  /\ \E opened \in BOOLEAN :
       logger' = Constructed(arg[t].mode, arg[t].level, opened, t)
  /\ made' = Append(made, t)
  /\ pc' = [pc EXCEPT ![t] = "unlock"]
  /\ UNCHANGED <<arg, calls, mutex, isInit, config, through, printed>>

(* The end of the lock_guard's scope.                                      *)
Leaving_BeforeCreate(t) == pc[t] \in {"create", "unlock"}  \* faulty form: the scope ends early

Leaving(t) == pc[t] = "unlock"

Unlock(t) ==
  /\ Leaving(t) /\ mutex = t
  /\ mutex' = NoThread
  /\ through' = through \cup {t}
  /\ pc' = [pc EXCEPT ![t] = IF @ = "unlock" THEN "idle" ELSE @]
  /\ UNCHANGED <<arg, calls, isInit, config, logger, made, printed>>

-----------------------------------------------------------------------------
(* Log: only what is above the logger's level, to the console, to the file *)
(* if it could be opened, or to both.                                      *)
Sinks(l, level) ==
  IF level <= l.level THEN {}
  ELSE (IF l.kind \in {"Console", "Mix"} THEN {"console"} ELSE {})
         \cup (IF l.kind \in {"File", "Mix"} /\ l.opened THEN {"file"} ELSE {})

QYLog(t) ==
  /\ NewCall(t)
  /\ \E level \in Levels, l \in Seen(t, FirstLogger, logger) :
       printed' = Append(printed, [level |-> level, logger |-> l, sinks |-> Sinks(l, level),
                                   through |-> t \in through])
  /\ UNCHANGED <<pc, arg, shared, through>>

(* The pointer is seen, and not the object behind it.                      *)
QYLogUndefined(t) ==
  /\ NewCall(t)
  /\ t \notin through /\ logger # FirstLogger
  /\ pc' = [pc EXCEPT ![t] = "undefined"]
  /\ UNCHANGED <<arg, shared, through, printed>>

LogNext == \E t \in Threads : \/ InitLogMgr(t) \/ Lock(t) \/ Create(t) \/ Unlock(t)
                              \/ QYLog(t) \/ QYLogUndefined(t)

LogSpec == LogInit /\ [][LogNext]_logVars

-----------------------------------------------------------------------------
(* Properties                                                              *)

(* However many threads initialise at once, one of them makes a logger,    *)
(* and the logger is made of the same call's mode and level as the fields  *)
(* m_log_mode and m_log_level (lines 39-62).                               *)
InitOnce ==
  /\ Len(made) <= 1
  /\ made # <<>> =>
       /\ logger.by = made[1]
       /\ logger.kind = Kind(config.mode) /\ logger.level = config.level

(* m_isInit is set before m_logger, and a call that finds it set returns   *)
(* at once: what its thread logs may still go to the first logger.  A call *)
(* that went through the mutex has no such gap: from then on its thread's  *)
(* messages go to the configured logger, and only those above its level.   *)
Configured ==
  \A i \in DOMAIN printed :
    printed[i].through =>
      /\ printed[i].logger = logger /\ made # <<>>
      /\ printed[i].sinks # {} => printed[i].level > config.level
=============================================================================
