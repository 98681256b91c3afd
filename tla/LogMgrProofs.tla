---------------------------- MODULE LogMgrProofs ----------------------------
(***************************************************************************)
(* Theorems about LogMgr, for any number of threads and calls, with an     *)
(* invariant about who is inside the mutex and what has been written there *)
(* so far.                                                                 *)
(***************************************************************************)
EXTENDS LogMgr, TLAPS

Loggers == [kind : {"Console", "File", "Mix"}, level : Nat, opened : BOOLEAN,
            by : Threads \cup {NoThread}]

Entries == [level : Nat, logger : Loggers, sinks : SUBSET {"console", "file"},
            through : BOOLEAN]

Types ==
  /\ pc \in [Threads -> {"idle", "lock", "create", "unlock", "undefined"}]
  /\ arg \in [Threads -> [mode : Modes, level : Nat]]
  /\ config \in [mode : Modes, level : Nat]
  /\ isInit \in BOOLEAN /\ logger \in Loggers
  /\ made \in Seq(Threads) /\ through \subseteq Threads /\ printed \in Seq(Entries)

(* The mutex is held by the thread in the locked part, and by no other.    *)
Inside == \A t \in Threads : pc[t] \in {"create", "unlock"} <=> mutex = t

(* m_isInit is set, and m_logger not yet, exactly while a thread is about  *)
(* to make the logger: the mutex is not given back in between.             *)
Progress ==
  /\ \A t \in Threads : pc[t] = "create" => isInit /\ made = <<>> /\ config = arg[t]
  /\ \A t \in Threads : pc[t] = "unlock" => made # <<>>
  /\ isInit /\ made = <<>> => \E t \in Threads : pc[t] = "create"
  /\ made # <<>> => isInit
  /\ through # {} => made # <<>>

IInv == Types /\ Inside /\ Progress /\ InitOnce /\ Configured

-----------------------------------------------------------------------------
LEMMA InitInv == LogInit => IInv
<1> SUFFICES ASSUME LogInit PROVE IInv
  OBVIOUS
<1> USE LogMgrAssumption DEF LogInit
<1>1. Types
  <2>1. FirstLogger \in Loggers
    BY DEF UNKNOWN, Loggers, FirstLogger, Constructed, Kind
  <2>2. [mode |-> "Console", level |-> UNKNOWN] \in [mode : Modes, level : Nat]
    BY DEF Modes, UNKNOWN
  <2>3. arg \in [Threads -> [mode : Modes, level : Nat]]
    BY <2>2
  <2>4. pc \in [Threads -> {"idle", "lock", "create", "unlock", "undefined"}]
    OBVIOUS
  <2>5. isInit \in BOOLEAN
    OBVIOUS
  <2>6. made \in Seq(Threads) /\ printed \in Seq(Entries) /\ through \subseteq Threads
    OBVIOUS
  <2> QED BY <2>1, <2>2, <2>3, <2>4, <2>5, <2>6, Zenon DEF Types
<1>2. Inside /\ Progress
  BY DEF Inside, Progress
<1>3. InitOnce /\ Configured
  BY DEF InitOnce, Configured
<1> QED BY <1>1, <1>2, <1>3 DEF IInv

(* What a logger prints, if anything, is above its level.                  *)
LEMMA SinksAbove ==
  ASSUME NEW l, NEW level
  PROVE  /\ Sinks(l, level) \subseteq {"console", "file"}
         /\ Sinks(l, level) # {} => ~(level <= l.level)
BY DEF Sinks

LEMMA QYLogInv ==
  ASSUME IInv, NEW t \in Threads, QYLog(t)
  PROVE  IInv'
<1> USE LogMgrAssumption DEF IInv
<1>1. PICK level \in Levels, l \in Seen(t, FirstLogger, logger) :
        printed' = Append(printed, [level |-> level, logger |-> l, sinks |-> Sinks(l, level),
                                    through |-> t \in through])
  BY DEF QYLog
<1> DEFINE e == [level |-> level, logger |-> l, sinks |-> Sinks(l, level),
                 through |-> t \in through]
<1>2. UNCHANGED <<pc, arg, shared, through>>
  BY DEF QYLog
<1>3. FirstLogger \in Loggers
  BY DEF FirstLogger, Constructed, Kind, UNKNOWN, Loggers
<1>4. l \in Loggers /\ (t \in through => l = logger)
  BY <1>3 DEF Seen, Types
<1>5. e \in Entries
  BY <1>4, SinksAbove DEF Entries
<1>6. Types'
  BY <1>1, <1>2, <1>5 DEF Types, shared
<1>7. Inside' /\ Progress' /\ InitOnce'
  BY <1>2 DEF Inside, Progress, InitOnce, shared
<1>8. t \in through => /\ l = logger /\ made # <<>> /\ l.level = config.level
  BY <1>4 DEF Progress, InitOnce
<1>9. t \in through /\ Sinks(l, level) # {} => level > config.level
  <2>1. level \in Nat /\ l.level \in Nat
    BY <1>4 DEF Loggers
  <2>2. Sinks(l, level) # {} => ~(level <= l.level)
    BY SinksAbove
  <2> QED BY <2>1, <2>2, <1>8
<1>10. Configured'
  <2> SUFFICES ASSUME NEW i \in DOMAIN printed', printed'[i].through
               PROVE  /\ printed'[i].logger = logger' /\ made' # <<>>
                      /\ printed'[i].sinks # {} => printed'[i].level > config'.level
    BY DEF Configured
  <2>1. CASE i \in DOMAIN printed
    BY <2>1, <1>1, <1>2 DEF Types, Configured, shared
  <2>2. CASE i = Len(printed) + 1
    <3>1. printed'[i] = e
      BY <2>2, <1>1 DEF Types
    <3>2. t \in through
      <4>1. e.through = (t \in through)
        OBVIOUS
      <4> HIDE DEF e
      <4> QED BY <4>1, <3>1, Zenon
    <3>3. /\ e.logger = l /\ e.sinks = Sinks(l, level) /\ e.level = level
      OBVIOUS
    <3>4. logger' = logger /\ made' = made /\ config' = config
      BY <1>2 DEF shared
    <3> HIDE DEF e
    <3> QED BY <3>1, <3>2, <3>3, <3>4, <1>8, <1>9
  <2> QED BY <2>1, <2>2, <1>1 DEF Types
<1> QED BY <1>6, <1>7, <1>10

LEMMA LockInv ==
  ASSUME IInv, NEW t \in Threads, Lock(t)
  PROVE  IInv'
<1> USE LogMgrAssumption DEF IInv, Lock
<1>1. Types'
  <2>1. pc' \in [Threads -> {"idle", "lock", "create", "unlock", "undefined"}]
    BY DEF Types
  <2>2. config' \in [mode : Modes, level : Nat]
    <3>1. arg[t] \in [mode : Modes, level : Nat]
      BY DEF Types
    <3> QED BY <3>1 DEF Types
  <2>3. isInit' \in BOOLEAN
    BY Zenon DEF Types
  <2> QED BY <2>1, <2>2, <2>3 DEF Types
<1>2. Inside'
  BY DEF Inside, Types
<1>3. Progress'
  <2>1. CASE Unset
    BY <2>1 DEF Progress, Types, Unset, Inside
  <2>2. CASE ~Unset
    BY <2>2 DEF Progress, Types, Unset, Inside
  <2> QED BY <2>1, <2>2
<1>4. config' = config \/ made = <<>>
  BY DEF Progress, Unset, Types
<1>5. InitOnce'
  BY <1>4 DEF InitOnce
<1>6. Configured'
  BY <1>4 DEF Configured
<1> QED BY <1>1, <1>2, <1>3, <1>5, <1>6

LEMMA CreateInv ==
  ASSUME IInv, NEW t \in Threads, Create(t)
  PROVE  IInv'
<1> USE LogMgrAssumption DEF IInv, Create
<1>1. made = <<>> /\ isInit /\ config = arg[t] /\ made' = <<t>>
  <2>1. made = <<>> /\ isInit /\ config = arg[t]
    BY DEF Progress
  <2>2. made' = Append(made, t)
    OBVIOUS
  <2> QED BY <2>1, <2>2
<1>2. PICK opened \in BOOLEAN : logger' = Constructed(arg[t].mode, arg[t].level, opened, t)
  OBVIOUS
<1>3. Types'
  BY <1>1, <1>2 DEF Types, Constructed, Kind, Loggers, Modes
<1>4. Inside'
  BY DEF Inside, Types
<1>5. Progress'
  BY <1>1 DEF Progress, Types, Inside
<1>6. InitOnce'
  BY <1>1, <1>2 DEF InitOnce, Constructed
<1>7. Configured'
  BY <1>1 DEF Configured
<1> QED BY <1>3, <1>4, <1>5, <1>6, <1>7

LEMMA UnlockInv ==
  ASSUME IInv, NEW t \in Threads, Unlock(t)
  PROVE  IInv'
<1> USE LogMgrAssumption DEF IInv, Unlock, Leaving
<1>1. Types'
  BY DEF Types
<1>2. Inside'
  BY DEF Inside, Types
<1>3. Progress'
  <2>1. pc' = [pc EXCEPT ![t] = "idle"] /\ pc[t] = "unlock" /\ made # <<>>
    BY DEF Types, Progress
  <2>2. UNCHANGED <<isInit, made, config, arg>>
    OBVIOUS
  <2>3. \A u \in Threads : pc'[u] = "create" => pc[u] = "create"
    BY <2>1 DEF Types
  <2>4. \A u \in Threads : pc'[u] = "unlock" => pc[u] = "unlock"
    BY <2>1 DEF Types
  <2> QED BY <2>1, <2>2, <2>3, <2>4 DEF Progress
<1>4. InitOnce' /\ Configured'
  BY DEF InitOnce, Configured
<1> QED BY <1>1, <1>2, <1>3, <1>4

(* A call that only moves its own thread to where it holds no mutex.       *)
LEMMA OtherInv ==
  ASSUME IInv, NEW t \in Threads, InitLogMgr(t) \/ QYLogUndefined(t)
  PROVE  IInv'
<1> USE LogMgrAssumption DEF IInv, InitLogMgr, QYLogUndefined, NewCall, shared
<1>1. pc[t] = "idle" /\ UNCHANGED <<shared, through, printed>>
  OBVIOUS
<1>2. PICK q \in {"idle", "lock", "undefined"} : pc' = [pc EXCEPT ![t] = q]
  BY DEF Types
<1>3. Types'
  <2>1. arg' \in [Threads -> [mode : Modes, level : Nat]]
    BY DEF Types, Args
  <2>2. pc' \in [Threads -> {"idle", "lock", "create", "unlock", "undefined"}]
    BY <1>2 DEF Types
  <2> QED BY <2>1, <2>2, <1>1 DEF Types
<1>4. Inside'
  BY <1>1, <1>2 DEF Inside, Types
<1>5. Progress'
  <2>1. \A u \in Threads : pc'[u] = "create" => u # t /\ arg'[u] = arg[u]
    BY <1>2 DEF Types
  <2> QED BY <2>1, <1>1, <1>2 DEF Progress, Types
<1>6. InitOnce' /\ Configured'
  BY DEF InitOnce, Configured
<1> QED BY <1>3, <1>4, <1>5, <1>6

LEMMA StepInv == IInv /\ [LogNext]_logVars => IInv'
<1> SUFFICES ASSUME IInv, [LogNext]_logVars PROVE IInv'
  OBVIOUS
<1>1. CASE UNCHANGED logVars
  BY <1>1 DEF logVars, shared, IInv, Types, Inside, Progress, InitOnce, Configured
<1>2. CASE LogNext
  BY <1>2, QYLogInv, LockInv, CreateInv, UnlockInv, OtherInv DEF LogNext
<1> QED BY <1>1, <1>2

LEMMA Invariance == LogSpec => []IInv
BY InitInv, StepInv, PTL DEF LogSpec

-----------------------------------------------------------------------------
(* One initialisation takes effect, whole (InitOnce; InitLogMgr, lines     *)
(* 39-62 of qyLogMgr.cpp).                                                 *)
THEOREM InitialisedOnce == LogSpec => []InitOnce
<1>1. IInv => InitOnce
  BY DEF IInv
<1> QED BY <1>1, Invariance, PTL

(* A thread that went through the mutex logs with the configured logger    *)
(* (Configured; lines 41 and 69-72).                                       *)
THEOREM LogsConfigured == LogSpec => []Configured
<1>1. IInv => Configured
  BY DEF IInv
<1> QED BY <1>1, Invariance, PTL
=============================================================================
