--------------------------- MODULE SchedulerProofs ---------------------------
(***************************************************************************)
(* Scheduler for any number of tasks and any slice: the processor runs the *)
(* current task, which is the only running one; every other task will      *)
(* resume its own execution; a task's own code has its interrupts on; no   *)
(* interrupt is left in service behind a switch; each state queue is a     *)
(* whole list of the tasks in that state; and the processor goes round     *)
(* them as RoundRobin says.                                                *)
(***************************************************************************)
EXTENDS MCScheduler, LibraryProofs, TLAPS

LEMMA NullApart == Null \notin Task /\ Main \in Task
BY SchedulerAssumption

-----------------------------------------------------------------------------
(* The types of the lists. *)

LEMMA PushFrontTo ==
    ASSUME NEW V \in SUBSET Link, Null \in V, NEW t \in V \ {Null}, NEW l \in ListsTo(V)
    PROVE  PushFront(l, t) \in ListsTo(V) /\ PushFront(l, t).head = t
BY NullApart DEF PushFront, Singleton, Empty, ListsTo, Link

LEMMA PushBackTo ==
    ASSUME NEW V \in SUBSET Link, Null \in V, NEW t \in V \ {Null}, NEW l \in ListsTo(V)
    PROVE  PushBack(l, t) \in ListsTo(V)
BY NullApart DEF PushBack, Singleton, Empty, ListsTo, Link

LEMMA PopNodeTo ==
    ASSUME NEW V \in SUBSET Link, Null \in V, NEW t \in V \ {Null}, NEW l \in ListsTo(V)
    PROVE  PopNode(l, t) \in ListsTo(V)
<1>0. /\ l.head \in V /\ l.tail \in V /\ t \in Task
      /\ l.nxt \in [Task -> V] /\ l.prv \in [Task -> V]
  BY DEF ListsTo, Link
<1>1. Cleared(l) \in ListsTo(V)
  BY <1>0 DEF Cleared, ListsTo
<1>2. CASE t = l.head
  BY <1>0, <1>1, <1>2 DEF PopNode, PopFront, ListsTo
<1>3. CASE t # l.head /\ t = l.tail
  BY <1>0, <1>1, <1>3 DEF PopNode, PopBack, ListsTo
<1>4. CASE t # l.head /\ t # l.tail
  BY <1>0, <1>4 DEF PopNode, JoinList, ListsTo
<1> QED BY <1>2, <1>3, <1>4

LEMMA QueueTo ==
    ASSUME NEW V \in SUBSET Link, NEW Q \in QueuesTo(V), NEW f \in StateFlag
    PROVE  /\ Queue(Q, f) \in ListsTo(V)
           /\ \A l \in ListsTo(V) : WithQueue(Q, f, l) \in QueuesTo(V)
BY DEF Queue, WithQueue, QueuesTo, ListsTo

LEMMA PutBackTo ==
    ASSUME NEW V \in SUBSET Link, Null \in V, NEW Q \in QueuesTo(V),
           NEW f \in StateFlag, NEW t \in V \ {Null}
    PROVE  PutBack(Q, f, t) \in QueuesTo(V)
<1>1. PushBack(Queue(Q, f), t) \in ListsTo(V)
  BY QueueTo, PushBackTo
<1> QED BY <1>1, QueueTo DEF PutBack

LEMMA MoveTo ==
    ASSUME NEW V \in SUBSET Link, Null \in V, NEW Q \in QueuesTo(V),
           NEW f \in StateFlag, NEW g \in StateFlag, NEW t \in V \ {Null}
    PROVE  Move(Q, t, f, g) \in QueuesTo(V)
<1>1. Queue(Q, f) \in ListsTo(V)
  BY QueueTo
<1>2. PopNode(Queue(Q, f), t) \in ListsTo(V)
  BY <1>1, PopNodeTo
<1>3. WithQueue(Q, f, PopNode(Queue(Q, f), t)) \in QueuesTo(V)
  BY <1>2, QueueTo
<1> QED BY <1>3, PutBackTo DEF Move

\* What leads to V leads to more.
LEMMA ToMore ==
    ASSUME NEW V, NEW W, V \subseteq W
    PROVE  ListsTo(V) \subseteq ListsTo(W) /\ QueuesTo(V) \subseteq QueuesTo(W)
BY DEF ListsTo, QueuesTo

LEMMA BuiltLink == Built \in SUBSET Link /\ Null \in Built
BY DEF Built, Link

\* While no task is unmade, what leads to tasks that were built still does.
LEMMA MadeKept ==
    ASSUME Made, TypeOK,
           \A t \in Task : state[t] # "none" => state'[t] # "none",
           state' \in [Task -> StateFlag \union {"none"}]
    PROVE  /\ Built \subseteq Built'
           /\ task_list \in ListsTo(Built') /\ queues \in QueuesTo(Built')
<1>1. Built \subseteq Built'
  BY DEF Built
<1> QED BY <1>1, ToMore DEF Made

\* change_state of a task that was built.
LEMMA ChangeStateStep ==
    ASSUME TypeOK, Made, NEW t \in Built \ {Null}, NEW f \in StateFlag \ {"created"},
           ChangeState(t, f)
    PROVE  /\ queues' \in QueuesTo(Link) /\ queues' \in QueuesTo(Built')
           /\ state' \in [Task -> StateFlag \union {"none"}]
           /\ Built' = Built
           /\ f # "running" => In("running")' = In("running") \ {t}
           /\ f = "running" => In("running")' = In("running") \union {t}
<1>1. /\ t \in Task /\ state[t] \in StateFlag
      /\ state \in [Task -> StateFlag \union {"none"}]
      /\ state' = [state EXCEPT ![t] = f]
  BY BuiltLink DEF Built, TypeOK, ChangeState
<1>2. state' \in [Task -> StateFlag \union {"none"}]
  BY <1>1
<1>3. Built' = Built
  BY <1>1 DEF Built, StateFlag
<1>4. queues' \in QueuesTo(Built)
  BY <1>1, MoveTo, BuiltLink DEF Made, ChangeState
<1>5. queues' \in QueuesTo(Link)
  BY <1>4, ToMore, BuiltLink
<1>6. /\ f # "running" => In("running")' = In("running") \ {t}
      /\ f = "running" => In("running")' = In("running") \union {t}
  BY <1>1 DEF In
<1> QED BY <1>2, <1>3, <1>4, <1>5, <1>6

\* next() meets a task that was built: the list of tasks is not empty once
\* there is a turn.
LEMMA NextOfTo ==
    ASSUME Made, task_list.head # Null, NEW t \in Task
    PROVE  NextOf(t) \in Built \ {Null}
BY DEF NextOf, Made, ListsTo

-----------------------------------------------------------------------------
(* Contexts. *)

LEMMA ContextType ==
    ASSUME NEW t \in Task \union {Null}, NEW i \in BOOLEAN,
           NEW a \in {"boot", "code"}
    PROVE  Context(t, a, i) \in Contexts
BY DEF Context, Contexts

LEMMA InitInvariant == Init => IInv
<1> SUFFICES ASSUME Init PROVE IInv
  OBVIOUS
<1>1. \A t \in Task : ctx[t] = Fresh(t) /\ Fresh(t) \in Contexts
  BY ContextType DEF Init, Fresh
<1>2. ctx \in [Task -> Contexts]
  BY <1>1 DEF Init
<1>3. cpu = Context(Null, "boot", FALSE) /\ cpu \in Contexts
  BY ContextType DEF Init
<1>4. left \in 0 .. Slice
  BY SchedulerAssumption DEF Init
<1>5. TypeOK
  BY <1>2, <1>3, <1>4 DEF Init, TypeOK, Link, Links, ListsTo, QueuesTo
<1>10. Made
  BY DEF Init, Made, Built, Links, ListsTo, QueuesTo
<1>6. Records
  <2>1. ASSUME NEW t \in Task
        PROVE  ctx[t].task = t /\ ctx[t].at = "code" /\ ctx[t].if /\ ~ctx[t].inner
    <3>1. Fresh(t).task = t /\ Fresh(t).at = "code" /\ Fresh(t).if /\ ~Fresh(t).inner
      BY DEF Fresh, Context
    <3> QED BY <1>1, <3>1
  <2> QED BY <2>1 DEF Records
<1>7. /\ cpu.at = "boot" /\ cpu.task = Null /\ ~cpu.if
  BY <1>3 DEF Context
<1>8. In("running") = {}
  BY DEF Init, In
<1>9. BeforeMain
  BY <1>7, <1>8 DEF BeforeMain, Init
<1> QED BY <1>5, <1>6, <1>9, <1>10 DEF IInv, Init, InYield, InHandler, NoneInService, Turn

-----------------------------------------------------------------------------
(* Booting. *)

\* The processor and the contexts do not change while the tasks are made.
LEMMA CreateTaskStep ==
    ASSUME IInv, NEW t \in Task, CreateTask(t)
    PROVE  IInv'
<1>1. /\ state' \in [Task -> StateFlag \union {"none"}] /\ state'[t] = "ready"
      /\ \A u \in Task : state[u] # "none" => state'[u] # "none"
      /\ In("running")' = {}
  BY DEF IInv, TypeOK, BeforeMain, CreateTask, In, StateFlag
<1>2. /\ sched = "null" /\ sched' = sched /\ it' = it /\ cur' = cur /\ ctx' = ctx
      /\ cpu' = cpu /\ left' = left /\ irr' = irr /\ isr' = isr /\ irq' = irq
      /\ last' = last /\ task_list' = task_list
  BY DEF CreateTask, timer, boot
<1>3. /\ Built \subseteq Built' /\ Built' \in SUBSET Link /\ Null \in Built' /\ t \in Built'
      /\ t # Null
      /\ task_list \in ListsTo(Built') /\ queues \in QueuesTo(Built')
  BY <1>1, MadeKept, NullApart DEF IInv, Built, Link
<1>4. queues' \in QueuesTo(Built')
  <2>1. PutBack(queues, "created", t) \in QueuesTo(Built')
    BY <1>3, PutBackTo DEF StateFlag
  <2> QED BY <1>3, <2>1, MoveTo DEF CreateTask, StateFlag
<1>5. Made'
  BY <1>2, <1>3, <1>4 DEF IInv, Made
<1>6. TypeOK'
  <2>1. queues' \in QueuesTo(Link)
    BY <1>3, <1>4, ToMore
  <2> QED BY <1>1, <1>2, <2>1 DEF IInv, TypeOK
<1> QED
  BY <1>1, <1>2, <1>5, <1>6
     DEF IInv, Records, BeforeMain, InYield, InHandler, NoneInService, Turn

LEMMA ChangeSchedulerStep == IInv /\ ChangeScheduler => IInv'
<1> SUFFICES ASSUME IInv, ChangeScheduler PROVE IInv'
  OBVIOUS
<1>1. /\ sched = "null" /\ sched' = "adopting" /\ cur' = cur /\ ctx' = ctx
      /\ cpu' = cpu /\ left' = left /\ irr' = irr /\ isr' = isr /\ irq' = irq
      /\ last' = last /\ task_list' = task_list /\ state' = state /\ queues' = queues
  BY DEF ChangeScheduler, timer, tasks
<1>2. it' \in Built
  BY DEF ChangeScheduler, IInv, Made, QueuesTo, StateFlag
<1>3. TypeOK' /\ Made'
  BY <1>1, <1>2, BuiltLink DEF IInv, TypeOK, Made, Built
<1> QED
  BY <1>1, <1>3
     DEF IInv, Records, BeforeMain, InYield, InHandler, NoneInService, Turn, In

LEMMA AdoptStep == IInv /\ Adopt => IInv'
<1> SUFFICES ASSUME IInv, Adopt PROVE IInv'
  OBVIOUS
<1>1. /\ sched = "adopting" /\ sched' = sched /\ cur' = cur /\ ctx' = ctx
      /\ cpu' = cpu /\ left' = left /\ irr' = irr /\ isr' = isr /\ irq' = irq
      /\ last' = last /\ state' = state /\ queues' = queues
  BY DEF Adopt, timer
<1>2. /\ task_list \in ListsTo(Built) /\ it \in Built \ {Null} /\ it \in Task
      /\ queues.nxt \in [Task -> Built]
  BY DEF IInv, Made, Adopt, QueuesTo, Built
<1>3. task_list' \in ListsTo(Built) /\ it' \in Built
  BY <1>2, PushFrontTo, BuiltLink DEF Adopt
<1>4. TypeOK' /\ Made'
  <2>1. task_list' \in ListsTo(Link) /\ it' \in Link
    BY <1>3, ToMore, BuiltLink
  <2> QED BY <1>1, <1>3, <2>1 DEF IInv, TypeOK, Made, Built
<1> QED
  BY <1>1, <1>4
     DEF IInv, Records, BeforeMain, InYield, InHandler, NoneInService, Turn, In

\* main starts with a context of its own and is the only running task.
LEMMA StartMainStep == IInv /\ StartMain => IInv'
<1> SUFFICES ASSUME IInv, StartMain PROVE IInv'
  OBVIOUS
<1>1. /\ sched = "adopting" /\ sched' = "rr" /\ cur' = Main /\ ctx' = ctx
      /\ cpu' = ctx[Main] /\ left' = left /\ irr' = irr /\ isr' = isr /\ irq' = irq
      /\ last' = last /\ it' = it
  BY DEF StartMain, timer
<1>2. state' \in [Task -> StateFlag \union {"none"}] /\ In("running")' = {Main}
  <2>1. In("running") = {} /\ state \in [Task -> StateFlag \union {"none"}]
    BY <1>1 DEF IInv, BeforeMain, TypeOK
  <2> QED BY <2>1, NullApart DEF StartMain, In, StateFlag
<1>3. /\ Built \subseteq Built' /\ Built' \in SUBSET Link /\ Null \in Built'
      /\ Main \in Built' /\ Main # Null
      /\ task_list \in ListsTo(Built') /\ queues \in QueuesTo(Built')
  <2>1. /\ state'[Main] = "running"
        /\ \A u \in Task : state[u] # "none" => state'[u] # "none"
    BY NullApart DEF StartMain, IInv, TypeOK
  <2> QED BY <1>2, <2>1, MadeKept, NullApart DEF IInv, Built, Link
<1>4. task_list' \in ListsTo(Built') /\ task_list'.head = Main
  BY <1>3, PushFrontTo DEF StartMain
<1>5. queues' \in QueuesTo(Built')
  <2>1. PutBack(queues, "created", Main) \in QueuesTo(Built')
    BY <1>3, PutBackTo DEF StateFlag
  <2> QED BY <1>3, <2>1, MoveTo DEF StartMain, StateFlag
<1>6. /\ cpu' \in Contexts /\ cpu'.task = Main
      /\ cpu'.at \in {"code", "locking", "back"}
      /\ cpu'.if <=> cpu'.at # "back"
      /\ cpu'.at # "code" => cpu'.outer
      /\ ~cpu'.inner
  BY <1>1, NullApart DEF IInv, TypeOK, Records
<1>7. Made'
  BY <1>1, <1>3, <1>4, <1>5 DEF IInv, Made
<1>8. irq = "no"
  BY <1>1 DEF IInv, BeforeMain
<1>9. TypeOK'
  <2>1. task_list' \in ListsTo(Link) /\ queues' \in QueuesTo(Link)
    BY <1>3, <1>4, <1>5, ToMore
  <2> QED BY <1>1, <1>2, <1>6, <2>1, NullApart DEF IInv, TypeOK, Link
<1>10. Records'
  BY <1>1 DEF IInv, Records
<1>11. InYield'
  BY <1>1, <1>6, NullApart DEF InYield
<1>12. Turn'
  BY <1>1, <1>2, <1>4, <1>6, <1>8, NullApart DEF Turn
<1> QED
  BY <1>1, <1>7, <1>8, <1>9, <1>10, <1>11, <1>12
     DEF IInv, BeforeMain, InHandler, NoneInService

-----------------------------------------------------------------------------
(* yield. *)

\* A step of a task that changes nothing but where the processor is.
LEMMA OnlyCpu ==
    ASSUME IInv, cpu.at # "boot", cpu' \in Contexts,
           UNCHANGED <<task_list, cur, state, queues, ctx, timer, boot>>
    PROVE  /\ sched = "rr" /\ sched' = sched /\ task_list' = task_list /\ cur' = cur
           /\ irq' = irq /\ last' = last /\ In("running")' = In("running")
           /\ TypeOK' /\ Made' /\ Records' /\ BeforeMain' /\ NoneInService'
<1>1. /\ sched = "rr" /\ sched' = sched /\ it' = it /\ task_list' = task_list /\ cur' = cur
      /\ state' = state /\ queues' = queues /\ ctx' = ctx /\ left' = left
      /\ irr' = irr /\ isr' = isr /\ irq' = irq /\ last' = last
  BY DEF timer, boot, IInv, BeforeMain
<1>2. TypeOK'
  BY <1>1 DEF IInv, TypeOK
<1>3. Made'
  BY <1>1 DEF IInv, Made, Built
<1> QED
  BY <1>1, <1>2, <1>3 DEF IInv, Records, BeforeMain, NoneInService, In

LEMMA YieldLockStep == IInv /\ YieldLock => IInv'
<1> SUFFICES ASSUME IInv, YieldLock PROVE IInv'
  OBVIOUS
<1>1. /\ irq = "no" /\ cpu.at = "code" /\ cpu \in Contexts
  BY DEF YieldLock, Runs, IInv, TypeOK
<1>2. /\ cpu' \in Contexts /\ cpu'.task = cpu.task /\ cpu'.at = "locking"
      /\ cpu'.if = cpu.if /\ cpu'.outer = cpu.if /\ cpu'.inner = cpu.inner
  BY <1>1 DEF YieldLock, Contexts
<1>3. /\ sched = "rr" /\ sched' = sched /\ task_list' = task_list /\ cur' = cur
      /\ irq' = irq /\ In("running")' = In("running")
      /\ TypeOK' /\ Made' /\ Records' /\ BeforeMain' /\ NoneInService'
  BY <1>1, <1>2, OnlyCpu DEF YieldLock
<1>4. InYield' /\ InHandler'
  BY <1>1, <1>2, <1>3 DEF IInv, InYield, InHandler
<1>5. Turn'
  BY <1>1, <1>2, <1>3 DEF IInv, Turn
<1> QED BY <1>3, <1>4, <1>5 DEF IInv

LEMMA YieldClearStep == IInv /\ YieldClear => IInv'
<1> SUFFICES ASSUME IInv, YieldClear PROVE IInv'
  OBVIOUS
<1>1. /\ irq = "no" /\ cpu.at = "locking" /\ cpu \in Contexts
  BY DEF YieldClear, Runs, IInv, TypeOK
<1>2. /\ cpu' \in Contexts /\ cpu'.task = cpu.task /\ cpu'.at = "next"
      /\ ~cpu'.if /\ cpu'.outer = cpu.outer /\ cpu'.inner = cpu.inner
  BY <1>1 DEF YieldClear, Contexts
<1>3. /\ sched = "rr" /\ sched' = sched /\ task_list' = task_list /\ cur' = cur
      /\ irq' = irq /\ In("running")' = In("running")
      /\ TypeOK' /\ Made' /\ Records' /\ BeforeMain' /\ NoneInService'
  BY <1>1, <1>2, OnlyCpu DEF YieldClear
<1>4. InYield' /\ InHandler'
  BY <1>1, <1>2, <1>3 DEF IInv, InYield, InHandler
<1>5. Turn'
  BY <1>1, <1>2, <1>3 DEF IInv, Turn
<1> QED BY <1>3, <1>4, <1>5 DEF IInv

LEMMA UnlockInnerStep == IInv /\ UnlockInner => IInv'
<1> SUFFICES ASSUME IInv, UnlockInner PROVE IInv'
  OBVIOUS
<1>1. /\ irq = "no" /\ cpu.at = "back" /\ cpu \in Contexts
  BY DEF UnlockInner, Runs, IInv, TypeOK
<1>2. /\ cpu' \in Contexts /\ cpu'.task = cpu.task /\ cpu'.at = "unlock"
      /\ cpu'.if = (cpu.if \/ cpu.inner) /\ cpu'.outer = cpu.outer /\ ~cpu'.inner
  BY <1>1 DEF UnlockInner, Contexts
<1>3. /\ sched = "rr" /\ sched' = sched /\ task_list' = task_list /\ cur' = cur
      /\ irq' = irq /\ In("running")' = In("running")
      /\ TypeOK' /\ Made' /\ Records' /\ BeforeMain' /\ NoneInService'
  BY <1>1, <1>2, OnlyCpu DEF UnlockInner
<1>4. ~cpu.if /\ ~cpu.inner
  BY <1>1, <1>3 DEF IInv, InYield
<1>5. InYield' /\ InHandler'
  BY <1>1, <1>2, <1>3, <1>4 DEF IInv, InYield, InHandler
<1>6. Turn'
  BY <1>1, <1>2, <1>3 DEF IInv, Turn
<1> QED BY <1>3, <1>5, <1>6 DEF IInv

\* The flag that yield noted is up: it was called with interrupts on.
LEMMA UnlockOuterStep == IInv /\ UnlockOuter => IInv'
<1> SUFFICES ASSUME IInv, UnlockOuter PROVE IInv'
  OBVIOUS
<1>1. /\ irq = "no" /\ cpu.at = "unlock" /\ cpu \in Contexts
  BY DEF UnlockOuter, Runs, IInv, TypeOK
<1>2. cpu.outer
  BY <1>1 DEF IInv, InYield, BeforeMain
<1>3. /\ cpu' \in Contexts /\ cpu'.task = cpu.task /\ cpu'.at = "code"
      /\ cpu'.if /\ ~cpu'.inner
  <2>1. cpu.task \in Task \union {Null} /\ (cpu.if \/ cpu.outer) \in BOOLEAN
    BY <1>1 DEF Contexts
  <2>2. cpu' = Context(cpu.task, "code", cpu.if \/ cpu.outer)
    BY DEF UnlockOuter
  <2>3. cpu' \in Contexts
    BY <2>1, <2>2, ContextType
  <2> QED BY <1>2, <2>2, <2>3 DEF Context
<1>4. /\ sched = "rr" /\ sched' = sched /\ task_list' = task_list /\ cur' = cur
      /\ irq' = irq /\ In("running")' = In("running")
      /\ TypeOK' /\ Made' /\ Records' /\ BeforeMain' /\ NoneInService'
  BY <1>1, <1>3, OnlyCpu DEF UnlockOuter
<1>5. InYield' /\ InHandler'
  BY <1>1, <1>3, <1>4 DEF IInv, InYield, InHandler
<1>6. Turn'
  BY <1>1, <1>3, <1>4 DEF IInv, Turn
<1> QED BY <1>4, <1>5, <1>6 DEF IInv

\* next() leaves the task that runs in prev.
LEMMA YieldNextStep == IInv /\ YieldNext => IInv'
<1> SUFFICES ASSUME IInv, YieldNext PROVE IInv'
  OBVIOUS
<1>1. /\ irq = "no" /\ cpu.at = "next" /\ cpu \in Contexts /\ sched = "rr" /\ cur \in Task
      /\ task_list.head # Null /\ cpu.task = cur
  BY DEF YieldNext, Runs, IInv, TypeOK, BeforeMain, Turn, Link
<1>2. /\ cpu' \in Contexts /\ cpu'.task = cpu.task /\ cpu'.at = "leave" /\ cpu'.prev = cur
      /\ cpu'.if = cpu.if /\ cpu'.outer = cpu.outer /\ cpu'.inner = cpu.inner
  BY <1>1 DEF YieldNext, Contexts
<1>3. cur' \in Built \ {Null} /\ left' \in 0 .. Slice
  BY <1>1, NextOfTo, SchedulerAssumption DEF YieldNext, IInv
<1>4. /\ sched' = sched /\ it' = it /\ task_list' = task_list /\ state' = state
      /\ queues' = queues /\ ctx' = ctx /\ irr' = irr /\ isr' = isr
      /\ irq' = irq /\ last' = last
  BY DEF YieldNext, boot
<1>5. TypeOK' /\ Made'
  BY <1>1, <1>2, <1>3, <1>4, BuiltLink DEF IInv, TypeOK, Made, Built
<1>6. Records' /\ BeforeMain' /\ NoneInService' /\ InHandler'
  BY <1>1, <1>4 DEF IInv, Records, BeforeMain, NoneInService, InHandler
<1>7. InYield'
  BY <1>1, <1>2, <1>4 DEF IInv, InYield
<1>8. Turn'
  BY <1>1, <1>2, <1>4 DEF IInv, Turn, In
<1> QED BY <1>5, <1>6, <1>7, <1>8 DEF IInv

\* The task that runs goes to the ready queue: nothing is running now.
LEMMA SwitchLeaveStep == IInv /\ SwitchLeave => IInv'
<1> SUFFICES ASSUME IInv, SwitchLeave PROVE IInv'
  OBVIOUS
<1>1. /\ irq = "no" /\ cpu.at = "leave" /\ cpu \in Contexts /\ sched = "rr" /\ cur \in Link
      /\ cpu.prev = cpu.task /\ cpu.prev \in Task /\ In("running") = {cpu.prev}
      /\ ~cpu.if
  BY DEF SwitchLeave, Runs, IInv, TypeOK, BeforeMain, Turn, InYield
<1>2. /\ cpu' \in Contexts /\ cpu'.task = cpu.task /\ cpu'.at = "enter" /\ ~cpu'.if
      /\ cpu'.prev = cpu.prev /\ cpu'.other = cur /\ cpu'.outer = cpu.outer
      /\ cpu'.inner = cpu.if
  BY <1>1 DEF SwitchLeave, Contexts, Link
<1>3. /\ sched' = sched /\ it' = it /\ task_list' = task_list /\ cur' = cur
      /\ ctx' = ctx /\ left' = left /\ irr' = irr /\ isr' = isr
      /\ irq' = irq /\ last' = last
  BY DEF SwitchLeave, boot, timer
<1>4. /\ queues' \in QueuesTo(Link) /\ queues' \in QueuesTo(Built')
      /\ state' \in [Task -> StateFlag \union {"none"}]
      /\ Built' = Built /\ In("running")' = {}
  <2>1. cpu.prev \in Built \ {Null}
    BY <1>1, NullApart DEF In, Built
  <2>2. "ready" \in StateFlag \ {"created"} /\ TypeOK /\ Made /\ ChangeState(cpu.prev, "ready")
    BY DEF StateFlag, SwitchLeave, IInv
  <2> QED BY <1>1, <2>1, <2>2, ChangeStateStep
<1>5. TypeOK' /\ Made'
  BY <1>1, <1>2, <1>3, <1>4 DEF IInv, TypeOK, Made
<1>6. Records' /\ BeforeMain' /\ NoneInService' /\ InHandler'
  BY <1>1, <1>3 DEF IInv, Records, BeforeMain, NoneInService, InHandler
<1>7. InYield'
  BY <1>1, <1>2, <1>3 DEF IInv, InYield
<1>8. Turn'
  BY <1>1, <1>2, <1>3, <1>4 DEF IInv, Turn
<1> QED BY <1>5, <1>6, <1>7, <1>8 DEF IInv

\* The next one leaves the queue it is in for the running one.
LEMMA SwitchEnterStep == IInv /\ SwitchEnter => IInv'
<1> SUFFICES ASSUME IInv, SwitchEnter PROVE IInv'
  OBVIOUS
<1>1. /\ irq = "no" /\ cpu.at = "enter" /\ cpu \in Contexts /\ sched = "rr" /\ cur \in Task
      /\ cpu.other = cur /\ In("running") = {}
  BY DEF SwitchEnter, Runs, IInv, TypeOK, BeforeMain, Turn, InYield, Link
<1>2. /\ cpu' \in Contexts /\ cpu'.task = cpu.task /\ cpu'.at = "load" /\ cpu'.if = cpu.if
      /\ cpu'.prev = cpu.prev /\ cpu'.other = cpu.other /\ cpu'.outer = cpu.outer
      /\ cpu'.inner = cpu.inner
  BY <1>1 DEF SwitchEnter, Contexts
<1>3. /\ sched' = sched /\ it' = it /\ task_list' = task_list /\ cur' = cur
      /\ ctx' = ctx /\ left' = left /\ irr' = irr /\ isr' = isr
      /\ irq' = irq /\ last' = last
  BY DEF SwitchEnter, boot, timer
<1>4. /\ queues' \in QueuesTo(Link) /\ queues' \in QueuesTo(Built')
      /\ state' \in [Task -> StateFlag \union {"none"}]
      /\ Built' = Built /\ In("running")' = {cur}
  <2>1. cur \in Built \ {Null}
    BY <1>1, NullApart DEF IInv, Made
  <2>2. "running" \in StateFlag \ {"created"} /\ TypeOK /\ Made /\ ChangeState(cur, "running")
    BY <1>1 DEF StateFlag, SwitchEnter, IInv
  <2> QED BY <1>1, <2>1, <2>2, ChangeStateStep
<1>5. TypeOK' /\ Made'
  BY <1>1, <1>2, <1>3, <1>4 DEF IInv, TypeOK, Made
<1>6. Records' /\ BeforeMain' /\ NoneInService' /\ InHandler'
  BY <1>1, <1>3 DEF IInv, Records, BeforeMain, NoneInService, InHandler
<1>7. InYield'
  BY <1>1, <1>2, <1>3 DEF IInv, InYield
<1>8. Turn'
  BY <1>1, <1>2, <1>3, <1>4 DEF IInv, Turn
<1> QED BY <1>5, <1>6, <1>7, <1>8 DEF IInv

\* A saved context is loaded: a task that is in its own code, before the
\* interrupt flag is cleared in yield, or in SwitchContext itself.
LEMMA LoadStep ==
    ASSUME IInv, sched = "rr", cur \in Task, NEW c \in Contexts, NEW p \in Task,
           c.task = p, c.at \in {"code", "locking", "back"},
           c.if <=> c.at # "back", c.at # "code" => c.outer, ~c.inner,
           ctx' = [ctx EXCEPT ![p] = c], cpu' = ctx'[cur], sched' = sched
    PROVE  /\ ctx' \in [Task -> Contexts] /\ cpu' \in Contexts
           /\ Records' /\ InYield'
           /\ cpu'.task = cur /\ cpu'.at \in {"code", "locking", "back"}
<1>1. ctx \in [Task -> Contexts]
  BY DEF IInv, TypeOK
<1>2. ctx' \in [Task -> Contexts]
  BY <1>1
<1>3. Records'
  <2> SUFFICES ASSUME NEW t \in Task
               PROVE  /\ ctx'[t].task = t
                      /\ ctx'[t].at \in {"code", "locking", "back"}
                      /\ ctx'[t].if <=> ctx'[t].at # "back"
                      /\ ctx'[t].at # "code" => ctx'[t].outer
                      /\ ~ctx'[t].inner
    BY DEF Records
  <2>1. CASE t = p
    BY <1>1, <2>1
  <2>2. CASE t # p
    BY <1>1, <2>2 DEF IInv, Records
  <2> QED BY <2>1, <2>2
<1>4. /\ cpu'.task = cur /\ cpu'.at \in {"code", "locking", "back"}
      /\ cpu'.if <=> cpu'.at # "back"
      /\ cpu'.at # "code" => cpu'.outer
      /\ ~cpu'.inner
  BY <1>3 DEF Records
<1>5. InYield'
  BY <1>4 DEF InYield
<1> QED BY <1>2, <1>3, <1>4, <1>5

LEMMA SwitchContextStep == IInv /\ SwitchContext => IInv'
<1> SUFFICES ASSUME IInv, SwitchContext PROVE IInv'
  OBVIOUS
<1>1. /\ irq = "no" /\ cpu.at = "load" /\ cpu \in Contexts /\ sched = "rr" /\ cur \in Task
      /\ cpu.other = cur /\ cpu.prev = cpu.task /\ cpu.task \in Task /\ ~cpu.if /\ cpu.outer
      /\ ~cpu.inner /\ In("running") = {cur}
  BY DEF SwitchContext, Runs, IInv, TypeOK, BeforeMain, Turn, InYield, Link
<1> PICK c \in Contexts : c = [cpu EXCEPT !.at = "back"]
  BY <1>1 DEF Contexts
<1>2. /\ c = [cpu EXCEPT !.at = "back"] /\ c.task = cpu.task /\ c.at = "back"
      /\ c.if = cpu.if /\ c.outer = cpu.outer /\ c.inner = cpu.inner
  BY <1>1 DEF Contexts
<1>3. /\ sched' = sched /\ it' = it /\ task_list' = task_list /\ cur' = cur
      /\ state' = state /\ queues' = queues /\ left' = left /\ irr' = irr /\ isr' = isr
      /\ irq' = irq /\ last' = last
  BY DEF SwitchContext, boot, timer
<1>4. ctx' = [ctx EXCEPT ![cpu.task] = c] /\ cpu' = ctx'[cur]
  BY <1>1, <1>2 DEF SwitchContext
<1>5. /\ ctx' \in [Task -> Contexts] /\ cpu' \in Contexts
      /\ Records' /\ InYield'
      /\ cpu'.task = cur /\ cpu'.at \in {"code", "locking", "back"}
  BY <1>1, <1>2, <1>3, <1>4, LoadStep
<1>6. TypeOK' /\ Made'
  BY <1>3, <1>5 DEF IInv, TypeOK, Made, Built
<1>7. BeforeMain' /\ NoneInService' /\ InHandler'
  BY <1>1, <1>3 DEF IInv, BeforeMain, NoneInService, InHandler
<1>8. Turn'
  BY <1>1, <1>3, <1>5 DEF IInv, Turn, In
<1> QED BY <1>5, <1>6, <1>7, <1>8 DEF IInv

-----------------------------------------------------------------------------
(* The timer. *)

LEMMA PitTickStep == IInv /\ PitTick => IInv'
<1> SUFFICES ASSUME IInv, PitTick PROVE IInv'
  OBVIOUS
<1>1. /\ irr' = TRUE /\ sched' = sched /\ it' = it /\ task_list' = task_list /\ cur' = cur
      /\ state' = state /\ queues' = queues /\ ctx' = ctx /\ cpu' = cpu /\ left' = left
      /\ isr' = isr /\ irq' = irq /\ last' = last
  BY DEF PitTick, tasks, boot
<1>2. TypeOK'
  BY <1>1 DEF IInv, TypeOK
<1> QED
  BY <1>1, <1>2
     DEF IInv, Made, Built, Records, BeforeMain, InYield, InHandler, NoneInService, Turn, In

LEMMA InterruptStep == IInv /\ Interrupt => IInv'
<1> SUFFICES ASSUME IInv, Interrupt PROVE IInv'
  OBVIOUS
<1>1. /\ sched' = sched /\ it' = it /\ task_list' = task_list /\ cur' = cur
      /\ state' = state /\ queues' = queues /\ ctx' = ctx /\ cpu' = cpu
      /\ last' = last /\ irr' = FALSE /\ isr' = TRUE /\ irq' \in {"tick", "eoi"}
      /\ left' = IF left = 0 THEN 0 ELSE left - 1
  BY DEF Interrupt, tasks, boot
<1>2. left' \in 0 .. Slice
  BY <1>1, SchedulerAssumption DEF IInv, TypeOK
<1>3. TypeOK'
  BY <1>1, <1>2 DEF IInv, TypeOK
<1>4. sched = "rr" /\ irq = "no" /\ cpu.at \in {"code", "locking"}
  BY DEF Interrupt, Accepted, IInv, BeforeMain, InYield
<1>5. Made' /\ Records' /\ BeforeMain' /\ InYield' /\ NoneInService'
  BY <1>1, <1>4 DEF IInv, Made, Built, Records, BeforeMain, InYield, NoneInService
<1>6. InHandler' /\ Turn'
  BY <1>1, <1>4 DEF IInv, InHandler, Turn, In
<1> QED BY <1>3, <1>5, <1>6 DEF IInv

LEMMA TickNextStep == IInv /\ TickNext => IInv'
<1> SUFFICES ASSUME IInv, TickNext PROVE IInv'
  OBVIOUS
<1>1. /\ irq = "tick" /\ cpu.at \in {"code", "locking"} /\ sched = "rr" /\ cur \in Task
      /\ task_list.head # Null /\ cpu.task = cur
  BY DEF TickNext, IInv, TypeOK, BeforeMain, InHandler, Turn, Link
<1>2. cur' \in Built \ {Null} /\ last' = cur /\ irq' = "leave"
  BY <1>1, NextOfTo DEF TickNext, IInv
<1>3. /\ sched' = sched /\ it' = it /\ task_list' = task_list /\ state' = state
      /\ queues' = queues /\ ctx' = ctx /\ cpu' = cpu /\ left' = left /\ irr' = irr
      /\ isr' = isr
  BY DEF TickNext, boot
<1>4. TypeOK' /\ Made'
  BY <1>1, <1>2, <1>3, BuiltLink DEF IInv, TypeOK, Made, Built
<1>5. Records' /\ BeforeMain' /\ NoneInService' /\ InHandler' /\ InYield'
  BY <1>1, <1>2, <1>3 DEF IInv, Records, BeforeMain, NoneInService, InHandler, InYield
<1>6. Turn'
  BY <1>1, <1>2, <1>3 DEF IInv, Turn, In
<1> QED BY <1>4, <1>5, <1>6 DEF IInv

LEMMA TickLeaveStep == IInv /\ TickLeave => IInv'
<1> SUFFICES ASSUME IInv, TickLeave PROVE IInv'
  OBVIOUS
<1>1. /\ irq = "leave" /\ cpu.at \in {"code", "locking"} /\ sched = "rr"
      /\ last = cpu.task /\ last \in Task /\ In("running") = {last}
  BY DEF TickLeave, IInv, TypeOK, BeforeMain, InHandler, InYield, Turn
<1>2. /\ sched' = sched /\ it' = it /\ task_list' = task_list /\ cur' = cur
      /\ ctx' = ctx /\ cpu' = cpu /\ left' = left /\ irr' = irr /\ isr' = isr
      /\ irq' = "enter" /\ last' = last
  BY DEF TickLeave, boot
<1>3. /\ queues' \in QueuesTo(Link) /\ queues' \in QueuesTo(Built')
      /\ state' \in [Task -> StateFlag \union {"none"}]
      /\ Built' = Built /\ In("running")' = {}
  <2>1. last \in Built \ {Null}
    BY <1>1, NullApart DEF In, Built
  <2>2. "ready" \in StateFlag \ {"created"} /\ TypeOK /\ Made /\ ChangeState(last, "ready")
    BY DEF StateFlag, TickLeave, IInv
  <2> QED BY <1>1, <2>1, <2>2, ChangeStateStep
<1>4. TypeOK' /\ Made'
  BY <1>2, <1>3 DEF IInv, TypeOK, Made
<1>5. Records' /\ BeforeMain' /\ NoneInService' /\ InHandler' /\ InYield'
  BY <1>1, <1>2 DEF IInv, Records, BeforeMain, NoneInService, InHandler, InYield
<1>6. Turn'
  BY <1>1, <1>2, <1>3 DEF IInv, Turn
<1> QED BY <1>4, <1>5, <1>6 DEF IInv

\* The frame of the interrupted task is saved and that of the next one put
\* in its place.
LEMMA TickEnterStep == IInv /\ TickEnter => IInv'
<1> SUFFICES ASSUME IInv, TickEnter PROVE IInv'
  OBVIOUS
<1>1. /\ irq = "enter" /\ cpu.at \in {"code", "locking"} /\ sched = "rr" /\ cur \in Task
      /\ cpu \in Contexts /\ last = cpu.task /\ last \in Task /\ In("running") = {}
      /\ cpu.if /\ (cpu.at # "code" => cpu.outer) /\ ~cpu.inner
  BY DEF TickEnter, IInv, TypeOK, BeforeMain, InHandler, InYield, Turn, Link
<1>2. /\ sched' = sched /\ it' = it /\ task_list' = task_list /\ cur' = cur
      /\ irr' = irr /\ isr' = isr /\ irq' = "eoi" /\ last' = Null /\ left' \in 0 .. Slice
  BY SchedulerAssumption DEF TickEnter, boot
<1>3. /\ queues' \in QueuesTo(Link) /\ queues' \in QueuesTo(Built')
      /\ state' \in [Task -> StateFlag \union {"none"}]
      /\ Built' = Built /\ In("running")' = {cur}
  <2>1. cur \in Built \ {Null}
    BY <1>1, NullApart DEF IInv, Made
  <2>2. "running" \in StateFlag \ {"created"} /\ TypeOK /\ Made /\ ChangeState(cur, "running")
    BY DEF StateFlag, TickEnter, IInv
  <2> QED BY <1>1, <2>1, <2>2, ChangeStateStep
<1>4. ctx' = [ctx EXCEPT ![last] = cpu] /\ cpu' = ctx'[cur]
  BY DEF TickEnter
<1>5. /\ ctx' \in [Task -> Contexts] /\ cpu' \in Contexts
      /\ Records' /\ InYield'
      /\ cpu'.task = cur /\ cpu'.at \in {"code", "locking", "back"}
  <2>1. PICK c \in Contexts : c = cpu
    BY <1>1
  <2>2. PICK p \in Task : p = last
    BY <1>1
  <2> QED BY <1>1, <1>2, <1>4, <2>1, <2>2, LoadStep
<1>6. TypeOK' /\ Made'
  BY <1>2, <1>3, <1>5 DEF IInv, TypeOK, Made, Link
<1>7. BeforeMain' /\ NoneInService' /\ InHandler'
  BY <1>1, <1>2, <1>5 DEF IInv, BeforeMain, NoneInService, InHandler
<1>8. Turn'
  BY <1>1, <1>2, <1>3, <1>5 DEF IInv, Turn
<1> QED BY <1>5, <1>6, <1>7, <1>8 DEF IInv

LEMMA EndOfInterruptStep == IInv /\ EndOfInterrupt => IInv'
<1> SUFFICES ASSUME IInv, EndOfInterrupt PROVE IInv'
  OBVIOUS
<1>1. /\ irq = "eoi" /\ irq' = "no" /\ isr' = FALSE /\ sched' = sched /\ it' = it
      /\ task_list' = task_list /\ cur' = cur /\ state' = state /\ queues' = queues
      /\ ctx' = ctx /\ cpu' = cpu /\ left' = left /\ irr' = irr /\ last' = last
  BY DEF EndOfInterrupt, tasks, boot
<1>2. TypeOK'
  BY <1>1 DEF IInv, TypeOK
<1>3. Made' /\ Records' /\ BeforeMain' /\ InYield' /\ InHandler' /\ NoneInService'
  BY <1>1 DEF IInv, Made, Built, Records, BeforeMain, InYield, InHandler, NoneInService
<1>4. Turn'
  BY <1>1 DEF IInv, InHandler, Turn, In
<1> QED BY <1>2, <1>3, <1>4 DEF IInv

-----------------------------------------------------------------------------
LEMMA StutterStep == IInv /\ UNCHANGED vars => IInv'
BY DEF IInv, TypeOK, Made, Built, Records, BeforeMain, InYield, InHandler,
       NoneInService, Turn, In, vars, tasks, timer, boot

\* The invariant behind the properties holds of every reachable state, of
\* yield, of the timer interrupt between any two of its steps, and of both.
THEOREM SchedulerInvariant == Spec => []IInv
<1>1. IInv /\ [Next]_vars => IInv'
  <2> SUFFICES ASSUME IInv, [Next]_vars PROVE IInv'
    OBVIOUS
  <2>1. CASE Booting
    BY <2>1, CreateTaskStep, ChangeSchedulerStep, AdoptStep, StartMainStep DEF Booting
  <2>2. CASE YieldLock
    BY <2>2, YieldLockStep
  <2>3. CASE Yielding
    BY <2>3, YieldClearStep, YieldNextStep, SwitchLeaveStep, SwitchEnterStep,
       SwitchContextStep, UnlockInnerStep, UnlockOuterStep DEF Yielding
  <2>4. CASE PitTick
    BY <2>4, PitTickStep
  <2>5. CASE Handling
    BY <2>5, InterruptStep, TickNextStep, TickLeaveStep, TickEnterStep, EndOfInterruptStep
       DEF Handling
  <2>6. CASE UNCHANGED vars
    BY <2>6, StutterStep
  <2> QED BY <2>1, <2>2, <2>3, <2>4, <2>5, <2>6 DEF Next
<1> QED BY InitInvariant, <1>1, PTL DEF Spec

\* Whatever interrupts what, with interrupts on and no handler running the
\* processor runs the current task, and that is the only running one.
THEOREM SchedulerCurrentRuns == Spec => []CurrentRuns
<1>1. IInv => CurrentRuns
  <2> SUFFICES ASSUME IInv, cpu.if, irq = "no"
               PROVE  cpu.task = cur /\ In("running") = {cur}
    BY DEF CurrentRuns
  <2>1. sched = "rr" /\ cpu.at \in {"code", "locking"}
    BY DEF IInv, BeforeMain, InYield
  <2> QED BY <2>1 DEF IInv, Turn
<1> QED BY SchedulerInvariant, <1>1, PTL

\* A task that the processor does not run will go on where it was.
THEOREM SchedulerContextsOwn == Spec => []ContextsOwn
<1>1. IInv => ContextsOwn
  BY DEF IInv, Records, ContextsOwn
<1> QED BY SchedulerInvariant, <1>1, PTL

\* A switch neither leaves a task's code without interrupts nor starts it so.
THEOREM SchedulerInterruptsOn == Spec => []InterruptsOn
<1>1. IInv => InterruptsOn
  <2> SUFFICES ASSUME IInv PROVE InterruptsOn
    OBVIOUS
  <2>1. cpu.at = "code" => cpu.if
    BY DEF IInv, BeforeMain, InYield
  <2>2. \A t \in Task : ctx[t].at = "code" => ctx[t].if
    BY DEF IInv, Records
  <2> QED BY <2>1, <2>2 DEF InterruptsOn
<1> QED BY SchedulerInvariant, <1>1, PTL

\* The handler that a switch is made in has its interrupt ended, whichever
\* task it returns to.
THEOREM SchedulerNoneInService == Spec => []NoneInService
<1>1. IInv => NoneInService
  BY DEF IInv
<1> QED BY SchedulerInvariant, <1>1, PTL

-----------------------------------------------------------------------------
(***************************************************************************)
(* The queues.  st tells where each task stands, which is in its state     *)
(* queue or, between pop_node and push_back_node, in none.                 *)
(***************************************************************************)
States == StateFlag \union {"none"}
Standing(st, f) == {t \in Task : st[t] = f}

\* su is st with the task t moved to g.
Moves(st, su, t, g) == su = [st EXCEPT ![t] = g]

\* Each queue has the tasks that stand in it and can be read forward.
Sound(Q, st) ==
    \A f \in StateFlag :
        ListInv(Queue(Q, f), Standing(st, f)) /\ Chained(Queue(Q, f), Standing(st, f))

LEMMA StandingMoves ==
    ASSUME NEW st \in [Task -> States], NEW t \in Task, NEW g \in States,
           NEW su, Moves(st, su, t, g)
    PROVE  \A f \in States : Standing(su, f) =
               IF f = g THEN Standing(st, f) \union {t} ELSE Standing(st, f) \ {t}
BY DEF Standing, Moves

\* ListsTo is what LibraryProofs calls Lists.
LEMMA SameLists == \A V : ListsTo(V) = Lists(Task, V)
BY DEF ListsTo, Lists

LEMMA QueueWith ==
    ASSUME NEW Q \in QueuesTo(Link), NEW f \in StateFlag, NEW l \in ListsTo(Link)
    PROVE  /\ Queue(WithQueue(Q, f, l), f) = l
           /\ WithQueue(Q, f, l).head[f] = l.head /\ WithQueue(Q, f, l).tail[f] = l.tail
           /\ WithQueue(Q, f, l).nxt = l.nxt /\ WithQueue(Q, f, l).prv = l.prv
           /\ \A g \in StateFlag \ {f} :
                 /\ Queue(WithQueue(Q, f, l), g).head = Queue(Q, g).head
                 /\ Queue(WithQueue(Q, f, l), g).tail = Queue(Q, g).tail
                 /\ Queue(WithQueue(Q, f, l), g).nxt = l.nxt
                 /\ Queue(WithQueue(Q, f, l), g).prv = l.prv
BY DEF QueuesTo, ListsTo, Queue, WithQueue

\* An operation on one queue writes no link word of another.
LEMMA WithQueueSound ==
    ASSUME NEW Q \in QueuesTo(Link), NEW f \in StateFlag, NEW l \in ListsTo(Link),
           NEW st, NEW su, Sound(Q, st), NEW W \in SUBSET Task,
           ListInv(l, Standing(su, f)), Chained(l, Standing(su, f)),
           SameOutside(Queue(Q, f), l, Task, W),
           \A g \in StateFlag \ {f} : /\ Standing(su, g) = Standing(st, g)
                                      /\ Standing(st, g) \intersect W = {}
    PROVE  Sound(WithQueue(Q, f, l), su)
<1> DEFINE R == WithQueue(Q, f, l)
<1>1. Queue(R, f) = l
  BY QueueWith
<1>2. ASSUME NEW g \in StateFlag \ {f}
      PROVE  /\ ListInv(Queue(R, g), Standing(su, g))
             /\ Chained(Queue(R, g), Standing(su, g))
  <2>1. /\ Queue(R, g).head = Queue(Q, g).head /\ Queue(R, g).tail = Queue(Q, g).tail
        /\ Queue(R, g).nxt = l.nxt /\ Queue(R, g).prv = l.prv
    BY <1>2, QueueWith
  <2>2. Queue(Q, g).nxt = Queue(Q, f).nxt /\ Queue(Q, g).prv = Queue(Q, f).prv
    BY DEF Queue
  <2>3. ListInv(Queue(Q, g), Standing(su, g)) /\ Chained(Queue(Q, g), Standing(su, g))
    BY <1>2 DEF Sound
  <2>4. \A t \in Standing(su, g) : t \in Task \ W
    BY <1>2 DEF Standing
  <2>5. \A t \in Standing(su, g) :
            /\ Queue(R, g).nxt[t] = Queue(Q, g).nxt[t]
            /\ Queue(R, g).prv[t] = Queue(Q, g).prv[t]
    BY <2>1, <2>2, <2>4 DEF SameOutside
  <2>6. Null \notin Standing(su, g)
    BY NullApart DEF Standing
  <2> HIDE DEF R
  <2>7. ListInv(Queue(R, g), Standing(su, g))
    BY <2>1, <2>3, <2>5, <2>6, ListInvFrame
  <2>8. Chained(Queue(R, g), Standing(su, g))
    BY <2>1, <2>3, <2>5, ChainedFrame
  <2> QED BY <2>7, <2>8
<1> QED BY <1>1, <1>2 DEF Sound

\* push_back_node into the queue of f of a task that stands in none.
LEMMA PutBackSound ==
    ASSUME NEW Q \in QueuesTo(Link), NEW st \in [Task -> States], Sound(Q, st),
           NEW f \in StateFlag, NEW t \in Task, st[t] = "none",
           NEW su, Moves(st, su, t, f)
    PROVE  /\ Sound(PutBack(Q, f, t), su)
           /\ PutBack(Q, f, t) \in QueuesTo(Link)
           /\ PutBack(Q, f, t).tail[f] = t /\ PutBack(Q, f, t).nxt[t] = Null
<1> DEFINE q == Queue(Q, f)
           l == PushBack(q, t)
           S == Standing(st, f)
<1>1. /\ Link \in SUBSET Link /\ Null \in Link /\ t \in Link \ {Null}
      /\ Null \notin Task /\ Task \union {Null} \subseteq Link
  BY NullApart DEF Link
<1>2. q \in ListsTo(Link) /\ q \in Lists(Task, Link)
  BY QueueTo, SameLists, <1>1
<1>3. S \in SUBSET Task /\ t \in Task \ S
  BY DEF Standing, StateFlag
<1>4. ListInv(q, S) /\ Chained(q, S)
  BY DEF Sound
<1>5. /\ l \in Lists(Task, Link) /\ ListInv(l, S \union {t})
      /\ SameOutside(q, l, Task, S \union {t})
  BY <1>1, <1>2, <1>3, <1>4, PushBackKeeps
<1>6. Chained(l, S \union {t}) /\ l.tail = t /\ l.nxt[t] = Null
  <2> HIDE DEF q, S
  <2> QED BY <1>1, <1>2, <1>3, <1>4, PushBackChained
<1>7. l \in ListsTo(Link)
  BY <1>5, SameLists
<1>8. /\ Standing(su, f) = S \union {t}
      /\ \A g \in StateFlag \ {f} : Standing(su, g) = Standing(st, g)
  <2>1. f \in States /\ StateFlag \subseteq States
    BY DEF States
  <2>2. \A g \in StateFlag : Standing(st, g) \ {t} = Standing(st, g)
    BY DEF Standing, StateFlag
  <2>3. Standing(su, f) = S \union {t}
    BY <2>1, StandingMoves
  <2>4. \A g \in StateFlag \ {f} : Standing(su, g) = Standing(st, g) \ {t}
    BY <2>1, StandingMoves
  <2> QED BY <2>2, <2>3, <2>4
<1>9. \A g \in StateFlag \ {f} : Standing(st, g) \intersect (S \union {t}) = {}
  BY DEF Standing, StateFlag
<1>10. S \union {t} \in SUBSET Task
  BY <1>3
<1>11. Sound(WithQueue(Q, f, l), su)
  <2>1. /\ ListInv(l, Standing(su, f)) /\ Chained(l, Standing(su, f))
        /\ \A g \in StateFlag \ {f} : Standing(su, g) = Standing(st, g)
    BY <1>5, <1>6, <1>8
  <2>2. PICK W \in SUBSET Task : W = S \union {t}
    BY <1>10
  <2> HIDE DEF l, S
  <2>3. \A g \in StateFlag \ {f} : Standing(st, g) \intersect W = {}
    BY <1>9, <2>2
  <2> QED BY <1>5, <1>7, <2>1, <2>2, <2>3, WithQueueSound
<1> HIDE DEF q, l, S
<1>12. /\ WithQueue(Q, f, l) \in QueuesTo(Link)
       /\ WithQueue(Q, f, l).tail[f] = t /\ WithQueue(Q, f, l).nxt[t] = Null
  BY <1>1, <1>6, <1>7, QueueTo, QueueWith
<1>13. PutBack(Q, f, t) = WithQueue(Q, f, l)
  BY DEF PutBack, l, q
<1> QED BY <1>11, <1>12, <1>13

\* pop_node out of the queue a task stands in, unless it takes the last of
\* three or more.
LEMMA TakeSound ==
    ASSUME NEW Q \in QueuesTo(Link), NEW st \in [Task -> States], Sound(Q, st),
           NEW f \in StateFlag, NEW t \in Task, st[t] = f,
           t = Q.tail[f] => Standing(st, f) \subseteq {Q.head[f], Q.tail[f]},
           NEW su, Moves(st, su, t, "none")
    PROVE  /\ Sound(WithQueue(Q, f, PopNode(Queue(Q, f), t)), su)
           /\ WithQueue(Q, f, PopNode(Queue(Q, f), t)) \in QueuesTo(Link)
<1> DEFINE q == Queue(Q, f)
           l == PopNode(q, t)
           S == Standing(st, f)
<1>1. /\ Link \in SUBSET Link /\ Null \in Link /\ t \in Link \ {Null}
      /\ Null \notin Task /\ Task \union {Null} \subseteq Link
  BY NullApart DEF Link
<1>2. q \in ListsTo(Link) /\ q \in Lists(Task, Link)
  BY QueueTo, SameLists, <1>1
<1>3. S \in SUBSET Task /\ t \in S
  BY DEF Standing
<1>4. ListInv(q, S) /\ Chained(q, S)
  BY DEF Sound
<1>5. ~PopNodeFaults(q, t)
  BY <1>1, <1>3, <1>4, ChainedEnds
<1>6. /\ l \in Lists(Task, Link) /\ ListInv(l, S \ {t})
      /\ SameOutside(q, l, Task, S)
  BY <1>1, <1>2, <1>3, <1>4, <1>5, PopNodeKeeps
<1>7. Chained(l, S \ {t})
  <2>1. t = q.tail => S \subseteq {q.head, q.tail}
    BY DEF Queue
  <2> HIDE DEF q, S
  <2> QED BY <1>1, <1>2, <1>3, <1>4, <2>1, PopNodeChained
<1>8. l \in ListsTo(Link)
  BY <1>6, SameLists
<1>9. /\ Standing(su, f) = S \ {t}
      /\ \A g \in StateFlag \ {f} : Standing(su, g) = Standing(st, g)
  <2>1. "none" \in States /\ "none" \notin StateFlag /\ StateFlag \subseteq States
    BY DEF States, StateFlag
  <2>2. \A g \in StateFlag \ {f} : Standing(st, g) \ {t} = Standing(st, g)
    BY DEF Standing
  <2> QED BY <2>1, <2>2, StandingMoves
<1>10. \A g \in StateFlag \ {f} : Standing(st, g) \intersect S = {}
  BY DEF Standing
<1>11. Sound(WithQueue(Q, f, l), su)
  <2>1. /\ ListInv(l, Standing(su, f)) /\ Chained(l, Standing(su, f))
        /\ \A g \in StateFlag \ {f} : Standing(su, g) = Standing(st, g)
    BY <1>6, <1>7, <1>9
  <2>2. PICK W \in SUBSET Task : W = S
    BY <1>3
  <2> HIDE DEF l, S
  <2>3. \A g \in StateFlag \ {f} : Standing(st, g) \intersect W = {}
    BY <1>10, <2>2
  <2> QED BY <1>6, <1>8, <2>1, <2>2, <2>3, WithQueueSound
<1> HIDE DEF q, l, S
<1>12. WithQueue(Q, f, l) \in QueuesTo(Link)
  BY <1>1, <1>8, QueueTo
<1> QED BY <1>11, <1>12 DEF l, q

\* change_state: out of one queue and to the back of another.
LEMMA MoveSound ==
    ASSUME NEW Q \in QueuesTo(Link), NEW st \in [Task -> States], Sound(Q, st),
           NEW f \in StateFlag, NEW g \in StateFlag, NEW t \in Task, st[t] = f,
           t = Q.tail[f] => Standing(st, f) \subseteq {Q.head[f], Q.tail[f]},
           NEW su, Moves(st, su, t, g)
    PROVE  /\ Sound(Move(Q, t, f, g), su)
           /\ Move(Q, t, f, g).tail[g] = t /\ Move(Q, t, f, g).nxt[t] = Null
<1> DEFINE R == WithQueue(Q, f, PopNode(Queue(Q, f), t))
<1> PICK no \in [Task -> States] : Moves(st, no, t, "none")
  BY DEF States, Moves
<1>1. Sound(R, no) /\ R \in QueuesTo(Link)
  BY TakeSound
<1>2. no[t] = "none" /\ Moves(no, su, t, g)
  BY DEF Moves
<1>3. Move(Q, t, f, g) = PutBack(R, g, t)
  BY DEF Move
<1> HIDE DEF R
<1>4. /\ Sound(PutBack(R, g, t), su)
      /\ PutBack(R, g, t).tail[g] = t /\ PutBack(R, g, t).nxt[t] = Null
  BY <1>1, <1>2, PutBackSound
<1> QED BY <1>3, <1>4

-----------------------------------------------------------------------------
(* The lists, from step to step. *)

LEMMA ReadIsSound ==
    /\ \A f \in StateFlag : In(f) = Standing(state, f)
    /\ QueuesRead <=> Sound(queues, state) /\ In("created") = {}
BY DEF QueuesRead, Sound, In, Standing

\* Builder, build and change_state: into the created queue and out of it.
LEMMA BuildRead ==
    ASSUME TypeOK, QueuesRead, NEW t \in Task, state[t] = "none",
           NEW g \in {"ready", "running"}, state' = [state EXCEPT ![t] = g],
           queues' = Move(PutBack(queues, "created", t), t, "created", g)
    PROVE  /\ QueuesRead'
           /\ queues'.tail[g] = t /\ queues'.nxt[t] = Null
<1> DEFINE R == PutBack(queues, "created", t)
<1>1. /\ "created" \in StateFlag /\ g \in StateFlag
      /\ state \in [Task -> States] /\ queues \in QueuesTo(Link) /\ Sound(queues, state)
      /\ In("created") = {}
  BY ReadIsSound DEF TypeOK, States, StateFlag
<1> PICK st \in [Task -> States] : Moves(state, st, t, "created")
  BY <1>1 DEF Moves, States
<1>2. /\ st[t] = "created" /\ Standing(st, "created") = {t} /\ Moves(st, state', t, g)
      /\ In("created")' = {}
  BY <1>1 DEF Moves, Standing, In
<1>3. Sound(R, st) /\ R \in QueuesTo(Link) /\ R.tail["created"] = t
  BY <1>1, PutBackSound
<1>4. queues' = Move(R, t, "created", g)
  OBVIOUS
<1>5. Standing(st, "created") \subseteq {R.head["created"], R.tail["created"]}
  BY <1>2, <1>3
<1> HIDE DEF R
<1>6. /\ Sound(Move(R, t, "created", g), state')
      /\ Move(R, t, "created", g).tail[g] = t /\ Move(R, t, "created", g).nxt[t] = Null
  BY <1>1, <1>2, <1>3, <1>5, MoveSound
<1>7. Sound(queues', state')
  BY <1>4, <1>6
<1>8. QueuesRead'
  BY <1>2, <1>7, Zenon DEF QueuesRead, Sound, In, Standing
<1> QED BY <1>4, <1>6, <1>8

\* change_state of a task that is not the last of three or more.
LEMMA ChangeRead ==
    ASSUME TypeOK, QueuesRead, NEW t \in Task, NEW f \in StateFlag, state[t] = f,
           NEW g \in {"ready", "running"}, ChangeState(t, g),
           t = queues.tail[f] => In(f) \subseteq {queues.head[f], queues.tail[f]}
    PROVE  QueuesRead' /\ queues'.tail[g] = t
<1>1. /\ g \in StateFlag /\ Sound(queues, state) /\ In("created") = {}
      /\ state \in [Task -> States] /\ queues \in QueuesTo(Link)
      /\ In(f) = Standing(state, f)
  BY ReadIsSound DEF TypeOK, States, StateFlag
<1>2. Moves(state, state', t, g) /\ queues' = Move(queues, t, f, g)
  BY DEF Moves, ChangeState
<1>3. /\ Sound(Move(queues, t, f, g), state')
      /\ Move(queues, t, f, g).tail[g] = t
  BY <1>1, <1>2, MoveSound
<1>4. Sound(queues', state')
  BY <1>2, <1>3
<1>5. In("created")' = {}
  BY <1>1, <1>2 DEF Moves, In
<1>6. QueuesRead'
  BY <1>4, <1>5, Zenon DEF QueuesRead, Sound, In, Standing
<1> QED BY <1>2, <1>3, <1>6

LEMMA InitLists == Init => ListsInv
<1> SUFFICES ASSUME Init PROVE ListsInv
  OBVIOUS
<1>1. \A f \in StateFlag : In(f) = {} /\ Queue(queues, f).head = Null
                           /\ Queue(queues, f).tail = Null
  BY DEF Init, In, StateFlag, Queue
<1>2. \A l : l.head = Null /\ l.tail = Null => ListInv(l, {}) /\ Chained(l, {})
  BY DEF ListInv, Chained
<1>3. QueuesRead
  BY <1>1, <1>2 DEF QueuesRead, StateFlag
<1>4. Listed({})
  BY <1>2 DEF Listed, Init
<1>5. state[Main] = "none" /\ In("ready") = {}
  BY <1>1, NullApart DEF Init, StateFlag
<1> QED BY <1>3, <1>4, <1>5 DEF ListsInv, ListsAtBoot, ListsLater, Init

LEMMA CreateTaskLists ==
    ASSUME IInv, ListsInv, NEW t \in Task, CreateTask(t)
    PROVE  ListsInv'
<1>1. /\ sched = "null" /\ sched' = sched /\ task_list' = task_list /\ t # Main
      /\ state[t] = "none" /\ state[Main] = "none" /\ Listed({})
  BY DEF CreateTask, boot, ListsInv, ListsAtBoot
<1>2. QueuesRead' /\ queues'.tail["ready"] = t /\ queues'.nxt[t] = Null
  BY <1>1, BuildRead DEF CreateTask, IInv, ListsInv
<1>3. state'[Main] = "none"
  BY <1>1, NullApart DEF CreateTask, IInv, TypeOK
<1>4. Listed({})'
  BY <1>1 DEF Listed
<1> QED BY <1>1, <1>2, <1>3, <1>4 DEF ListsInv, ListsAtBoot, ListsLater

\* The walk begins at the head.
LEMMA ChangeSchedulerLists == IInv /\ ListsInv /\ ChangeScheduler => ListsInv'
<1> SUFFICES ASSUME IInv, ListsInv, ChangeScheduler PROVE ListsInv'
  OBVIOUS
<1>1. /\ sched = "null" /\ sched' = "adopting" /\ task_list' = task_list /\ state' = state
      /\ queues' = queues /\ it' = queues.head["ready"]
  BY DEF ChangeScheduler, tasks
<1>2. QueuesRead' /\ Listed({})' /\ state'[Main] = "none"
      /\ (In("ready")' # {} => queues'.nxt[queues'.tail["ready"]] = Null)
  BY <1>1 DEF ListsInv, QueuesRead, ListsAtBoot, Listed, In
<1>3. /\ queues.head["ready"] = Null <=> In("ready") = {}
      /\ queues.head["ready"] # Null => queues.head["ready"] \in In("ready")
  <2>1. /\ ListInv(Queue(queues, "ready"), In("ready"))
        /\ Chained(Queue(queues, "ready"), In("ready"))
    BY DEF ListsInv, QueuesRead, StateFlag
  <2>2. Null \notin In("ready") /\ Queue(queues, "ready").head = queues.head["ready"]
    BY NullApart DEF In, Queue
  <2>3. Queue(queues, "ready").head = Null <=> In("ready") = {}
    BY <2>1, <2>2, ChainedEnds
  <2>4. Queue(queues, "ready").head # Null
            => Queue(queues, "ready").head \in In("ready")
    BY <2>1 DEF ListInv
  <2> QED BY <2>2, <2>3, <2>4
<1>4. Adopted({})'
  BY <1>1, <1>3 DEF Adopted, Queue, In
<1> QED BY <1>1, <1>2, <1>4 DEF ListsInv, ListsAtBoot, ListsLater

\* enqueue puts a task in front of the others.
LEMMA EnqueueListed ==
    ASSUME task_list \in ListsTo(Link), NEW S \in SUBSET Task, Listed(S),
           NEW n \in Task \ S, task_list' = PushFront(task_list, n)
    PROVE  Listed(S \union {n})'
<1> PICK l \in Lists(Task, Link) : l = task_list
  BY SameLists
<1>1. /\ Null \notin Task /\ Task \union {Null} \subseteq Link
      /\ ListInv(l, S) /\ Chained(l, S) /\ (S # {} => l.nxt[l.tail] = Null)
  BY NullApart DEF Link, Listed
<1>2. ListInv(PushFront(l, n), S \union {n})
  BY <1>1, PushFrontKeeps
<1>3. /\ Chained(PushFront(l, n), S \union {n})
      /\ PushFront(l, n).nxt[PushFront(l, n).tail] = Null
  BY <1>1, PushFrontChained
<1>4. task_list' = PushFront(l, n)
  OBVIOUS
<1> QED BY <1>2, <1>3, <1>4 DEF Listed

\* One step of the walk: the task behind the adopted ones is adopted.
LEMMA AdoptLists == IInv /\ ListsInv /\ Adopt => ListsInv'
<1> SUFFICES ASSUME IInv, ListsInv, Adopt PROVE ListsInv'
  OBVIOUS
<1> DEFINE ready == Queue(queues, "ready")
           R == In("ready")
<1>1. /\ sched = "adopting" /\ sched' = sched /\ state' = state
      /\ queues' = queues /\ it' = queues.nxt[it] /\ it # Null
      /\ task_list' = PushFront(task_list, it)
  BY DEF Adopt
<1> PICK S \in SUBSET Task : Listed(S) /\ Adopted(S)
  BY <1>1 DEF ListsInv, ListsAtBoot
<1> PICK n \in Task \ S : n = it
  BY <1>1 DEF Adopted, In
<1>2. /\ S \subseteq R /\ n \in R \ S /\ R \in SUBSET Task
      /\ \A t \in S \ {ready.head} : ready.prv[t] \in S
      /\ \A t \in S \ {ready.tail} : ready.nxt[t] \in S \union {n}
      /\ n # ready.head => ready.prv[n] \in S /\ ready.head \in S
  BY <1>1 DEF Adopted, In
<1>3. ListInv(ready, R) /\ Chained(ready, R) /\ Null \notin R
  BY NullApart DEF ListsInv, QueuesRead, StateFlag, In
<1>4. it' = ready.nxt[n] /\ (n = ready.tail => it' = Null)
  BY <1>1, <1>2 DEF ListsInv, ListsAtBoot, Queue
<1>5. Listed(S \union {n})'
  BY <1>1, <1>2, EnqueueListed DEF IInv, TypeOK
<1>6. it' # Null => it' \in R \ (S \union {n}) /\ it' # ready.head /\ ready.prv[it'] = n
  <2> SUFFICES ASSUME it' # Null
               PROVE  it' \in R \ (S \union {n}) /\ it' # ready.head /\ ready.prv[it'] = n
    OBVIOUS
  <2> HIDE DEF ready, R
  <2>1. n \in R \ {ready.tail}
    BY <1>2, <1>4
  <2>2. it' \in R \ {ready.head, n}
    BY <1>3, <1>4, <2>1, ChainedNext
  <2>3. ready.prv[it'] = n
    BY <1>3, <1>4, <2>1, <2>2 DEF ListInv
  <2> QED BY <1>2, <2>2, <2>3
<1>7. it' = Null => S \union {n} = R
  <2> SUFFICES ASSUME it' = Null PROVE S \union {n} = R
    OBVIOUS
  <2> HIDE DEF ready, R
  <2>1. n = ready.tail
    BY <1>2, <1>3, <1>4 DEF Chained
  <2> PICK U \in SUBSET R : U = S \union {n}
    BY <1>2
  <2>2. \A t \in U \ {ready.tail} : ready.nxt[t] \in U
    BY <1>2, <2>1
  <2>3. ready.head \in U
    BY <1>2
  <2>4. U = R
    BY <1>3, <2>2, <2>3 DEF Chained
  <2> QED BY <2>4
<1>8. Adopted(S \union {n})'
  <2>1. ready' = ready /\ R' = R
    BY <1>1 DEF Queue, In
  <2>2. /\ S \union {n} \subseteq R
        /\ \A t \in (S \union {n}) \ {ready.head} : ready.prv[t] \in S \union {n}
        /\ \A t \in (S \union {n}) \ {ready.tail} : ready.nxt[t] \in S \union {n, it'}
        /\ ready.head \in S \union {n}
    BY <1>2, <1>4
  <2> QED BY <1>6, <1>7, <2>1, <2>2 DEF Adopted
<1>9. QueuesRead' /\ state'[Main] = "none"
      /\ (In("ready")' # {} => queues'.nxt[queues'.tail["ready"]] = Null)
  BY <1>1 DEF ListsInv, QueuesRead, ListsAtBoot, In
<1>10. (S \union {n}) \in SUBSET Task
  BY <1>2
<1> QED BY <1>1, <1>5, <1>8, <1>9, <1>10 DEF ListsInv, ListsAtBoot, ListsLater

\* Every ready task was adopted when main is put in front of them.
LEMMA StartMainLists == IInv /\ ListsInv /\ StartMain => ListsInv'
<1> SUFFICES ASSUME IInv, ListsInv, StartMain PROVE ListsInv'
  OBVIOUS
<1>1. /\ sched = "adopting" /\ sched' = "rr" /\ it = Null
      /\ task_list' = PushFront(task_list, Main) /\ cpu' = ctx[Main] /\ irq' = irq
      /\ state[Main] = "none" /\ state' = [state EXCEPT ![Main] = "running"]
      /\ queues' = Move(PutBack(queues, "created", Main), Main, "created", "running")
  BY DEF StartMain, timer, ListsInv, ListsAtBoot
<1>2. QueuesRead'
  BY <1>1, BuildRead, NullApart DEF IInv, ListsInv
<1> PICK S \in SUBSET Task : Listed(S) /\ Adopted(S)
  BY <1>1 DEF ListsInv, ListsAtBoot
<1>3. S = In("ready")
  BY <1>1 DEF Adopted
<1>4. S = Enqueued /\ Enqueued' = S \union {Main}
  <2>1. In("running") = {} /\ In("created") = {} /\ state \in [Task -> StateFlag \union {"none"}]
    BY <1>1 DEF IInv, BeforeMain, ListsInv, QueuesRead, TypeOK
  <2> QED BY <1>1, <1>3, <2>1, NullApart DEF Enqueued, In, StateFlag
<1>5. Listed(S \union {Main})'
  <2> PICK n \in Task \ S : n = Main
    BY <1>1, <1>3, NullApart DEF In
  <2>1. Listed(S \union {n})'
    BY <1>1, EnqueueListed DEF IInv, TypeOK
  <2> QED BY <2>1
<1>6. Listed(Enqueued)'
  BY <1>4, <1>5 DEF Listed
<1>7. cpu'.at \notin {"leave", "enter", "load"} /\ irq' = "no"
  BY <1>1, NullApart DEF IInv, Records, BeforeMain
<1> QED BY <1>1, <1>2, <1>6, <1>7 DEF ListsInv, ListsAtBoot, ListsLater

\* A step that does not touch the lists.
LEMMA ListsKept ==
    ASSUME ListsInv, sched = "rr",
           UNCHANGED <<task_list, state, queues, sched>>
    PROVE  /\ QueuesRead' /\ ListsAtBoot' /\ Listed(Enqueued)'
           /\ \A t : NextOf(t)' = NextOf(t)
           /\ queues'.tail = queues.tail
BY DEF ListsInv, QueuesRead, ListsAtBoot, ListsLater, Listed, Enqueued, In, NextOf

\* One that begins no hand-over and goes on with none.
LEMMA QuietLists ==
    ASSUME IInv, ListsInv, cpu.at # "boot",
           UNCHANGED <<task_list, state, queues, sched>>,
           cpu'.at \notin {"leave", "enter", "load"}, irq' \notin {"leave", "enter"}
    PROVE  ListsInv'
<1>1. sched = "rr"
  BY DEF IInv, BeforeMain
<1> QED BY <1>1, ListsKept DEF ListsInv, ListsLater

LEMMA YieldLockLists == IInv /\ ListsInv /\ YieldLock => ListsInv'
<1> SUFFICES ASSUME IInv, ListsInv, YieldLock PROVE ListsInv'
  OBVIOUS
<1>1. /\ cpu.at = "code" /\ cpu' = [cpu EXCEPT !.at = "locking", !.outer = cpu.if]
      /\ cpu \in Contexts /\ irq = "no" /\ irq' = irq
      /\ UNCHANGED <<task_list, state, queues, sched>>
  BY DEF YieldLock, Runs, timer, boot, IInv, TypeOK
<1>2. cpu'.at = "locking"
  BY <1>1 DEF Contexts
<1> QED BY <1>1, <1>2, QuietLists

LEMMA YieldClearLists == IInv /\ ListsInv /\ YieldClear => ListsInv'
<1> SUFFICES ASSUME IInv, ListsInv, YieldClear PROVE ListsInv'
  OBVIOUS
<1>1. /\ cpu.at = "locking" /\ cpu' = [cpu EXCEPT !.at = "next", !.if = FALSE]
      /\ cpu \in Contexts /\ irq = "no" /\ irq' = irq
      /\ UNCHANGED <<task_list, state, queues, sched>>
  BY DEF YieldClear, Runs, timer, boot, IInv, TypeOK
<1>2. cpu'.at = "next"
  BY <1>1 DEF Contexts
<1> QED BY <1>1, <1>2, QuietLists

LEMMA UnlockInnerLists == IInv /\ ListsInv /\ UnlockInner => ListsInv'
<1> SUFFICES ASSUME IInv, ListsInv, UnlockInner PROVE ListsInv'
  OBVIOUS
<1>1. /\ cpu.at = "back" /\ cpu \in Contexts /\ irq = "no" /\ irq' = irq
      /\ UNCHANGED <<task_list, state, queues, sched>>
  BY DEF UnlockInner, Runs, timer, boot, IInv, TypeOK
<1>2. cpu'.at = "unlock"
  BY <1>1 DEF UnlockInner, Contexts
<1> QED BY <1>1, <1>2, QuietLists

LEMMA UnlockOuterLists == IInv /\ ListsInv /\ UnlockOuter => ListsInv'
<1> SUFFICES ASSUME IInv, ListsInv, UnlockOuter PROVE ListsInv'
  OBVIOUS
<1>1. /\ cpu.at = "unlock" /\ cpu'.at = "code" /\ irq = "no" /\ irq' = irq
      /\ UNCHANGED <<task_list, state, queues, sched>>
  BY DEF UnlockOuter, Runs, timer, boot, Context
<1> QED BY <1>1, QuietLists

\* SwitchContext: what is loaded is in no hand-over.
LEMMA SwitchContextLists == IInv /\ ListsInv /\ SwitchContext => ListsInv'
<1> SUFFICES ASSUME IInv, ListsInv, SwitchContext PROVE ListsInv'
  OBVIOUS
<1>1. /\ cpu.at = "load" /\ irq = "no" /\ irq' = irq /\ cur \in Task /\ cpu' = ctx'[cur]
      /\ UNCHANGED <<task_list, state, queues, sched>>
  <2>1. sched = "rr" /\ cpu.at = "load"
    BY DEF SwitchContext, Runs, IInv, BeforeMain
  <2> QED BY <2>1 DEF SwitchContext, Runs, timer, boot, IInv, InYield, TypeOK, Link
<1>2. cpu'.at \in {"code", "locking", "back"}
  BY <1>1, SwitchContextStep DEF IInv, Records
<1> QED BY <1>1, <1>2, QuietLists

\* next() in yield: the task that leaves has the current one behind it.
LEMMA YieldNextLists == IInv /\ ListsInv /\ YieldNext => ListsInv'
<1> SUFFICES ASSUME IInv, ListsInv, YieldNext PROVE ListsInv'
  OBVIOUS
<1>1. /\ cpu.at = "next" /\ cpu' = [cpu EXCEPT !.at = "leave", !.prev = cur]
      /\ cpu \in Contexts /\ irq = "no" /\ irq' = irq /\ cur' = NextOf(cur)
      /\ UNCHANGED <<task_list, state, queues, sched>> /\ sched = "rr"
  BY DEF YieldNext, Runs, timer, boot, IInv, TypeOK, BeforeMain
<1>2. cpu'.at = "leave" /\ cpu'.prev = cur
  BY <1>1 DEF Contexts
<1>3. cur' = NextOf(cpu.prev)'
  BY <1>1, <1>2 DEF NextOf
<1> QED BY <1>1, <1>2, <1>3, ListsKept DEF ListsInv, ListsLater

\* Only the task that leaves is running: it is taken out of a list of one.
LEMMA LeaveLists ==
    ASSUME IInv, ListsInv, sched = "rr", NEW t \in Task, In("running") = {t},
           ChangeState(t, "ready"), UNCHANGED <<task_list, sched>>
    PROVE  /\ QueuesRead' /\ ListsAtBoot' /\ Listed(Enqueued)' /\ queues'.tail["ready"] = t
           /\ \A u : NextOf(u)' = NextOf(u)
<1>1. state[t] = "running" /\ "running" \in StateFlag
  BY DEF In, StateFlag
<1>2. t = queues.tail["running"]
          => In("running") \subseteq {queues.head["running"], queues.tail["running"]}
  OBVIOUS
<1>3. QueuesRead' /\ queues'.tail["ready"] = t
  BY <1>1, <1>2, ChangeRead DEF IInv, ListsInv
<1>4. Enqueued' = Enqueued
  BY <1>1 DEF Enqueued, ChangeState, IInv, TypeOK
<1>5. Listed(Enqueued)'
  BY <1>4 DEF ListsInv, ListsLater, Listed
<1> QED BY <1>3, <1>5 DEF ListsAtBoot, NextOf

LEMMA SwitchLeaveLists == IInv /\ ListsInv /\ SwitchLeave => ListsInv'
<1> SUFFICES ASSUME IInv, ListsInv, SwitchLeave PROVE ListsInv'
  OBVIOUS
<1>1. /\ irq = "no" /\ cpu.at = "leave" /\ cpu \in Contexts /\ sched = "rr"
      /\ cpu.prev = cpu.task /\ cpu.task \in Task /\ In("running") = {cpu.task}
  BY DEF SwitchLeave, Runs, IInv, TypeOK, BeforeMain, Turn, InYield
<1>2. /\ cpu'.at = "enter" /\ cpu'.prev = cpu.prev
  BY <1>1 DEF SwitchLeave, Contexts
<1>3. /\ irq' = irq /\ cur' = cur /\ UNCHANGED <<task_list, sched>>
      /\ cur = NextOf(cpu.prev) /\ ChangeState(cpu.prev, "ready")
  BY <1>1 DEF SwitchLeave, timer, boot, ListsInv, ListsLater
<1>4. /\ QueuesRead' /\ ListsAtBoot' /\ Listed(Enqueued)' /\ queues'.tail["ready"] = cpu.prev
      /\ \A u : NextOf(u)' = NextOf(u)
  <2> PICK t \in Task : t = cpu.prev
    BY <1>1
  <2> QED BY <1>1, <1>3, LeaveLists
<1>5. cur' = NextOf(cpu.prev)'
  BY <1>2, <1>3 DEF NextOf
<1> QED BY <1>1, <1>2, <1>3, <1>4, <1>5 DEF ListsInv, ListsLater

\* A task that comes after itself is alone.
LEMMA AloneInRing ==
    ASSUME NEW S \in SUBSET Task, Listed(S), NEW t \in S, NextOf(t) = t
    PROVE  S = {t}
<1>1. ListInv(task_list, S) /\ Chained(task_list, S) /\ Null \notin S
  BY NullApart DEF Listed
<1>2. t = task_list.tail
  <2> SUFFICES ASSUME t # task_list.tail PROVE FALSE
    OBVIOUS
  <2>1. task_list.nxt[t] \in S \ {task_list.head, t}
    BY <1>1, ChainedNext
  <2> QED BY <1>1, <2>1 DEF NextOf
<1>3. t = task_list.head
  BY <1>2 DEF Listed, NextOf
<1>4. S \subseteq {task_list.head}
  BY <1>1, <1>2, <1>3, ChainedEnds
<1> QED BY <1>3, <1>4

\* The task that enters is ready, and the last of three or more only if there
\* is no other task: the one that left stands behind it.
LEMMA EnterLists ==
    ASSUME IInv, ListsInv, sched = "rr", NEW p \in Task, cur = NextOf(p), p \in Enqueued,
           queues.tail["ready"] = p, In("running") = {},
           ChangeState(cur, "running"), UNCHANGED <<task_list, sched>>
    PROVE  /\ QueuesRead' /\ ListsAtBoot' /\ Listed(Enqueued)'
           /\ \A u : NextOf(u)' = NextOf(u)
<1>1. cur \in Task /\ state[cur] = "ready" /\ "ready" \in StateFlag
  <2>1. cur \in Task /\ state[cur] # "none"
    BY DEF IInv, TypeOK, Made, Built, Link
  <2> QED BY <2>1 DEF ListsInv, QueuesRead, In, IInv, TypeOK, StateFlag
<1>2. cur = queues.tail["ready"]
          => In("ready") \subseteq {queues.head["ready"], queues.tail["ready"]}
  <2> SUFFICES ASSUME cur = p PROVE In("ready") \subseteq {p}
    OBVIOUS
  <2>1. Enqueued \in SUBSET Task /\ Listed(Enqueued)
    BY DEF Enqueued, ListsInv, ListsLater
  <2> PICK t \in Enqueued : t = p /\ NextOf(t) = t
    OBVIOUS
  <2>2. Enqueued = {p}
    BY <2>1, AloneInRing
  <2> QED BY <2>2 DEF Enqueued, In
<1>3. QueuesRead'
  <2> PICK t \in Task : t = cur
    BY <1>1
  <2> QED BY <1>1, <1>2, ChangeRead DEF IInv, ListsInv
<1>4. Enqueued' = Enqueued
  BY <1>1 DEF Enqueued, ChangeState, IInv, TypeOK
<1>5. Listed(Enqueued)'
  BY <1>4 DEF ListsInv, ListsLater, Listed
<1> QED BY <1>3, <1>5 DEF ListsAtBoot, NextOf

LEMMA SwitchEnterLists == IInv /\ ListsInv /\ SwitchEnter => ListsInv'
<1> SUFFICES ASSUME IInv, ListsInv, SwitchEnter PROVE ListsInv'
  OBVIOUS
<1>1. /\ irq = "no" /\ cpu.at = "enter" /\ cpu \in Contexts /\ sched = "rr" /\ cur \in Task
      /\ cpu.other = cur /\ cpu.prev = cpu.task /\ cpu.task \in Task /\ In("running") = {}
  BY DEF SwitchEnter, Runs, IInv, TypeOK, BeforeMain, Turn, InYield, Link
<1>2. cpu'.at = "load" /\ cpu'.prev = cpu.prev
  BY <1>1 DEF SwitchEnter, Contexts
<1>3. /\ irq' = irq /\ cur' = cur /\ UNCHANGED <<task_list, sched>>
      /\ cur = NextOf(cpu.prev) /\ ChangeState(cur, "running")
      /\ queues.tail["ready"] = cpu.prev
  BY <1>1 DEF SwitchEnter, timer, boot, ListsInv, ListsLater
<1>4. cpu.prev \in Enqueued
  <2>1. queues.tail["ready"] \in Built
    BY DEF IInv, Made, QueuesTo, StateFlag
  <2> QED BY <1>1, <1>3, <2>1, NullApart DEF Built, Enqueued
<1>5. /\ QueuesRead' /\ ListsAtBoot' /\ Listed(Enqueued)'
      /\ \A u : NextOf(u)' = NextOf(u)
  <2> PICK p \in Task : p = cpu.prev
    BY <1>1
  <2> QED BY <1>1, <1>3, <1>4, EnterLists
<1>6. cur' = NextOf(cpu.prev)'
  BY <1>2, <1>3 DEF NextOf
<1> QED BY <1>1, <1>2, <1>3, <1>5, <1>6 DEF ListsInv, ListsLater

LEMMA PitTickLists == IInv /\ ListsInv /\ PitTick => ListsInv'
BY DEF ListsInv, QueuesRead, ListsAtBoot, ListsLater, Listed, Adopted, Enqueued, In, NextOf,
       PitTick, tasks, boot

LEMMA InterruptLists == IInv /\ ListsInv /\ Interrupt => ListsInv'
<1> SUFFICES ASSUME IInv, ListsInv, Interrupt PROVE ListsInv'
  OBVIOUS
<1>1. /\ cpu.at \in {"code", "locking"} /\ cpu' = cpu /\ irq' \in {"tick", "eoi"}
      /\ UNCHANGED <<task_list, state, queues, sched>>
  BY DEF Interrupt, Accepted, tasks, boot, IInv, BeforeMain, InYield
<1> QED BY <1>1, QuietLists

LEMMA EndOfInterruptLists == IInv /\ ListsInv /\ EndOfInterrupt => ListsInv'
<1> SUFFICES ASSUME IInv, ListsInv, EndOfInterrupt PROVE ListsInv'
  OBVIOUS
<1>1. /\ cpu.at \in {"code", "locking", "back"} /\ cpu' = cpu /\ irq' = "no"
      /\ UNCHANGED <<task_list, state, queues, sched>>
  BY DEF EndOfInterrupt, tasks, boot, IInv, InHandler
<1> QED BY <1>1, QuietLists

\* next() in tick.
LEMMA TickNextLists == IInv /\ ListsInv /\ TickNext => ListsInv'
<1> SUFFICES ASSUME IInv, ListsInv, TickNext PROVE ListsInv'
  OBVIOUS
<1>1. /\ irq = "tick" /\ irq' = "leave" /\ cpu' = cpu /\ cpu.at \in {"code", "locking"}
      /\ cur' = NextOf(cur) /\ last' = cur /\ sched = "rr"
      /\ UNCHANGED <<task_list, state, queues, sched>>
  BY DEF TickNext, boot, IInv, BeforeMain, InHandler
<1>2. cur' = NextOf(last)'
  BY <1>1 DEF NextOf
<1> QED BY <1>1, <1>2, ListsKept DEF ListsInv, ListsLater

LEMMA TickLeaveLists == IInv /\ ListsInv /\ TickLeave => ListsInv'
<1> SUFFICES ASSUME IInv, ListsInv, TickLeave PROVE ListsInv'
  OBVIOUS
<1>1. /\ irq = "leave" /\ cpu.at \in {"code", "locking"} /\ sched = "rr"
      /\ last = cpu.task /\ last \in Task /\ In("running") = {last}
  BY DEF TickLeave, IInv, TypeOK, BeforeMain, InHandler, InYield, Turn
<1>2. /\ irq' = "enter" /\ cur' = cur /\ last' = last /\ cpu' = cpu
      /\ UNCHANGED <<task_list, sched>>
      /\ cur = NextOf(last) /\ ChangeState(last, "ready")
  BY <1>1 DEF TickLeave, boot, ListsInv, ListsLater
<1>3. /\ QueuesRead' /\ ListsAtBoot' /\ Listed(Enqueued)' /\ queues'.tail["ready"] = last
      /\ \A u : NextOf(u)' = NextOf(u)
  <2> PICK t \in Task : t = last
    BY <1>1
  <2> QED BY <1>1, <1>2, LeaveLists
<1>4. cur' = NextOf(last)'
  BY <1>2 DEF NextOf
<1> QED BY <1>1, <1>2, <1>3, <1>4 DEF ListsInv, ListsLater

LEMMA TickEnterLists == IInv /\ ListsInv /\ TickEnter => ListsInv'
<1> SUFFICES ASSUME IInv, ListsInv, TickEnter PROVE ListsInv'
  OBVIOUS
<1>1. /\ irq = "enter" /\ cpu.at \in {"code", "locking"} /\ sched = "rr" /\ cur \in Task
      /\ last = cpu.task /\ last \in Task /\ In("running") = {}
  BY DEF TickEnter, IInv, TypeOK, BeforeMain, InHandler, InYield, Turn, Link
<1>2. /\ irq' = "eoi" /\ cur' = cur /\ cpu' = ctx'[cur] /\ UNCHANGED <<task_list, sched>>
      /\ cur = NextOf(last) /\ ChangeState(cur, "running")
      /\ queues.tail["ready"] = last
  BY <1>1 DEF TickEnter, boot, ListsInv, ListsLater
<1>3. last \in Enqueued
  <2>1. queues.tail["ready"] \in Built
    BY DEF IInv, Made, QueuesTo, StateFlag
  <2> QED BY <1>1, <1>2, <2>1, NullApart DEF Built, Enqueued
<1>4. /\ QueuesRead' /\ ListsAtBoot' /\ Listed(Enqueued)'
      /\ \A u : NextOf(u)' = NextOf(u)
  <2> PICK p \in Task : p = last
    BY <1>1
  <2> QED BY <1>1, <1>2, <1>3, EnterLists
<1>5. cpu'.at \in {"code", "locking", "back"}
  BY <1>1, <1>2, TickEnterStep DEF IInv, Records
<1> QED BY <1>1, <1>2, <1>4, <1>5 DEF ListsInv, ListsLater

LEMMA StutterLists == ListsInv /\ UNCHANGED vars => ListsInv'
BY DEF ListsInv, QueuesRead, ListsAtBoot, ListsLater, Listed, Adopted, Enqueued, In, NextOf,
       vars, tasks, timer, boot

\* The lists stay whole: no step meets a null neighbour, the ready queue never
\* loses a link, and the walk of change_scheduler adopts each ready task once.
THEOREM SchedulerLists == Spec => []ListsInv
<1>1. IInv /\ ListsInv /\ [Next]_vars => ListsInv'
  <2> SUFFICES ASSUME IInv, ListsInv, [Next]_vars PROVE ListsInv'
    OBVIOUS
  <2>1. CASE Booting
    BY <2>1, CreateTaskLists, ChangeSchedulerLists, AdoptLists, StartMainLists DEF Booting
  <2>2. CASE YieldLock
    BY <2>2, YieldLockLists
  <2>3. CASE Yielding
    BY <2>3, YieldClearLists, YieldNextLists, SwitchLeaveLists, SwitchEnterLists,
       SwitchContextLists, UnlockInnerLists, UnlockOuterLists DEF Yielding
  <2>4. CASE PitTick
    BY <2>4, PitTickLists
  <2>5. CASE Handling
    BY <2>5, InterruptLists, TickNextLists, TickLeaveLists, TickEnterLists,
       EndOfInterruptLists DEF Handling
  <2>6. CASE UNCHANGED vars
    BY <2>6, StutterLists
  <2> QED BY <2>1, <2>2, <2>3, <2>4, <2>5, <2>6 DEF Next
<1> QED BY InitLists, SchedulerInvariant, <1>1, PTL DEF Spec

\* In every state of a hand-over, by yield or by the timer, each state queue
\* is a list of the tasks in that state and can be read from end to end:
\* pop_node, which loses a link when it takes the last of three, never does.
THEOREM SchedulerQueuesSound == Spec => []QueuesSound
<1>1. ListsInv => QueuesSound
  <2> SUFFICES ASSUME ListsInv, NEW f \in StateFlag
               PROVE  /\ ListInv(Queue(queues, f), In(f))
                      /\ \A t \in In(f) : t # queues.tail[f] => queues.nxt[t] \in In(f)
    BY DEF QueuesSound, StateQueues, QueuesWhole
  <2>1. ListInv(Queue(queues, f), In(f)) /\ Chained(Queue(queues, f), In(f))
    BY DEF ListsInv, QueuesRead
  <2>2. Queue(queues, f).tail = queues.tail[f] /\ Queue(queues, f).nxt = queues.nxt
    BY DEF Queue
  <2> QED BY <2>1, <2>2 DEF Chained
<1> QED BY SchedulerLists, <1>1, PTL

-----------------------------------------------------------------------------
(***************************************************************************)
(* The round robin: the list of tasks is the ring.                         *)
(***************************************************************************)

\* next() goes through a list that ends with a null link from node to node and
\* from the last to the first, past every one.
LEMMA ListedRing ==
    ASSUME NEW S \in SUBSET Task, NEW l, ListInv(l, S), Chained(l, S),
           S # {} => l.nxt[l.tail] = Null,
           NEW f, f = [t \in S |-> IF l.nxt[t] = Null THEN l.head ELSE l.nxt[t]]
    PROVE  f \in [S -> S] /\ Ring!Ring(f)
<1>1. Null \notin S /\ (S # {} => l.head \in S)
  <2>1. Null \notin S
    BY NullApart
  <2>2. l.head = Null <=> S = {}
    BY <2>1, ChainedEnds
  <2> QED BY <2>1, <2>2 DEF ListInv
<1>2. \A t \in S : f[t] = IF t = l.tail THEN l.head ELSE l.nxt[t]
  BY <1>1 DEF Chained
<1>3. \A t \in S : f[t] \in S
  BY <1>1, <1>2 DEF Chained
<1>4. ASSUME NEW U \in SUBSET S, U # {}, \A t \in U : f[t] \in U
      PROVE  U = S
  <2>1. \A t \in U \ {l.tail} : l.nxt[t] \in U
    BY <1>2, <1>4
  <2>2. l.tail \in U
    BY <1>1, <1>4, <2>1 DEF Chained
  <2>3. l.head \in U
    BY <1>2, <1>4, <2>2
  <2> QED BY <1>1, <2>1, <2>3 DEF Chained
<1> QED BY <1>3, <1>4 DEF Ring!Ring

TheRing == [t \in IF sched = "rr" THEN Enqueued ELSE {} |-> NextOf(t)]

LEMMA RingStart ==
    ASSUME IInv, ListsInv, StartMain
    PROVE  Ring!Start
<1>1. sched = "adopting" /\ sched' = "rr" /\ cpu' = ctx[Main] /\ state'[Main] = "running"
  BY NullApart DEF StartMain, IInv, TypeOK
<1>2. Enqueued' \in SUBSET Task /\ Main \in Enqueued' /\ Listed(Enqueued)'
  BY <1>1, StartMainLists, NullApart DEF ListsInv, ListsLater, Enqueued
<1>3. DOMAIN TheRing = {}
  BY <1>1 DEF TheRing
<1>4. TheRing' = [t \in Enqueued' |-> NextOf(t)']
  BY <1>1 DEF TheRing
<1>5. TheRing' \in [Enqueued' -> Enqueued'] /\ Ring!Ring(TheRing')
  <2>1. TheRing' = [t \in Enqueued' |-> IF task_list'.nxt[t] = Null THEN task_list'.head
                                       ELSE task_list'.nxt[t]]
    BY <1>4 DEF NextOf
  <2>2. /\ ListInv(task_list', Enqueued') /\ Chained(task_list', Enqueued')
        /\ Enqueued' # {} => task_list'.nxt[task_list'.tail] = Null
    BY <1>2 DEF Listed
  <2> QED BY <1>2, <2>1, <2>2, ListedRing
<1>6. cpu'.task = Main
  BY <1>1, NullApart DEF IInv, Records
<1> QED BY <1>2, <1>3, <1>5, <1>6 DEF Ring!Start, TheRing

\* Once main runs, no task is made, and none before is put in the list.
LEMMA EnqueuedKept ==
    ASSUME IInv, [Next]_vars, ~StartMain
    PROVE  /\ sched' = "rr" <=> sched = "rr"
           /\ sched = "rr" => task_list' = task_list /\ Enqueued' = Enqueued
<1>1. CASE sched # "rr"
  <2>1. sched' # "rr"
    <3>1. cpu.at = "boot" /\ irq = "no" /\ ~cpu.if
      BY <1>1 DEF IInv, BeforeMain
    <3> QED
      BY <1>1, <3>1
         DEF Next, Booting, CreateTask, ChangeScheduler, Adopt, YieldLock, Yielding, Runs,
             YieldClear, YieldNext, SwitchLeave, SwitchEnter, SwitchContext, UnlockInner,
             UnlockOuter, PitTick, Handling, Interrupt, Accepted, TickNext, TickLeave,
             TickEnter, EndOfInterrupt, vars, boot
  <2> QED BY <1>1, <2>1
<1>2. CASE sched = "rr"
  <2>1. sched' = sched /\ task_list' = task_list
    BY <1>2
       DEF Next, Booting, CreateTask, ChangeScheduler, Adopt, StartMain, YieldLock, Yielding,
           YieldClear, YieldNext, SwitchLeave, SwitchEnter, SwitchContext, UnlockInner,
           UnlockOuter, PitTick, Handling, Interrupt, TickNext, TickLeave, TickEnter,
           EndOfInterrupt, vars, boot, tasks
  <2>2. ASSUME NEW t \in Enqueued, NEW f \in StateFlag, ChangeState(t, f)
        PROVE  Enqueued' = Enqueued
    BY <2>2 DEF Enqueued, ChangeState, StateFlag, IInv, TypeOK
  <2>3. Enqueued' = Enqueued
    <3>1. ASSUME SwitchLeave PROVE cpu.prev \in Enqueued /\ ChangeState(cpu.prev, "ready")
      BY <1>2, <3>1 DEF SwitchLeave, Runs, IInv, Turn, InYield, In, Enqueued, BeforeMain,
                        InHandler
    <3>2. ASSUME TickLeave PROVE last \in Enqueued /\ ChangeState(last, "ready")
      BY <1>2, <3>2 DEF TickLeave, IInv, Turn, InHandler, In, Enqueued
    <3>3. cur \in Enqueued
      BY <1>2, NullApart DEF IInv, TypeOK, Made, Built, Enqueued
    <3>4. ASSUME SwitchEnter \/ TickEnter PROVE ChangeState(cur, "running")
      BY <1>2, <3>4 DEF SwitchEnter, TickEnter, Runs, IInv, InYield
    <3>5. ASSUME state' = state PROVE Enqueued' = Enqueued
      BY <3>5 DEF Enqueued
    <3>6. \/ state' = state \/ SwitchLeave \/ TickLeave \/ SwitchEnter \/ TickEnter
      BY <1>2
         DEF Next, Booting, CreateTask, ChangeScheduler, Adopt, StartMain, YieldLock, Yielding,
             YieldClear, YieldNext, SwitchContext, UnlockInner,
             UnlockOuter, PitTick, Handling, Interrupt, TickNext,
             EndOfInterrupt, vars, boot, tasks
    <3>7. "ready" \in StateFlag /\ "running" \in StateFlag
      BY DEF StateFlag
    <3> QED BY <2>2, <3>1, <3>2, <3>3, <3>4, <3>5, <3>6, <3>7
  <2> QED BY <2>1, <2>3
<1> QED BY <1>1, <1>2

LEMMA TurnKept ==
    ASSUME IInv, [Next]_vars, ~StartMain, ~SwitchContext, ~TickEnter
    PROVE  cpu'.task = cpu.task
<1>1. cpu \in Contexts
  BY DEF IInv, TypeOK
<1>2. CASE cpu' = cpu
  BY <1>2
<1>3. CASE YieldLock \/ YieldClear \/ YieldNext \/ SwitchLeave \/ SwitchEnter
           \/ UnlockInner \/ UnlockOuter
  <2>1. CASE YieldLock
    BY <1>1, <2>1 DEF YieldLock, Contexts
  <2>2. CASE YieldClear
    BY <1>1, <2>2 DEF YieldClear, Contexts
  <2>3. CASE YieldNext
    BY <1>1, <2>3 DEF YieldNext, Contexts
  <2>4. CASE SwitchLeave
    BY <1>1, <2>4 DEF SwitchLeave, Contexts
  <2>5. CASE SwitchEnter
    BY <1>1, <2>5 DEF SwitchEnter, Contexts
  <2>6. CASE UnlockInner
    BY <1>1, <2>6 DEF UnlockInner, Contexts
  <2>7. CASE UnlockOuter
    BY <2>7 DEF UnlockOuter, Context
  <2> QED BY <1>3, <2>1, <2>2, <2>3, <2>4, <2>5, <2>6, <2>7
<1>4. \/ cpu' = cpu
      \/ YieldLock \/ YieldClear \/ YieldNext \/ SwitchLeave \/ SwitchEnter
      \/ UnlockInner \/ UnlockOuter
  BY DEF Next, Booting, CreateTask, ChangeScheduler, Adopt, Yielding,
         PitTick, Handling, Interrupt, TickNext, TickLeave,
         EndOfInterrupt, vars, boot, tasks
<1> QED BY <1>2, <1>3, <1>4

\* SwitchContext and the switch in tick give the processor to the next task in
\* the ring.
LEMMA RingPass ==
    ASSUME IInv, ListsInv, TurnListed, SwitchContext \/ TickEnter
    PROVE  /\ cpu.task \in DOMAIN TheRing /\ cpu'.task = TheRing[cpu.task]
           /\ cpu'.task \in Enqueued
<1>1. sched = "rr" /\ cpu.task \in Task
  <2>1. sched = "rr"
    BY DEF SwitchContext, TickEnter, Runs, IInv, BeforeMain
  <2> QED BY <2>1 DEF IInv, InYield
<1>2. cpu'.task = cur /\ cur = NextOf(cpu.task) /\ cur \in Task
  <2>1. CASE SwitchContext
    <3>1. cpu.at = "load" /\ cpu.prev = cpu.task /\ cpu.other = cur /\ cur \in Task
      BY <1>1, <2>1 DEF SwitchContext, Runs, IInv, InYield, TypeOK, Link
    <3>2. cpu'.task = cur
      <4>1. cpu' = ctx'[cur]
        BY <2>1, <3>1 DEF SwitchContext
      <4> QED BY <2>1, <3>1, <4>1, SwitchContextStep DEF IInv, Records
    <3> QED BY <1>1, <3>1, <3>2 DEF ListsInv, ListsLater
  <2>2. CASE TickEnter
    <3>1. irq = "enter" /\ last = cpu.task /\ cur \in Task
      BY <1>1, <2>2 DEF TickEnter, IInv, InHandler, TypeOK, Link
    <3>2. cpu'.task = cur
      <4>1. cpu' = ctx'[cur]
        BY <2>2, <3>1 DEF TickEnter
      <4> QED BY <2>2, <3>1, <4>1, TickEnterStep DEF IInv, Records
    <3> QED BY <1>1, <3>1, <3>2 DEF ListsInv, ListsLater
  <2> QED BY <2>1, <2>2
<1>3. cur \in Enqueued /\ cpu.task \in Enqueued
  BY <1>1, <1>2, NullApart DEF IInv, Made, Built, Enqueued, TurnListed
<1> QED BY <1>1, <1>2, <1>3 DEF TheRing

\* The ring changes only when it is closed.
LEMMA RingKept ==
    ASSUME IInv, [Next]_vars, ~StartMain
    PROVE  TheRing' = TheRing
<1>1. CASE sched = "rr"
  BY <1>1, EnqueuedKept DEF TheRing, NextOf
<1>2. CASE sched # "rr"
  BY <1>2, EnqueuedKept DEF TheRing
<1> QED BY <1>1, <1>2

LEMMA TurnListedStep ==
    ASSUME IInv, ListsInv, TurnListed, [Next]_vars
    PROVE  TurnListed'
<1>1. CASE StartMain
  <2>1. cpu' = ctx[Main] /\ state'[Main] = "running"
    BY <1>1, NullApart DEF StartMain, IInv, TypeOK
  <2>2. cpu'.task = Main
    BY <2>1, NullApart DEF IInv, Records
  <2> QED BY <2>1, <2>2, NullApart DEF TurnListed, Enqueued
<1>2. CASE ~StartMain /\ (SwitchContext \/ TickEnter)
  BY <1>2, EnqueuedKept, RingPass DEF TurnListed
<1>3. CASE ~StartMain /\ ~SwitchContext /\ ~TickEnter
  BY <1>3, EnqueuedKept, TurnKept DEF TurnListed
<1> QED BY <1>1, <1>2, <1>3

LEMMA AlwaysTurnListed == Spec => []TurnListed
<1>1. Init => TurnListed
  BY DEF Init, TurnListed
<1> QED BY <1>1, TurnListedStep, SchedulerInvariant, SchedulerLists, PTL DEF Spec

\* The scheduler implements a round robin: once main runs, the tasks stand in
\* one ring that never changes, and whoever gives the processor away, yield or
\* the timer interrupt, gives it to the next task of that ring.
THEOREM SchedulerImplementsRoundRobin == Spec => ImplementsRoundRobin
<1>1. Init => Ring!Init
  BY DEF Init, Ring!Init, Context
<1>2. IInv /\ ListsInv /\ TurnListed /\ [Next]_vars => [Ring!Start \/ Ring!Pass]_(Ring!vars)
  <2> SUFFICES ASSUME IInv, ListsInv, TurnListed, [Next]_vars
               PROVE  Ring!Start \/ Ring!Pass \/ (TheRing' = TheRing /\ cpu'.task = cpu.task)
    BY DEF Ring!vars, TheRing
  <2>1. CASE StartMain
    BY <2>1, RingStart
  <2>2. CASE ~StartMain /\ (SwitchContext \/ TickEnter)
    BY <2>2, RingKept, RingPass DEF Ring!Pass, TheRing
  <2>3. CASE ~StartMain /\ ~SwitchContext /\ ~TickEnter
    BY <2>3, RingKept, TurnKept
  <2> QED BY <2>1, <2>2, <2>3
<1> QED BY <1>1, <1>2, SchedulerInvariant, SchedulerLists, AlwaysTurnListed, PTL
           DEF Spec, ImplementsRoundRobin, Ring!Spec
=============================================================================
