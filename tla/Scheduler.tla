------------------------------ MODULE Scheduler ------------------------------
(***************************************************************************)
(* The round robin scheduler of TorexOS on its one processor: yield in     *)
(* task context, tick in the timer interrupt, the state queues, the        *)
(* interrupt flag and the contexts a switch saves and loads                *)
(* (kernel/src/process, arch/switching.nasm, drivers/timer/pit.cpp).       *)
(*                                                                         *)
(* A context is what SwitchContext or the interrupt frame holds of a task: *)
(* whose execution it is, where it is, the interrupt flag, and the locals  *)
(* of yield and switch_to, which live on the task's stack.  The processor  *)
(* runs the context cpu.  While the timer handler runs, cpu is the context *)
(* in the interrupt frame, which iretq loads again.                        *)
(***************************************************************************)
EXTENDS Naturals, IntrusiveList

CONSTANTS
    Task,    \* the tasks; a task stands for its two list nodes too
    Main,    \* the task made of init_entry
    Slice    \* expired_after(5_ms): timer interrupts a task may use up

ASSUME SchedulerAssumption ==
    /\ Null \notin Task /\ Main \in Task
    /\ Slice \in Nat \ {0}

VARIABLES
    sched,       \* "null", "adopting" or "rr": the current scheduler
    it,          \* the iterator of change_scheduler
    task_list,   \* RoundRobinScheduler::task_list
    cur,         \* RoundRobinScheduler::cur, the node it points at
    state,       \* Task::state, or "none" before the task is built
    queues,      \* the lists of get_queue, one for each state
    ctx,         \* Task::cpu_context
    cpu,         \* the context the processor runs, or has interrupted
    left,        \* expired - count of the timer
    irr, isr,    \* of the 8259: timer interrupt requested, in service
    irq,         \* "no", or where the timer handler is: "tick", "leave",
                 \* "enter" or "eoi"
    last         \* in tick: the task that prev points at, or Null

tasks == <<task_list, cur, state, queues, ctx, cpu>>
timer == <<left, irr, isr, irq, last>>
boot  == <<sched, it>>
vars  == <<tasks, timer, boot>>

-----------------------------------------------------------------------------
\* suspended, asleep and terminated exist, but no code enters them.
StateFlag == {"created", "ready", "running"}

Queue(Q, f) == [head |-> Q.head[f], tail |-> Q.tail[f], nxt |-> Q.nxt, prv |-> Q.prv]
WithQueue(Q, f, l) ==
    [head |-> [Q.head EXCEPT ![f] = l.head], tail |-> [Q.tail EXCEPT ![f] = l.tail],
     nxt  |-> l.nxt, prv |-> l.prv]
PutBack(Q, f, t) == WithQueue(Q, f, PushBack(Queue(Q, f), t))

\* change_state of a task in state f.
Move(Q, t, f, g) == PutBack(WithQueue(Q, f, PopNode(Queue(Q, f), t)), g, t)

\* t->change_state(f).  pop_node never meets a null neighbour here: that is
\* what QueuesWhole says.
ChangeState(t, f) ==
    /\ queues' = Move(queues, t, state[t], f)
    /\ state' = [state EXCEPT ![t] = f]

\* Mutant: the end of the list is not noticed.
NextOfUnwrapped(t) == task_list.nxt[t]

\* next(): cur++, and begin() after the last node.
NextOf(t) == IF task_list.nxt[t] = Null THEN task_list.head ELSE task_list.nxt[t]

Context(t, at, if) ==
    [task |-> t, at |-> at, if |-> if,
     outer |-> FALSE, inner |-> FALSE, prev |-> Null, other |-> Null]

\* What Builder leaves in cpu_context: the entry, interrupts on.
Fresh(t) == Context(t, "code", TRUE)

-----------------------------------------------------------------------------
Links == [t \in Task |-> Null]

Init ==
    /\ sched = "null" /\ it = Null
    /\ task_list = [head |-> Null, tail |-> Null, nxt |-> Links, prv |-> Links]
    /\ cur = Null
    /\ state = [t \in Task |-> "none"]
    /\ queues = [head |-> [f \in StateFlag |-> Null], tail |-> [f \in StateFlag |-> Null],
                 nxt |-> Links, prv |-> Links]
    /\ ctx = [t \in Task |-> Fresh(t)]
    /\ cpu = Context(Null, "boot", FALSE)
    /\ left = Slice
    /\ irr = FALSE /\ isr = FALSE /\ irq = "no" /\ last = Null

\* init_scheduler: Builder and build, then change_state(ready).  The source
\* makes one task like this, idle.
CreateTask(t) ==
    /\ cpu.at = "boot" /\ sched = "null"
    /\ t # Main /\ state[t] = "none"
    /\ state' = [state EXCEPT ![t] = "ready"]
    /\ queues' = Move(PutBack(queues, "created", t), t, "created", "ready")
    /\ UNCHANGED <<task_list, cur, ctx, cpu, timer, boot>>

\* change_scheduler begins to walk the ready queue.
ChangeScheduler ==
    /\ cpu.at = "boot" /\ sched = "null"
    /\ sched' = "adopting"
    /\ it' = queues.head["ready"]
    /\ UNCHANGED <<tasks, timer>>

\* One round of its loop: enqueue.
Adopt ==
    /\ cpu.at = "boot" /\ sched = "adopting" /\ it # Null
    /\ task_list' = PushFront(task_list, it)
    /\ it' = queues.nxt[it]
    /\ UNCHANGED <<cur, state, queues, ctx, cpu, timer, sched>>

\* start_scheduling goes on: main is built, enqueued, made current and
\* running, and its context is loaded; what start_scheduling was is dropped.
StartMain ==
    /\ cpu.at = "boot" /\ sched = "adopting" /\ it = Null
    /\ sched' = "rr"
    /\ task_list' = PushFront(task_list, Main)
    /\ cur' = Main
    /\ state' = [state EXCEPT ![Main] = "running"]
    /\ queues' = Move(PutBack(queues, "created", Main), Main, "created", "running")
    /\ cpu' = ctx[Main]
    /\ UNCHANGED <<ctx, timer, it>>

-----------------------------------------------------------------------------
(***************************************************************************)
(* yield.  A task may call it wherever its own code is.                    *)
(***************************************************************************)

\* The task's code runs, and may be interrupted, between any two steps.
Runs(at) == irq = "no" /\ cpu.at = at

\* lock.lock() notes the interrupt flag ...
YieldLock ==
    /\ Runs("code")
    /\ cpu' = [cpu EXCEPT !.at = "locking", !.outer = cpu.if]
    /\ UNCHANGED <<task_list, cur, state, queues, ctx, timer, boot>>

\* Mutant: the interrupt flag is left alone.
YieldClearNothing ==
    /\ Runs("locking")
    /\ cpu' = [cpu EXCEPT !.at = "next"]
    /\ UNCHANGED <<task_list, cur, state, queues, ctx, timer, boot>>

\* ... and clears it.
YieldClear ==
    /\ Runs("locking")
    /\ cpu' = [cpu EXCEPT !.at = "next", !.if = FALSE]
    /\ UNCHANGED <<task_list, cur, state, queues, ctx, timer, boot>>

\* expired_after, next().
YieldNext ==
    /\ Runs("next")
    /\ left' = Slice
    /\ cur' = NextOf(cur)
    /\ cpu' = [cpu EXCEPT !.at = "leave", !.prev = cur]
    /\ UNCHANGED <<task_list, state, queues, ctx, irr, isr, irq, last, boot>>

\* (*prev)->switch_to(*cur): the second lock, change_state(ready) ...
SwitchLeave ==
    /\ Runs("leave")
    /\ ChangeState(cpu.prev, "ready")
    /\ cpu' = [cpu EXCEPT !.at = "enter", !.inner = cpu.if, !.if = FALSE, !.other = cur]
    /\ UNCHANGED <<task_list, cur, ctx, timer, boot>>

\* ... and other->change_state(running).
SwitchEnter ==
    /\ Runs("enter")
    /\ ChangeState(cpu.other, "running")
    /\ cpu' = [cpu EXCEPT !.at = "load"]
    /\ UNCHANGED <<task_list, cur, ctx, timer, boot>>

\* SwitchContext: saves into prev, loads other.  A task that comes back here
\* continues behind the call, with the flags it had inside the two locks.
SwitchContext ==
    /\ Runs("load")
    /\ LET saved == [ctx EXCEPT ![cpu.prev] = [cpu EXCEPT !.at = "back"]]
       IN  ctx' = saved /\ cpu' = saved[cpu.other]
    /\ UNCHANGED <<task_list, cur, state, queues, timer, boot>>

\* switch_to unlocks and returns.
UnlockInner ==
    /\ Runs("back")
    /\ cpu' = [cpu EXCEPT !.at = "unlock", !.if = cpu.if \/ cpu.inner,
                          !.inner = FALSE, !.prev = Null, !.other = Null]
    /\ UNCHANGED <<task_list, cur, state, queues, ctx, timer, boot>>

\* yield unlocks and returns.
UnlockOuter ==
    /\ Runs("unlock")
    /\ cpu' = Context(cpu.task, "code", cpu.if \/ cpu.outer)
    /\ UNCHANGED <<task_list, cur, state, queues, ctx, timer, boot>>

-----------------------------------------------------------------------------
(***************************************************************************)
(* The timer.                                                              *)
(***************************************************************************)

\* The PIT asks for an interrupt; one that is asked for already is lost.
PitTick ==
    /\ ~irr
    /\ irr' = TRUE
    /\ UNCHANGED <<tasks, left, isr, irq, last, boot>>

Accepted == irq = "no" /\ cpu.if /\ irr /\ ~isr

\* Mutant: the count does not advance.
InterruptUncounted ==
    /\ Accepted
    /\ irr' = FALSE /\ isr' = TRUE
    /\ irq' = IF left = 0 THEN "tick" ELSE "eoi"
    /\ UNCHANGED <<tasks, left, last, boot>>

\* The processor takes the interrupt; topHalf counts it.
Interrupt ==
    /\ Accepted
    /\ irr' = FALSE /\ isr' = TRUE
    /\ left' = IF left = 0 THEN 0 ELSE left - 1
    /\ irq' = IF left' = 0 THEN "tick" ELSE "eoi"
    /\ UNCHANGED <<tasks, last, boot>>

\* tick: next().
TickNext ==
    /\ irq = "tick"
    /\ cur' = NextOf(cur)
    /\ last' = cur
    /\ irq' = "leave"
    /\ UNCHANGED <<task_list, state, queues, ctx, cpu, left, irr, isr, boot>>

\* Mutant: prev stays running.
TickStays ==
    /\ irq = "leave"
    /\ irq' = "enter"
    /\ UNCHANGED <<tasks, left, irr, isr, last, boot>>

\* (*prev)->switch_to_in_irq(*cur): change_state(ready) ...
TickLeave ==
    /\ irq = "leave"
    /\ ChangeState(last, "ready")
    /\ irq' = "enter"
    /\ UNCHANGED <<task_list, cur, ctx, cpu, left, irr, isr, last, boot>>

\* Mutant: the context is loaded before it is saved.
TickLoadsFirst ==
    /\ irq = "enter"
    /\ ChangeState(cur, "running")
    /\ cpu' = ctx[cur] /\ ctx' = [ctx EXCEPT ![last] = ctx[cur]]
    /\ left' = Slice /\ irq' = "eoi" /\ last' = Null
    /\ UNCHANGED <<task_list, cur, irr, isr, boot>>

\* ... and after->change_state(running); then the frame of the interrupted
\* task is saved and the context of the next one put in its place, and tick
\* sets the timer.
TickEnter ==
    /\ irq = "enter"
    /\ ChangeState(cur, "running")
    /\ LET saved == [ctx EXCEPT ![last] = cpu]
       IN  ctx' = saved /\ cpu' = saved[cur]
    /\ left' = Slice /\ irq' = "eoi" /\ last' = Null
    /\ UNCHANGED <<task_list, cur, irr, isr, boot>>

\* sendEOI and iretq.
EndOfInterrupt ==
    /\ irq = "eoi"
    /\ isr' = FALSE
    /\ irq' = "no"
    /\ UNCHANGED <<tasks, left, irr, last, boot>>

Booting == (\E t \in Task : CreateTask(t)) \/ ChangeScheduler \/ Adopt \/ StartMain
Yielding ==
    \/ YieldClear \/ YieldNext \/ SwitchLeave \/ SwitchEnter \/ SwitchContext
    \/ UnlockInner \/ UnlockOuter
Handling == Interrupt \/ TickNext \/ TickLeave \/ TickEnter \/ EndOfInterrupt

Next == Booting \/ YieldLock \/ Yielding \/ PitTick \/ Handling

Spec == Init /\ [][Next]_vars

\* The processor goes on with what it has begun or takes interrupts, and the
\* PIT is periodic.  No task has to yield, and one that yields again and again
\* may keep the processor from taking an interrupt.
FairSpec ==
    Spec /\ WF_vars(Booting \/ Yielding \/ Handling) /\ WF_vars(PitTick)

-----------------------------------------------------------------------------
Contexts ==
    [task : Task \union {Null},
     at : {"boot", "code", "locking", "next", "leave", "enter", "load", "back", "unlock"},
     if : BOOLEAN, outer : BOOLEAN, inner : BOOLEAN,
     prev : Task \union {Null}, other : Task \union {Null}]

Link == Task \union {Null}

\* The lists, of whichever nodes there are, that lead to V only.
ListsTo(V) == [head : V, tail : V, nxt : [Task -> V], prv : [Task -> V]]
QueuesTo(V) ==
    [head : [StateFlag -> V], tail : [StateFlag -> V], nxt : [Task -> V], prv : [Task -> V]]

TypeOK ==
    /\ sched \in {"null", "adopting", "rr"} /\ it \in Link
    /\ task_list \in ListsTo(Link)
    /\ cur \in Link /\ (cur = Null <=> sched # "rr")
    /\ state \in [Task -> StateFlag \union {"none"}]
    /\ queues \in QueuesTo(Link)
    /\ ctx \in [Task -> Contexts]
    /\ cpu \in Contexts
    /\ left \in 0 .. Slice
    /\ irr \in BOOLEAN /\ isr \in BOOLEAN
    /\ irq \in {"no", "tick", "leave", "enter", "eoi"} /\ last \in Link

In(f) == {t \in Task : state[t] = f}

\* Each state queue is a list of the tasks in that state.
StateQueues == \A f \in StateFlag : ListInv(Queue(queues, f), In(f))

\* Reading a queue forward, as change_scheduler does, meets every task: no
\* next link is lost.  pop_node loses one when it takes the last of three.
QueuesWhole ==
    \A f \in StateFlag : \A t \in In(f) :
        t # queues.tail[f] => queues.nxt[t] \in In(f)

\* Both, in every state of a hand-over (process.cpp:95-100): two tasks change
\* queues in it, and change_scheduler and pop_front_node read the links.
QueuesSound == StateQueues /\ QueuesWhole

\* Whenever an interrupt can come, the task that runs is the current one and
\* the only running one.
CurrentRuns ==
    cpu.if /\ irq = "no" => cpu.task = cur /\ In("running") = {cur}

\* What a task that is not running will resume is its own execution.
ContextsOwn ==
    \A t \in Task \ {cpu.task} : ctx[t].task = t /\ ctx[t].at \in {"code", "locking", "back"}

\* A task's own code always runs with interrupts on: neither a switch inside
\* the locks of yield nor one by the timer takes or leaves a flag.
InterruptsOn ==
    /\ cpu.at = "code" => cpu.if
    /\ \A t \in Task : ctx[t].at = "code" => ctx[t].if

\* A task is switched to with no interrupt left in service behind it.
NoneInService == isr <=> irq # "no"

-----------------------------------------------------------------------------
(***************************************************************************)
(* The inductive invariant behind the last four.                           *)
(***************************************************************************)

\* Every pointer to a task, in a list or not, is to one that was built.
Built == {t \in Task : state[t] # "none"} \union {Null}
Made ==
    /\ it \in Built /\ cur \in Built
    /\ task_list \in ListsTo(Built) /\ queues \in QueuesTo(Built)

\* What Task::cpu_context holds: the entry of a task, a task the timer
\* interrupted, or one that is inside SwitchContext.
Records ==
    \A t \in Task :
        /\ ctx[t].task = t
        /\ ctx[t].at \in {"code", "locking", "back"}
        /\ ctx[t].if <=> ctx[t].at # "back"
        /\ ctx[t].at # "code" => ctx[t].outer
        /\ ~ctx[t].inner

BeforeMain ==
    sched # "rr" => /\ cpu.at = "boot" /\ cpu.task = Null /\ ~cpu.if
                    /\ irq = "no" /\ In("running") = {}

\* Where the processor is in yield decides about the flag and the locals.
InYield ==
    sched = "rr" =>
        /\ cpu.task \in Task /\ cpu.at # "boot"
        /\ cpu.if <=> cpu.at \in {"code", "locking"}
        /\ cpu.at # "code" => cpu.outer
        /\ ~cpu.inner
        /\ cpu.at \in {"leave", "enter", "load"} => cpu.prev = cpu.task
        /\ cpu.at \in {"enter", "load"} => cpu.other = cur

\* The handler runs over a task that had interrupts on.
InHandler ==
    /\ irq \in {"tick", "leave", "enter"} => cpu.at \in {"code", "locking"}
    /\ irq = "eoi" => cpu.at \in {"code", "locking", "back"}
    /\ irq \in {"leave", "enter"} => last = cpu.task

\* Whose turn it is, before and inside a hand-over.
Turn ==
    sched = "rr" =>
        /\ task_list.head # Null
        /\ cpu.task = cur \/ cpu.at \in {"leave", "enter", "load"} \/ irq \in {"leave", "enter"}
        /\ In("running") = IF cpu.at = "enter" \/ irq = "enter" THEN {}
                           ELSE IF cpu.at = "load" THEN {cur} ELSE {cpu.task}

IInv ==
    /\ TypeOK
    /\ Made
    /\ Records
    /\ BeforeMain
    /\ InYield
    /\ InHandler
    /\ NoneInService
    /\ Turn
-----------------------------------------------------------------------------
(***************************************************************************)
(* What the lists need besides for QueuesSound to be inductive.            *)
(***************************************************************************)
Enqueued == {t \in Task : state[t] # "none"}

\* Each queue holds the tasks in its state and can be read forward.
QueuesRead ==
    /\ \A f \in StateFlag :
          ListInv(Queue(queues, f), In(f)) /\ Chained(Queue(queues, f), In(f))
    /\ In("created") = {}

\* task_list has the tasks S and ends with a null link: nothing is put at its
\* back or taken out of it.
Listed(S) ==
    /\ ListInv(task_list, S) /\ Chained(task_list, S)
    /\ S # {} => task_list.nxt[task_list.tail] = Null

\* change_scheduler has adopted the tasks S: the ready queue up to it.
Adopted(S) ==
    LET ready == Queue(queues, "ready")
    IN  /\ S \subseteq In("ready")
        /\ \A t \in S \ {ready.head} : ready.prv[t] \in S
        /\ \A t \in S \ {ready.tail} : ready.nxt[t] \in S \union {it}
        /\ it = Null => S = In("ready")
        /\ it # Null => /\ it \in In("ready") \ S
                       /\ IF it = ready.head THEN S = {}
                          ELSE ready.prv[it] \in S /\ ready.head \in S

\* Before main, tasks are only put at the back of the ready queue, which
\* therefore ends with a null link too.
ListsAtBoot ==
    sched # "rr" =>
        /\ state[Main] = "none"
        /\ In("ready") # {} => queues.nxt[queues.tail["ready"]] = Null
        /\ sched = "null" => Listed({})
        /\ sched = "adopting" => \E S \in SUBSET Task : Listed(S) /\ Adopted(S)

\* Later task_list has every task, and in a hand-over the next task is the one
\* behind the task that leaves, which is the last of the ready queue until the
\* other is taken out of it.
ListsLater ==
    sched = "rr" =>
        /\ Listed(Enqueued)
        /\ cpu.at \in {"leave", "enter", "load"} => cur = NextOf(cpu.prev)
        /\ irq \in {"leave", "enter"} => cur = NextOf(last)
        /\ cpu.at = "enter" => queues.tail["ready"] = cpu.prev
        /\ irq = "enter" => queues.tail["ready"] = last

ListsInv == QueuesRead /\ ListsAtBoot /\ ListsLater

\* The processor runs a task of the list.
TurnListed == sched = "rr" => cpu.task \in Enqueued
=============================================================================
