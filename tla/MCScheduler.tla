----------------------------- MODULE MCScheduler -----------------------------
(***************************************************************************)
(* Scheduler for TLC: what it implements and what it guarantees every task *)
(***************************************************************************)
EXTENDS Scheduler

Ring == INSTANCE RoundRobin WITH
    None <- Null,
    ring <- [t \in IF sched = "rr" THEN Enqueued ELSE {} |-> NextOf(t)],
    turn <- cpu.task
ImplementsRoundRobin == Ring!Spec

\* The tasks other than main are alike: what holds of one holds of all.
Watched == {Main, CHOOSE t \in Task : t # Main}

\* scheduler.h:52, "Fairness": every task that is ready runs again, whether
\* the others yield or not, and although each yield sets the timer back.
EveryTaskRuns ==
    \A t \in Watched : [](state[t] = "ready" => <>(cpu.task = t /\ irq = "no"))
=============================================================================
