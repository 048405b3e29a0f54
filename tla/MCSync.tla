------------------------------- MODULE MCSync -------------------------------
(* Instances of SchedulerSync for TLC.  Each program uses one object.      *)
EXTENDS SchedulerSync

CONSTANTS sem1, gate1, bar1, bar2, park1, atom1

MCPermits == [x \in Semaphores |-> 0]
MCCounts == [x \in Latches |-> 2]
MCExpected == [x \in Barriers |-> IF x = bar1 THEN 3 ELSE 2]
MCQueues == ({"latch"} \X Latches) \cup ({"barrier"} \X Barriers)
                \cup ({"parker"} \X Parkers) \cup ({"atomic"} \X Atomics)

\* try_acquire never suspends: it is tried against release alone
SemaphorePrograms ==
    {(SemaphoreCalls \ {"try_acquire"}) \X {x} : x \in Semaphores}
        \cup {{"release", "try_acquire"} \X {x} : x \in Semaphores}
ParkerPrograms == {ParkerCalls \X {x} : x \in Parkers}
LatchPrograms == {LatchCalls \X {x} : x \in Latches}
BarrierPrograms == {BarrierCalls \X {x} : x \in Barriers}
AtomicPrograms == {AtomicCalls \X {x} : x \in Atomics}

MCPrograms ==
    UNION {SemaphorePrograms, ParkerPrograms, LatchPrograms, BarrierPrograms, AtomicPrograms}

\* What tells two states apart: a call that is over, or that failed outside
\* every queue, leaves its operation, object, argument and result behind, and
\* nothing reads them before the next call of the thread overwrites them
InCall == blocked \cup {t \in Threads : pc[t] \in {"call", "blocked", "after", "afterWait"}}

SyncView ==
    <<program, tokenVars, handVars, waitVars, failVars, pc, deadlocked, switchCount,
      touched, semaphoreVars, latchVars, barrierVars, permit, value,
      [t \in InCall |-> <<op[t], obj[t], arg[t], granted[t]>>]>>
=============================================================================
