------------------------------ MODULE MCLocks ------------------------------
(* Instances of SchedulerLocks for TLC.                                    *)
EXTENDS SchedulerLocks

CONSTANTS l1, l2, c1

MCLockOf == [c \in Conditions |-> l1]

\* What tells two states apart: a call that is over, or that failed outside
\* every queue, leaves its operation, object and result behind, and nothing
\* reads them before the next call of the thread overwrites them
InCall == blocked \cup {t \in Threads : pc[t] \notin
            {"spawned", "ready", "user", "failed", "recorded", "finishing", "done"}}

LockView ==
    <<tokenVars, handVars, waitVars, failVars, pc, deadlocked, switchCount,
      owner, depth, shared, [t \in InCall |-> <<op[t], obj[t], granted[t]>>]>>
=============================================================================
