--------------------------- MODULE GuardUnwinding ---------------------------
(***************************************************************************)
(* SchedulerLocks under an object that locks only through                  *)
(* lincheck::lock_guard, so that scopes nest and an exception unwinds them.*)
(*                                                                         *)
(* The destructor of a guard calls unlock(), which is a switch point like  *)
(* any other and throws when the run is aborted, deadlocked or out of      *)
(* budget.  Destructors are noexcept: an exception that leaves one ends    *)
(* the process (std::terminate).                                           *)
(***************************************************************************)
EXTENDS SchedulerLocks

VARIABLES
    guards,       \* per thread, the locks of its lock_guards, innermost last
    unwinding,    \* threads that run a destructor because of an exception
    terminated    \* std::terminate was called

guardVars == <<guards, unwinding, terminated>>

ASSUME GuardOpsAssumption == Ops = {"lock", "unlock"}

GuardInit ==
    /\ Init
    /\ guards = [t \in Threads |-> <<>>]
    /\ unwinding = {}
    /\ terminated = FALSE

InDestructor(t) == op[t] = "unlock" /\ pc[t] \in {"call", "after", "afterWait"}

\* ~lock_guard of the innermost guard begins in this step
Closes(t) == pc[t] = "user" /\ pc'[t] = "call"

\* The constructor of a lock_guard is through in this step
Opens(t) == op[t] = "lock" /\ pc[t] \in {"after", "afterWait"} /\ pc'[t] = "user"

\* The step leaves the operation of t
Leaves(t) == pc[t] \in {"failed", "finishing"} \/ (pc[t] = "user" /\ pc'[t] = "finishing")

\* Scopes end innermost first, all of them before their operation does
Scoped(t) ==
    /\ Closes(t) => guards[t] # <<>> /\ obj'[t] = Last(guards[t])
    /\ Leaves(t) => guards[t] = <<>>
    /\ pc[t] = "user" => t \notin unwinding

\* A step of the scheduler's wrappers
GuardedStep(t) ==
    /\ Step(t)
    /\ Scoped(t)
    /\ guards' = IF Closes(t) THEN [guards EXCEPT ![t] = Front(guards[t])]
                 ELSE IF Opens(t) THEN [guards EXCEPT ![t] = Append(guards[t], obj[t])]
                 ELSE guards
    /\ terminated' = (InDestructor(t) /\ pc'[t] \in {"failed", "finishing"})
    /\ UNCHANGED unwinding

\* An exception passes a guard: its destructor calls unlock()
Unwind(t) ==
    /\ pc[t] = "failed"
    /\ guards[t] # <<>>
    /\ op' = [op EXCEPT ![t] = "unlock"]
    /\ obj' = [obj EXCEPT ![t] = Last(guards[t])]
    /\ Goto(t, "call")
    /\ guards' = [guards EXCEPT ![t] = Front(guards[t])]
    /\ unwinding' = unwinding \cup {t}
    /\ UNCHANGED <<tokenVars, handVars, waitVars, granted, failVars, deadlocked,
                   switchCount, lockVars, terminated>>

\* ... and goes on from there
Unwound(t) ==
    /\ pc[t] = "user"
    /\ t \in unwinding
    /\ Goto(t, "failed")
    /\ unwinding' = unwinding \ {t}
    /\ UNCHANGED <<tokenVars, handVars, waitVars, callVars, failVars, deadlocked,
                   switchCount, lockVars, guards, terminated>>

\* ScheduleAbortError passes a guard: unlock() publishes its event first, and
\* an aborted thread cannot publish an event
UnwindAborted(t) ==
    /\ pc[t] = "finishing"
    /\ guards[t] # <<>>
    /\ terminated' = TRUE
    /\ UNCHANGED <<vars, guards, unwinding>>

GuardTerminated == (AllDone \/ terminated) /\ UNCHANGED <<vars, guardVars>>

GuardNext ==
    \/ /\ ~terminated
       /\ \/ WaitUntilReady /\ UNCHANGED <<lockVars, guardVars>>
          \/ \E t \in Threads : GuardedStep(t)
          \/ \E t \in Threads : Unwind(t)
          \/ \E t \in Threads : Unwound(t)
          \/ \E t \in Threads : UnwindAborted(t)
    \/ GuardTerminated

GuardSpec == GuardInit /\ [][GuardNext]_<<vars, guardVars>>

-----------------------------------------------------------------------------
\* Types of the guards' state (lock_guard::mutex_ of every guard on the stack)
GuardTypeOK ==
    /\ TypeOK
    /\ guards \in [Threads -> Seq(Locks)]
    /\ unwinding \subseteq Threads
    /\ terminated \in BOOLEAN

\* Between two calls a worker owns exactly the locks its guards name: no
\* hand-over, time of waking or unwinding makes the scheduler's lock table
\* and the object's own view of it differ (lock_guard, release_lock_locked)
GuardsMatchOwner ==
    \A t \in Threads : pc[t] = "user" => \A l \in Locks :
        Holds(t, l) <=> l \in ToSet(guards[t])

\* When the failure of an operation that threw by itself is recorded, its
\* unwinding has released all its locks, whatever ran in between
ReleasedBeforeCatch ==
    \A t \in Threads : pc[t] = "recorded" /\ failure[t] = "exception" =>
        \A l \in Locks : ~Holds(t, l)

\* Abort requests wake and stop the peers: stopping a worker does not take
\* the whole process down (README_ARCHIVE.md)
AbortStopsPeers == ~terminated
=============================================================================
