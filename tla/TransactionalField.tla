------------------------ MODULE TransactionalField ------------------------
(***************************************************************************)
(* lincheck::stm::tx_field under the cooperative scheduler.                *)
(*                                                                         *)
(* Every hook of a field is a switch point, so the token may leave a       *)
(* thread there.  register_location holds registration_mutex_ across two   *)
(* hooks and set holds mutex_ across one; both are std::mutex, which the   *)
(* scheduler knows nothing of.  Nobody stores who holds them: a thread     *)
(* holds a mutex while it is in a hook inside the guarded block, and the   *)
(* lock_guard lets go when an exception of the hook leaves it.             *)
(***************************************************************************)
EXTENDS SchedulerCore

CONSTANT Fields

FieldOps == {"get", "set"}

VARIABLES
    registered,     \* registered_ of each field
    step            \* where each thread is inside its field operation

fieldVars == <<registered, step>>
vars == <<coreVars, fieldVars>>

Init ==
    /\ CoreInit
    /\ registered = [f \in Fields |-> FALSE]
    /\ step = [t \in Threads |-> "out"]

InHook(t, hooks) == step[t] \in hooks /\ pc[t] \in {"before", "beforeWait", "call"}

RegistrationLocked(f) == \E t \in Threads : obj[t] = f /\ InHook(t, {"register", "init"})
ValueLocked(f) == \E t \in Threads : obj[t] = f /\ InHook(t, {"write"})

\* Native code of t, between two hooks
Native(t, s) == pc[t] = "call" /\ step[t] = s

\* On to hook s, or past the native code of s
Hook(t, s) == Goto(t, "before") /\ step' = [step EXCEPT ![t] = s]
Proceed(t, s) == UNCHANGED pc /\ step' = [step EXCEPT ![t] = s]

CoreUnchanged == UNCHANGED <<tokenVars, handVars, waitVars, failVars, granted, deadlocked, switchCount>>
CallUnchanged == CoreUnchanged /\ UNCHANGED <<op, obj>>

-----------------------------------------------------------------------------
\* The object under test calls get or set
Begin(t, o, f) ==
    /\ pc[t] = "user"
    /\ op' = [op EXCEPT ![t] = o] /\ obj' = [obj EXCEPT ![t] = f]
    /\ Goto(t, "call") /\ step' = [step EXCEPT ![t] = "enter"]
    /\ CoreUnchanged /\ UNCHANGED registered

\* ensure_registered of a registered field
AlreadyRegistered(t) ==
    /\ Native(t, "enter") /\ registered[obj[t]]
    /\ Proceed(t, "access")
    /\ CallUnchanged /\ UNCHANGED registered

\* register_location takes both mutexes, lets go of mutex_, and comes to tx_location_register
LockRegistration(t) ==
    /\ Native(t, "enter") /\ ~registered[obj[t]]
    /\ ~RegistrationLocked(obj[t]) /\ ~ValueLocked(obj[t])
    /\ Hook(t, "register")
    /\ CallUnchanged /\ UNCHANGED registered

\* ... to tx_location_init
AfterRegister(t) ==
    /\ Native(t, "register")
    /\ Hook(t, "init")
    /\ CallUnchanged /\ UNCHANGED registered

\* ... and out of registration_mutex_
AfterInit(t) ==
    /\ Native(t, "init")
    /\ registered' = [registered EXCEPT ![obj[t]] = TRUE]
    /\ Proceed(t, "access")
    /\ CallUnchanged

\* set comes to tx_write_value inside mutex_
Write(t) ==
    /\ Native(t, "access") /\ op[t] = "set" /\ ~ValueLocked(obj[t])
    /\ Hook(t, "write")
    /\ CallUnchanged /\ UNCHANGED registered

\* get has left mutex_ when it comes to tx_read_value
Read(t) ==
    /\ Native(t, "access") /\ op[t] = "get" /\ ~ValueLocked(obj[t])
    /\ Hook(t, "read")
    /\ CallUnchanged /\ UNCHANGED registered

\* The last hook returns
Leave(t) ==
    /\ Native(t, "write") \/ Native(t, "read")
    /\ Goto(t, "user") /\ step' = [step EXCEPT ![t] = "out"]
    /\ CallUnchanged /\ UNCHANGED registered

FieldStep(t) ==
    \/ \E o \in FieldOps, f \in Fields : Begin(t, o, f)
    \/ AlreadyRegistered(t) \/ LockRegistration(t) \/ AfterRegister(t) \/ AfterInit(t)
    \/ Write(t) \/ Read(t) \/ Leave(t)

Step(t) == FieldStep(t) \/ (CoreStep(t) /\ UNCHANGED fieldVars)

Next ==
    \/ WaitUntilReady /\ UNCHANGED fieldVars
    \/ \E t \in Threads : Step(t)

\* The operating system runs every thread that can run
FairSpec ==
    /\ Init /\ [][Next]_vars
    /\ WF_vars(WaitUntilReady /\ UNCHANGED fieldVars)
    /\ \A t \in Threads : WF_vars(Step(t))

-----------------------------------------------------------------------------
\* Every schedule of threads that use a field ends, and one in which they block each other is
\* reported as a deadlock: "Distinguish ordinary switch points from mandatory blocking switches
\* so deadlocks and lock-order bugs are reported as such" (PORTING_LINCHECK_TO_CPP.md).
FieldRunEnds == <>AllDone
=============================================================================
