----------------------------- MODULE ScheduleRun -----------------------------
(***************************************************************************)
(* One run of ModelCheckingOptions::run_schedule: the CooperativeScheduler *)
(* as a function of the schedule it is given, for a program under test     *)
(* whose own steps are deterministic.                                      *)
(*                                                                         *)
(* SchedulerCore leaves open who is chosen at a switch point; this module  *)
(* says how a schedule decides it and what is recorded of the decisions.   *)
(* The operations under test are external: each actor of a scenario is a   *)
(* sequence of instructions over one mutex and one unprotected counter.    *)
(***************************************************************************)
EXTENDS Integers, Sequences, FiniteSets, SequencesExt

CONSTANT Budget     \* max_switch_points_per_schedule

ASSUME BudgetAssumption == Budget \in Nat \ {0}

Instructions == {"switch", "acquire", "release", "read", "write"}
NoThread == -1

Actors == Seq(Seq(Instructions))
ScenarioType == [init : Actors, post : Actors, parallel : Seq(Actors) \ {<<>>}]

\* The parallel threads of scenario c, and what each of them does
ThreadsOf(c) == 0 .. Len(c.parallel) - 1
Program(c) == [t \in ThreadsOf(c) |-> FlattenSeq(c.parallel[t + 1])]

\* The increments of a sequence of actors
Increments(actors) ==
    LET all == FlattenSeq(actors) IN Cardinality({i \in DOMAIN all : all[i] = "write"})

Outcomes == {"running", "passed", "deadlock", "livelock", "wrong"}

\* The scheduler and the program while threads T run
Machine(T) ==
    [at : [T -> Nat],               \* instructions done by each thread
     done : SUBSET T,               \* finished_
     owner : T \cup {NoThread}, level : Nat, waiters : Seq(T),   \* the lock
     cell : Nat, copy : [T -> Nat],
     current : T,                   \* scheduled_thread_
     used : Nat,                    \* schedule_index_
     switches : Nat,                \* switch_count_
     decisions : Seq([runnable : SUBSET T, chosen : T]),
     exhausted : BOOLEAN,           \* schedule_exhausted_
     notRunnable : BOOLEAN,         \* schedule_non_runnable_choice_
     outcome : Outcomes]

\* active_threads_locked
Runnable(m) == DOMAIN m.at \ (m.done \cup ToSet(m.waiters))

\* choose_next_active_locked: of n threads the next after t that is active
NextActive(active, n, t) ==
    LET distance(c) == IF c > t THEN c - t ELSE c - t + n IN
    CHOOSE c \in active : \A d \in active : distance(c) <= distance(d)

\* Whom schedule s chooses at a switch point of thread t
Choice(m, s, t) ==
    IF m.used < Len(s) /\ s[m.used + 1] \in Runnable(m) THEN s[m.used + 1] ELSE t

\* Seeded bug of Decide: a choice that cannot run is skipped
DecideUnrecorded(m, s, t) ==
    [m EXCEPT
        !.current = Choice(m, s, t),
        !.used = IF @ < Len(s) THEN @ + 1 ELSE @,
        !.exhausted = @ \/ m.used >= Len(s),
        !.decisions = Append(@, [runnable |-> Runnable(m), chosen |-> Choice(m, s, t)])]

\* Seeded bug of Decide: the caller is recorded, not whom it switches to
DecideCaller(m, s, t) ==
    [m EXCEPT
        !.current = Choice(m, s, t),
        !.used = IF @ < Len(s) THEN @ + 1 ELSE @,
        !.exhausted = @ \/ m.used >= Len(s),
        !.notRunnable = @ \/ (m.used < Len(s) /\ s[m.used + 1] \notin Runnable(m)),
        !.decisions = Append(@, [runnable |-> Runnable(m), chosen |-> t])]

\* choose_scheduled_target_locked and record_schedule_decision_locked
Decide(m, s, t) ==
    [m EXCEPT
        !.current = Choice(m, s, t),
        !.used = IF @ < Len(s) THEN @ + 1 ELSE @,
        !.exhausted = @ \/ m.used >= Len(s),
        !.notRunnable = @ \/ (m.used < Len(s) /\ s[m.used + 1] \notin Runnable(m)),
        !.decisions = Append(@, [runnable |-> Runnable(m), chosen |-> Choice(m, s, t)])]

\* The verdict on a run of scenario c that has ended: every increment counts,
\* those of the post part included
Verdict(c, m) ==
    LET made == m.cell + Increments(c.post)
        due == Increments(c.init \o FlattenSeq(c.parallel) \o c.post)
    IN  IF made = due THEN "passed" ELSE "wrong"

\* Thread t gives the token away, blocked or finished: no decision of a schedule
HandOff(c, m, t) ==
    IF Runnable(m) # {}
    THEN [m EXCEPT !.current = NextActive(Runnable(m), Cardinality(DOMAIN m.at), t)]
    ELSE [m EXCEPT !.outcome = IF m.done = DOMAIN m.at THEN Verdict(c, m) ELSE "deadlock"]

\* The next instruction of c, whose program is p, in the thread with the token
Advance(c, p, s, m) ==
    LET t == m.current
        next == [m EXCEPT !.at[t] = @ + 1]
    IN
    IF m.outcome # "running" THEN m
    ELSE IF m.at[t] = Len(p[t]) THEN HandOff(c, [m EXCEPT !.done = @ \cup {t}], t)
    ELSE CASE p[t][m.at[t] + 1] = "switch" ->
                IF m.switches >= Budget THEN [m EXCEPT !.outcome = "livelock"]
                ELSE Decide([next EXCEPT !.switches = @ + 1], s, t)
           [] p[t][m.at[t] + 1] = "acquire" ->
                IF m.owner \in {t, NoThread} THEN [next EXCEPT !.owner = t, !.level = @ + 1]
                ELSE HandOff(c, [next EXCEPT !.waiters = Append(@, t)], t)
           [] p[t][m.at[t] + 1] = "release" ->
                IF m.level > 1 THEN [next EXCEPT !.level = @ - 1]
                ELSE IF m.waiters = <<>> THEN [next EXCEPT !.owner = NoThread, !.level = 0]
                ELSE [next EXCEPT !.owner = Head(m.waiters), !.waiters = Tail(@)]
           [] p[t][m.at[t] + 1] = "read" -> [next EXCEPT !.copy[t] = m.cell]
           [] p[t][m.at[t] + 1] = "write" -> [next EXCEPT !.cell = m.copy[t] + 1]

\* The init part has run, all workers are ready; choose_initial_thread_locked
Start(c, s) ==
    LET T == ThreadsOf(c) IN
    Decide([at |-> [t \in T |-> 0], done |-> {}, owner |-> NoThread, level |-> 0, waiters |-> <<>>,
            cell |-> Increments(c.init), copy |-> [t \in T |-> 0], current |-> 0, used |-> 0,
            switches |-> 0, decisions |-> <<>>, exhausted |-> FALSE, notRunnable |-> FALSE,
            outcome |-> "running"],
           s, 0)

\* Every thread does its instructions and finishes
Steps(c) == Len(FlattenSeq(FlattenSeq(c.parallel))) + Len(c.parallel)

\* The run of scenario c under schedule s
Run(c, s) ==
    LET p == Program(c)
        steps == Steps(c)
        advance[m \in Machine(DOMAIN p)] == Advance(c, p, s, m)
        machine[i \in 0 .. steps] == IF i = 0 THEN Start(c, s) ELSE advance[machine[i - 1]]
    IN  machine[steps]

\* reported_schedule
Reported(r) == [i \in DOMAIN r.decisions |-> r.decisions[i].chosen]

\* replay_schedule_error, for the run r of schedule s
ReplayError(r, s) ==
    CASE r.exhausted -> "ended early"
      [] r.notRunnable /\ ~r.exhausted -> "not runnable"
      [] r.used < Len(s) /\ ~r.exhausted /\ ~r.notRunnable -> "unused choices"
      [] OTHER -> "none"
=============================================================================
