------------------------- MODULE ScenarioGenerator -------------------------
(***************************************************************************)
(* RandomExecutionGenerator: which operation may be drawn next, what the   *)
(* draw leaves behind for the next one, and the check that every scenario  *)
(* passes before it is judged, validate_scenario_against_spec.             *)
(*                                                                         *)
(* A specification's operations are a sequence of records [name, oneShot,  *)
(* nonParallel, group, exceptionResults]; an actor is the index of its     *)
(* operation.  Arguments are left out: they do not constrain a scenario.   *)
(* A section is a parallel thread 1, 2, ... or Unthreaded (init and post). *)
(***************************************************************************)
EXTENDS Integers, Sequences, FiniteSets

CONSTANT NoGroup

Unthreaded == 0

NonParallelKey(operation) ==
    IF operation.group # NoGroup THEN operation.group ELSE operation.name

\* GenerationState: the one-shot operations drawn, the thread of each non-parallel key
FreshGeneration == [oneShots |-> {}, owner |-> <<>>]

EligibleByName(operations, i, state, thread) ==
    LET operation == operations[i]
    IN  /\ operation.oneShot => i \notin state.oneShots
        /\ (thread # Unthreaded /\ operation.nonParallel /\ operation.name \in DOMAIN state.owner)
               => state.owner[operation.name] = thread

Eligible(operations, i, state, thread) ==
    LET operation == operations[i]
        key == NonParallelKey(operation)
    IN  /\ operation.oneShot => i \notin state.oneShots
        /\ (thread # Unthreaded /\ operation.nonParallel /\ key \in DOMAIN state.owner)
               => state.owner[key] = thread

\* emplace keeps the thread that is already there
MarkGenerated(operations, i, state, thread) ==
    LET operation == operations[i]
        owned == DOMAIN state.owner
    IN  [oneShots |-> IF operation.oneShot THEN state.oneShots \cup {i} ELSE state.oneShots,
         owner |-> IF thread # Unthreaded /\ operation.nonParallel
                   THEN [key \in owned \cup {NonParallelKey(operation)} |->
                            IF key \in owned THEN state.owner[key] ELSE thread]
                   ELSE state.owner]

Candidates(operations, state, thread) ==
    {i \in DOMAIN operations : Eligible(operations, i, state, thread)}

-----------------------------------------------------------------------------
(* A scenario is [init, parallel, post], parallel a sequence of lists *)

\* ExecutionScenario::valid
HasParallelActor(scenario) == \E t \in DOMAIN scenario.parallel : scenario.parallel[t] # <<>>

InParallel(scenario) ==
    UNION {{t} \X DOMAIN scenario.parallel[t] : t \in DOMAIN scenario.parallel}

\* validate_constraints: no one-shot operation twice, each key in one parallel thread
ScenarioAccepted(operations, scenario) ==
    LET init == {<<0, i>> : i \in DOMAIN scenario.init}
        post == {<<-1, i>> : i \in DOMAIN scenario.post}
        parallel == InParallel(scenario)
        actor(place) == CASE place[1] = 0 -> scenario.init[place[2]]
                          [] place[1] = -1 -> scenario.post[place[2]]
                          [] OTHER -> scenario.parallel[place[1]][place[2]]
    IN  /\ operations # <<>>
        /\ \A p, q \in init \cup post \cup parallel :
              (p # q /\ operations[actor(p)].oneShot) => actor(p) # actor(q)
        /\ \A p, q \in parallel :
              (/\ operations[actor(p)].nonParallel
               /\ operations[actor(q)].nonParallel
               /\ NonParallelKey(operations[actor(p)]) = NonParallelKey(operations[actor(q)]))
                  => p[1] = q[1]
=============================================================================
