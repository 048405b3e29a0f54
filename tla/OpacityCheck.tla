---------------------------- MODULE OpacityCheck ----------------------------
(***************************************************************************)
(* apply_stm_opacity_check: the events that the transactions of a run      *)
(* recorded become a history, and verify_stm_opacity judges it.            *)
(***************************************************************************)
EXTENDS Transactions, Opacity

VARIABLE verdict    \* [status, order, history] once judged, None before

checkVars == <<vars, verdict>>

Judgement(recorded, policy, limit) ==
    LET history == Builder!BuildHistory(recorded, policy)
        judged == VerifyStmOpacity(history, limit)
    IN  IF history.status # "ok" THEN [status |-> history.status, order |-> <<>>, history |-> history]
        ELSE [status |-> judged.status, order |-> judged.order, history |-> history]

Idle(t) == pc[t] > Len(scenario.scripts[t])

\* The run is over: every thread has come to the end of its script
Judge ==
    /\ verdict = None
    /\ \A t \in Threads : Idle(t) /\ attempt[t].state # "aborted"
    /\ verdict' = Judgement(events, scenario.policy, scenario.limit)
    /\ UNCHANGED vars

CheckInit == Init /\ verdict = None

CheckNext == (Next /\ UNCHANGED verdict) \/ Judge

CheckSpec == CheckInit /\ [][CheckNext]_checkVars

-----------------------------------------------------------------------------

Judged == verdict # None

\* The verdict on the records is the verdict on what happened: "ok" only if all
\* transactions, in some order, saw consistent states; "violation" only if there
\* is none; the search gives up only at a configured limit (verify_stm_opacity).
VerdictSound ==
    Judged /\ Unambiguous(verdict.history) =>
        CASE verdict.status = "ok" -> Opaque(truth)
          [] verdict.status = "violation" -> ~ Opaque(truth)
          [] verdict.status = "search_limit_exceeded" -> scenario.limit # 0

\* committed_order is a serial order that explains every transaction, not only
\* the committed ones (search_stm_opacity_committed_order).
OrderIsWitness ==
    Judged /\ verdict.status = "ok" => Witness(verdict.history, verdict.order)

\* An STM that validates its reads is never blamed, in any interleaving and with
\* retries and field reuse.  Excepted are raw addresses that are reused, which the
\* builder refuses or merges, and fields never named (README.md:374, 400, 404).
CorrectBackendAccepted ==
    Judged /\ scenario.backend = "validating" /\ scenario.recorded # <<>> /\ misuse = {} =>
        \/ verdict.status = "ok"
        \/ verdict.status = "search_limit_exceeded" /\ scenario.limit # 0
        \/ scenario.identity = "raw" /\ \E i \in DOMAIN events : events[i].kind = "tx_location_destroy"
=============================================================================
