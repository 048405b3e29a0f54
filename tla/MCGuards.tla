------------------------------ MODULE MCGuards ------------------------------
(* Instances of GuardUnwinding for TLC.                                    *)
EXTENDS GuardUnwinding

CONSTANTS l1, l2

NoConditions == [c \in Conditions |-> l1]
=============================================================================
