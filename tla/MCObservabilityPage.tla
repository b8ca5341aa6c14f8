------------------------ MODULE MCObservabilityPage ------------------------
(***************************************************************************)
(* A small instance of ObservabilityPage.                                  *)
(***************************************************************************)
EXTENDS ObservabilityPage

\* Seven good executions and one bad one make the bars round up to 101.
MCExecutions == {[ip |-> "a", failed |-> FALSE, n |-> 7], [ip |-> "", failed |-> TRUE, n |-> 1]}

\* Rows come and go under one request; ranges and inputs change under two.
MCObsEventSets == {{"rows", "ranges"}, {"logins"},
                   {"overlap", "ranges", "custom"}, {"overlap", "ranges", "failures"}}
=============================================================================
