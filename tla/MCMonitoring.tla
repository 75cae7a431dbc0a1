---------------------------- MODULE MCMonitoring ----------------------------
(***************************************************************************)
(* TLC instance of Monitoring: the rules on dead engines, crash loops and  *)
(* request outcomes.  Windows, durations and repetitions are shortened to  *)
(* one or two minutes, so that within four minutes an engine can fail,     *)
(* the windows fill and empty, alerts fire, repeat and clear.  The deque   *)
(* is shorter than the requests of a window, so that maxlen drops some.    *)
(***************************************************************************)
EXTENDS Monitoring

MCFor == [r \in Rules |-> IF r \in MetricRules THEN 1 ELSE 0]
MCRepeatTicks == [p \in {"P1", "P2", "P3"} |-> 2]
=============================================================================
