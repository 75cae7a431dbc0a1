----------------------------- MODULE MCWatchdog -----------------------------
(***************************************************************************)
(* TLC instance of Watchdog: two rules on /health, one with a duration and *)
(* one without, a metric rule with a duration that may raise, and the rule *)
(* on restarts that is evaluated after it.  Durations and repetitions are  *)
(* shortened from minutes and hours to 1 to 3 ticks, so that within the    *)
(* bound on time an alert can start, fire, repeat and clear.               *)
(***************************************************************************)
EXTENDS Watchdog

MCFor == [r \in Rules |->
    CASE r = "server_unreachable" -> 2
      [] r = "timeout_rate" -> 3
      [] OTHER -> 0]

MCRepeatTicks == [p \in {"P1", "P2", "P3"} |-> IF p = "P1" THEN 2 ELSE 3]
=============================================================================
