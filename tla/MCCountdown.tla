---------------------------- MODULE MCCountdown ----------------------------
(* Two clients and two warnings, intervals of two seconds of three ticks.   *)
EXTENDS Countdown

=============================================================================
