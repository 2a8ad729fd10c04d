---------------------------- MODULE MCSignalLog ----------------------------
(* The signal log for TLC.                                                   *)
EXTENDS SignalLog, TLC

CONSTANTS dead, alive

\* The event no download prices is the older one: it is selected first.
DeadFirst == dead :> 1 @@ alive :> 2
=============================================================================
