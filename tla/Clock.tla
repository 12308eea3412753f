------------------------------- MODULE Clock -------------------------------
(* The time of day and the monotonic clock of the process, in seconds.     *)
EXTENDS Integers

VARIABLE now
=============================================================================
