------------------------------- MODULE MCEvents -------------------------------
(* A TLC instance of Events.                                               *)
EXTENDS Events
===============================================================================
