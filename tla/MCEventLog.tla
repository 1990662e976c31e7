----------------------------- MODULE MCEventLog -----------------------------
(* A small instance of EventLog for TLC: one client that wants every event. *)
EXTENDS EventLog

CONSTANTS c1, view, other

MCWanted == [c \in Clients |-> Events]
=============================================================================
