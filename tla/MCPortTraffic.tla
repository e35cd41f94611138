---------------------------- MODULE MCPortTraffic ---------------------------
(* TLC instance of PortTraffic: two sockets of two sessions, queues of two     *)
(* entries, and a loop that gives up after two failures in a row.              *)
EXTENDS PortTraffic
=============================================================================
