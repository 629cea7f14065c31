------------------------ MODULE MCFederatedSessions -------------------------
(***************************************************************************)
(* Two instances, two concurrent handlers, two Session objects in use at a *)
(* time: the original and a hydrated one, on the other instance or on the  *)
(* same one after a crash or an expiry, and again when one of them is free.*)
(* The window covers two of the counters.  The record of a late SET        *)
(* outlives the session by the floor.                                      *)
(***************************************************************************)
EXTENDS FederatedSessions, TLC

Symmetric == Permutations(Instances) \cup Permutations(Handlers) \cup Permutations(Objs)
=============================================================================
