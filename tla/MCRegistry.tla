----------------------------- MODULE MCRegistry -----------------------------
(***************************************************************************)
(* Two models, one adapter, two threads.  Each directory has room for one  *)
(* file by the quota check; two contents let one id have two versions and  *)
(* two ids one content.                                                    *)
(***************************************************************************)
EXTENDS Registry, TLC

MCSizeOf == [s \in Shas |-> 1]

Symmetric == Permutations(Models) \cup Permutations(ModelShas) \cup Permutations(Threads)
=============================================================================
