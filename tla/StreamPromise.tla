---------------------------- MODULE StreamPromise ----------------------------
(* What a streamed answer promises the user of the client library: the      *)
(* chunks the model generates are shown in order, each once; the iteration  *)
(* ends normally only after the last one, and with an error when the model  *)
(* failed, after the chunks it had made.  A worker that is cancelled by the *)
(* unload of its model is the exception: its answer may end anywhere.       *)
EXTENDS Naturals, Sequences

VARIABLES made,    \* number of chunks the generator has yielded
          over,    \* how the generation ended: stop, raise, gone, cut; no: it has not
          shown,   \* chunks the user's loop has received
          client   \* the user's iteration: reading, done, error, left

vars == <<made, over, shown, client>>

Init == made = 0 /\ over = "no" /\ shown = <<>> /\ client = "reading"

(* Only a user who has left makes the generation stop early. *)
Early == IF client = "left" THEN {"gone"} ELSE {}

Produce == /\ over = "no"
           /\ made' = made + 1
           /\ over' \in {"no"} \cup Early
           /\ UNCHANGED <<shown, client>>

End == /\ over = "no"
       /\ over' \in {"stop", "raise", "cut"} \cup Early
       /\ UNCHANGED <<made, shown, client>>

Show == /\ client = "reading"
        /\ Len(shown) < made
        /\ shown' = Append(shown, Len(shown) + 1)
        /\ UNCHANGED <<made, over, client>>

Done == /\ client = "reading"
        /\ over = "cut" \/ (over = "stop" /\ Len(shown) = made)
        /\ client' = "done"
        /\ UNCHANGED <<made, over, shown>>

Fail == /\ client = "reading"
        /\ over = "raise" /\ Len(shown) = made
        /\ client' = "error"
        /\ UNCHANGED <<made, over, shown>>

Leave == /\ client = "reading"
         /\ client' = "left"
         /\ UNCHANGED <<made, over, shown>>

Next == Produce \/ End \/ Show \/ Done \/ Fail \/ Leave

Spec == Init /\ [][Next]_vars
=============================================================================
