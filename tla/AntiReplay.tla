----------------------------- MODULE AntiReplay -----------------------------
(***************************************************************************)
(* What a receiver of counted envelopes promises: a counter is taken at    *)
(* most once, and every counter that is new and less than WINDOW_BITS      *)
(* behind the newest one is taken.  No window, no bitmap: only the set of  *)
(* counters taken so far.  ReplayWindow implements this specification.     *)
(***************************************************************************)
EXTENDS Integers

CONSTANTS WINDOW_BITS,   \* how far behind the newest counter is still taken
          Counters       \* the counters that can arrive

VARIABLES accepted,      \* the counters taken so far
          verdict        \* the answer to the last arrival

vars == <<accepted, verdict>>

Recent(c) == \A d \in accepted : d - c < WINDOW_BITS

Init == /\ accepted = {}
        /\ verdict = <<0, "none">>

Take(c) == /\ c >= 0
           /\ c \notin accepted
           /\ Recent(c)
           /\ accepted' = accepted \cup {c}
           /\ verdict' = <<c, "taken">>

Refuse(c) == /\ c < 0 \/ c \in accepted \/ ~Recent(c)
             /\ verdict' = <<c, "refused">>
             /\ UNCHANGED accepted

Next == \E c \in Counters : Take(c) \/ Refuse(c)

Spec == Init /\ [][Next]_vars
=============================================================================
