---------------------------- MODULE ReplayWindow ----------------------------
(***************************************************************************)
(* One ReplayWindow object fed with arbitrary counters.  `accepted' and    *)
(* `verdict' are history: what the caller of check_and_advance saw.        *)
(***************************************************************************)
EXTENDS Replay

CONSTANT Counters        \* the counters that can arrive, negative ones included

ASSUME CountersAssumption == Counters \subseteq Int

VARIABLES window, accepted, verdict

vars == <<window, accepted, verdict>>

Init == /\ window = FreshWindow
        /\ accepted = {}
        /\ verdict = <<0, "none">>

(* check_and_advance returns *)
Pass(c) == /\ ~Rejects(window, c)
           /\ window' = Advance(window, c)
           /\ accepted' = accepted \cup {c}
           /\ verdict' = <<c, "taken">>

(* check_and_advance raises; the window is left as it is *)
Raise(c) == /\ Rejects(window, c)
            /\ verdict' = <<c, "refused">>
            /\ UNCHANGED <<window, accepted>>

Next == \E c \in Counters : Pass(c) \/ Raise(c)

Spec == Init /\ [][Next]_vars

-----------------------------------------------------------------------------
TypeOK == /\ window \in ReplayWindows
          /\ accepted \subseteq Nat
          /\ verdict \in Int \X {"none", "taken", "refused"}

(* The window remembers exactly the accepted counters it still covers: no   *)
(* shift of the bitmap may lose one, keep a dropped one or invent one       *)
(* (check_and_advance, replay.py:23-40).                                    *)
WindowMirrorsAccepted ==
    /\ \A c \in accepted : c <= window.high
    /\ window.high = 0 \/ window.high \in accepted
    /\ window.bitmap = {i \in Offsets : window.high - i \in accepted}

(* The window implements the receiver's promise: it answers every arrival   *)
(* as one that remembered every counter ever accepted would, although it    *)
(* keeps WINDOW_BITS bits (replay.py:16-18).                                *)
Promise == INSTANCE AntiReplay WITH accepted <- accepted, verdict <- verdict
ImplementsAntiReplay == Promise!Spec

=============================================================================
