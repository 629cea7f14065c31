------------------------------- MODULE Replay -------------------------------
(***************************************************************************)
(* The sliding window of crypto/replay.py as a value.  The bitmap integer  *)
(* is the set of its one bits: bit i stands for counter high - i.          *)
(***************************************************************************)
EXTENDS Integers

CONSTANT WINDOW_BITS

ASSUME WindowAssumption == WINDOW_BITS \in Nat \ {0}

Offsets == 0 .. WINDOW_BITS - 1

ReplayWindows == [high : Nat, bitmap : SUBSET Offsets]

(* ReplayWindow(): both dataclass defaults. *)
FreshWindow == [high |-> 0, bitmap |-> {}]

Ahead(w, c) == c > w.high

(* Mutant: one counter beyond the window passes for recent. *)
TooOldByOne(w, c) == w.high - c > WINDOW_BITS

(* "counter outside window" *)
TooOld(w, c) == w.high - c >= WINDOW_BITS

(* "duplicate counter" *)
Marked(w, c) == (w.high - c) \in w.bitmap

(* check_and_advance raises ReplayDetected *)
Rejects(w, c) == c < 0 \/ (~Ahead(w, c) /\ (TooOld(w, c) \/ Marked(w, c)))

(* Mutant: the shifted bitmap is not cut to WINDOW_BITS bits. *)
ShiftUncut(bitmap, shift) == {0} \cup {i + shift : i \in bitmap}

(* Mutant: the bit of the previous high is lost in the shift. *)
ShiftDropsLow(bitmap, shift) ==
    IF shift >= WINDOW_BITS
    THEN {0}
    ELSE {0} \cup {i \in Offsets : i - shift \in bitmap \ {0}}

(* bitmap << shift | 1, cut to WINDOW_BITS bits *)
Shift(bitmap, shift) ==
    IF shift >= WINDOW_BITS
    THEN {0}
    ELSE {0} \cup {i \in Offsets : i - shift \in bitmap}

(* the window check_and_advance leaves when it does not raise *)
Advance(w, c) ==
    IF Ahead(w, c)
    THEN [high |-> c, bitmap |-> Shift(w.bitmap, c - w.high)]
    ELSE [w EXCEPT !.bitmap = @ \cup {w.high - c}]
=============================================================================
