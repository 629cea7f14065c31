------------------------- MODULE ReplayWindowProofs -------------------------
(***************************************************************************)
(* The window implements AntiReplay for every WINDOW_BITS and every set of *)
(* counters.  WindowMirrorsAccepted is inductive given TypeOK: it says the *)
(* bitmap is the accepted set seen through the window, which is what makes *)
(* the window's answer that of a receiver with perfect memory.             *)
(***************************************************************************)
EXTENDS ReplayWindow, TLAPS

(* A counter that passes leaves a well-formed window: no bit outside the    *)
(* WINDOW_BITS bits is ever set (the mask of replay.py:30).                 *)
LEMMA AdvanceType ==
    ASSUME NEW w \in ReplayWindows, NEW c \in Int, ~Rejects(w, c)
    PROVE  Advance(w, c) \in ReplayWindows
<1>1. c \in Nat
  BY DEF Rejects
<1>2. 0 \in Offsets
  BY WindowAssumption DEF Offsets
<1>3. CASE Ahead(w, c)
  <2>1. Shift(w.bitmap, c - w.high) \subseteq Offsets
    BY <1>2 DEF Shift
  <2>2. QED
    BY <1>1, <1>3, <2>1 DEF Advance, ReplayWindows
<1>4. CASE ~Ahead(w, c)
  <2>1. w.high - c \in Offsets
    BY <1>4, WindowAssumption DEF Rejects, Ahead, TooOld, Offsets, ReplayWindows
  <2>2. w.bitmap \cup {w.high - c} \subseteq Offsets
    BY <2>1 DEF ReplayWindows
  <2>3. QED
    BY <1>4, <2>2 DEF Advance, ReplayWindows
<1>5. QED
  BY <1>3, <1>4

(* What Advance does to the membership of a single offset. *)
LEMMA AdvanceMarks ==
    ASSUME NEW w \in ReplayWindows, NEW c \in Int, ~Rejects(w, c)
    PROVE  /\ Advance(w, c).high = IF Ahead(w, c) THEN c ELSE w.high
           /\ Marked(Advance(w, c), c)
           /\ \A d \in Int : ~TooOld(Advance(w, c), d) /\ Marked(w, d) =>
                                Marked(Advance(w, c), d)
           /\ \A d \in Int : Marked(Advance(w, c), d) => d = c \/ Marked(w, d)
<1>1. CASE Ahead(w, c)
  <2> DEFINE v == Advance(w, c)
  <2>1. v.high = c /\ v.bitmap = Shift(w.bitmap, c - w.high)
    BY <1>1 DEF Advance
  <2>2. w.high \in Nat /\ w.bitmap \subseteq Offsets
    BY DEF ReplayWindows
  <2>3. Marked(v, c)
    BY <2>1 DEF Marked, Shift
  <2>4. ASSUME NEW d \in Int, ~TooOld(v, d), Marked(w, d)
        PROVE  Marked(v, d)
    <3>1. w.high - d \in Offsets
      BY <2>2, <2>4 DEF Marked
    <3>2. c - d \in Offsets
      BY <1>1, <2>1, <2>2, <2>4, <3>1, WindowAssumption DEF TooOld, Offsets, Ahead
    <3>3. ~(c - w.high >= WINDOW_BITS)
      BY <2>2, <3>1, <3>2, WindowAssumption DEF Offsets
    <3>4. (c - d) - (c - w.high) = w.high - d
      BY <2>2
    <3>5. c - d \in Shift(w.bitmap, c - w.high)
      BY <2>4, <3>2, <3>3, <3>4 DEF Shift, Marked
    <3>6. QED
      BY <2>1, <3>5 DEF Marked
  <2>5. ASSUME NEW d \in Int, Marked(v, d)
        PROVE  d = c \/ Marked(w, d)
    <3>1. c - d \in Shift(w.bitmap, c - w.high)
      BY <2>1, <2>5 DEF Marked
    <3>2. (c - d) - (c - w.high) = w.high - d
      BY <2>2
    <3>3. c - d = 0 \/ w.high - d \in w.bitmap
      BY <3>1, <3>2 DEF Shift
    <3>4. QED
      BY <3>3 DEF Marked
  <2>6. QED
    BY <1>1, <2>1, <2>3, <2>4, <2>5
<1>2. CASE ~Ahead(w, c)
  <2>1. Advance(w, c) = [w EXCEPT !.bitmap = @ \cup {w.high - c}]
    BY <1>2 DEF Advance
  <2>2. Advance(w, c).high = w.high /\ Advance(w, c).bitmap = w.bitmap \cup {w.high - c}
    BY <2>1 DEF ReplayWindows
  <2>3. w.high \in Nat
    BY DEF ReplayWindows
  <2>4. \A d \in Int : w.high - d = w.high - c => d = c
    BY <2>3
  <2>5. QED
    BY <1>2, <2>2, <2>4 DEF Marked
<1>3. QED
  BY <1>1, <1>2

(* A counter that has passed never passes again, and a counter that is      *)
(* rejected stays rejected whatever passes in between.                      *)
LEMMA RejectedForGood ==
    ASSUME NEW w \in ReplayWindows, NEW c \in Int, ~Rejects(w, c)
    PROVE  /\ Rejects(Advance(w, c), c)
           /\ \A d \in Int : Rejects(w, d) => Rejects(Advance(w, c), d)
<1> DEFINE v == Advance(w, c)
<1>1. w.high \in Nat /\ v.high \in Nat /\ v.high >= w.high /\ v.high >= c
  BY AdvanceType, AdvanceMarks DEF ReplayWindows, Ahead
<1>2. Rejects(v, c)
  BY <1>1, AdvanceMarks DEF Rejects, Ahead
<1>3. ASSUME NEW d \in Int, Rejects(w, d)
      PROVE  Rejects(v, d)
  <2>1. CASE d < 0
    BY <2>1 DEF Rejects
  <2>2. CASE ~Ahead(w, d) /\ TooOld(w, d)
    BY <1>1, <2>2, WindowAssumption DEF Rejects, Ahead, TooOld
  <2>3. CASE ~Ahead(w, d) /\ Marked(w, d)
    <3>1. ~Ahead(v, d)
      BY <1>1, <2>3 DEF Ahead
    <3>2. TooOld(v, d) \/ Marked(v, d)
      BY <2>3, AdvanceMarks
    <3>3. QED
      BY <3>1, <3>2 DEF Rejects
  <2>4. QED
    BY <1>3, <2>1, <2>2, <2>3 DEF Rejects
<1>4. QED
  BY <1>2, <1>3

Inv == TypeOK /\ WindowMirrorsAccepted

(* The fresh window mirrors the empty history.                              *)
LEMMA InvInit == Init => Inv
BY WindowAssumption
   DEF Init, Inv, TypeOK, WindowMirrorsAccepted, FreshWindow, ReplayWindows, Offsets

(* What the mirror says of a counter and of the window's verdict on it. *)
LEMMA VerdictFromMemory ==
    ASSUME Inv, NEW c \in Int
    PROVE  Rejects(window, c) <=> (c < 0 \/ c \in accepted \/ ~Promise!Recent(c))
<1>1. window.high \in Nat /\ window.bitmap \subseteq Offsets /\ accepted \subseteq Nat
  BY DEF Inv, TypeOK, ReplayWindows
<1>2. ASSUME c >= 0
      PROVE  ~Promise!Recent(c) <=> (~Ahead(window, c) /\ TooOld(window, c))
  <2>1. ASSUME ~Promise!Recent(c) PROVE ~Ahead(window, c) /\ TooOld(window, c)
    <3>1. PICK d \in accepted : ~(d - c < WINDOW_BITS)
      BY <2>1 DEF Promise!Recent
    <3>2. d <= window.high /\ d \in Nat
      BY <1>1, <3>1 DEF Inv, WindowMirrorsAccepted
    <3>3. QED
      BY <1>1, <3>1, <3>2, WindowAssumption DEF Ahead, TooOld
  <2>2. ASSUME ~Ahead(window, c), TooOld(window, c) PROVE ~Promise!Recent(c)
    <3>1. window.high # 0
      BY <1>1, <1>2, <2>2, WindowAssumption DEF Ahead, TooOld
    <3>2. window.high \in accepted
      BY <3>1 DEF Inv, WindowMirrorsAccepted
    <3>3. ~(window.high - c < WINDOW_BITS)
      BY <1>1, <2>2, WindowAssumption DEF TooOld
    <3>4. QED
      BY <3>2, <3>3 DEF Promise!Recent
  <2>3. QED
    BY <2>1, <2>2
<1>3. ASSUME ~Ahead(window, c), ~TooOld(window, c)
      PROVE  Marked(window, c) <=> c \in accepted
  <2>1. window.high - c \in Offsets
    BY <1>1, <1>3, WindowAssumption DEF Ahead, TooOld, Offsets
  <2>2. window.high - (window.high - c) = c
    BY <1>1
  <2>3. QED
    BY <2>1, <2>2 DEF Marked, Inv, WindowMirrorsAccepted
<1>4. Ahead(window, c) => c \notin accepted
  BY <1>1 DEF Ahead, Inv, WindowMirrorsAccepted
<1>5. QED
  BY <1>2, <1>3, <1>4 DEF Rejects

(* A counter that passes: the shifted or marked bitmap is still the image   *)
(* of the accepted set.                                                     *)
LEMMA PassKeepsMirror ==
    ASSUME Inv, NEW c \in Int, ~Rejects(window, c), Pass(c)
    PROVE  Inv'
<1>1. window' = Advance(window, c) /\ accepted' = accepted \cup {c}
  BY DEF Pass
<1>2. window \in ReplayWindows /\ c \in Nat /\ accepted \subseteq Nat
  BY DEF Inv, TypeOK, Rejects
<1>3. window' \in ReplayWindows
  BY <1>1, <1>2, AdvanceType
<1>4. TypeOK'
  BY <1>1, <1>2, <1>3 DEF TypeOK, Pass
<1>5. window'.high = IF Ahead(window, c) THEN c ELSE window.high
  BY <1>1, <1>2, AdvanceMarks
<1>6. window.high \in Nat /\ window'.high \in Nat
  BY <1>2, <1>3 DEF ReplayWindows
<1>7a. window.high <= window'.high /\ c <= window'.high
  BY <1>2, <1>5, <1>6 DEF Ahead
<1>7b. \A d \in accepted : d \in Nat /\ d <= window.high
  BY <1>2 DEF Inv, WindowMirrorsAccepted
<1>7. \A d \in accepted' : d <= window'.high
  BY <1>1, <1>6, <1>7a, <1>7b
<1>8. window'.high = 0 \/ window'.high \in accepted'
  BY <1>1, <1>5 DEF Inv, WindowMirrorsAccepted
<1>9. window'.bitmap = {i \in Offsets : window'.high - i \in accepted'}
  <2>1. window'.bitmap \subseteq Offsets
    BY <1>3 DEF ReplayWindows
  <2>2. ASSUME NEW i \in Offsets
        PROVE  i \in window'.bitmap <=> window'.high - i \in accepted'
    <3> DEFINE d == window'.high - i
    <3>1. d \in Int /\ window'.high - d = i /\ i \in Nat /\ i < WINDOW_BITS
      BY <1>6, WindowAssumption DEF Offsets
    <3>2. i \in window'.bitmap <=> Marked(window', d)
      BY <3>1 DEF Marked
    <3>3. ~TooOld(window', d)
      BY <3>1, WindowAssumption DEF TooOld
    <3>4. Marked(window', c)
      BY <1>1, <1>2, AdvanceMarks
    <3>5. Marked(window, d) => Marked(window', d)
      BY <1>1, <1>2, <3>1, <3>3, AdvanceMarks
    <3>6. Marked(window', d) => d = c \/ Marked(window, d)
      BY <1>1, <1>2, <3>1, AdvanceMarks
    <3>7. Marked(window, d) => d \in accepted
      <4>1. window.high - (window.high - d) = d
        BY <1>6, <3>1
      <4>2. QED
        BY <4>1 DEF Marked, Inv, WindowMirrorsAccepted
    <3>8. d \in accepted => Marked(window, d)
      <4>1. HAVE d \in accepted
      <4>2. d <= window.high /\ window.high <= window'.high
        BY <1>7a, <1>7b, <4>1
      <4>3. window.high - d \in Offsets
        BY <1>6, <3>1, <4>2, WindowAssumption DEF Offsets
      <4>4. window.high - (window.high - d) = d
        BY <1>6, <3>1
      <4>5. QED
        BY <4>1, <4>3, <4>4 DEF Marked, Inv, WindowMirrorsAccepted
    <3>9. QED
      BY <1>1, <3>2, <3>4, <3>5, <3>6, <3>7, <3>8
  <2>3. QED
    BY <2>1, <2>2
<1>10. QED
  BY <1>4, <1>7, <1>8, <1>9 DEF Inv, WindowMirrorsAccepted

(* check_and_advance keeps the window a mirror of what it accepted.         *)
LEMMA InvStep == Inv /\ [Next]_vars => Inv'
<1> SUFFICES ASSUME Inv, [Next]_vars PROVE Inv'
  OBVIOUS
<1>1. ASSUME NEW c \in Counters, Pass(c) PROVE Inv'
  BY <1>1, PassKeepsMirror, CountersAssumption DEF Pass
<1>2. ASSUME NEW c \in Counters, Raise(c) PROVE Inv'
  BY <1>2, CountersAssumption DEF Raise, Inv, TypeOK, WindowMirrorsAccepted
<1>3. CASE UNCHANGED vars
  BY <1>3 DEF vars, Inv, TypeOK, WindowMirrorsAccepted
<1>4. QED
  BY <1>1, <1>2, <1>3 DEF Next

(* In every reachable state, for every window size, the bitmap is exactly   *)
(* the accepted counters the window covers (check_and_advance).             *)
THEOREM MirrorCorrect == Spec => [](TypeOK /\ WindowMirrorsAccepted)
<1>1. Inv => TypeOK /\ WindowMirrorsAccepted
  BY DEF Inv
<1>2. QED
  BY <1>1, InvInit, InvStep, PTL DEF Spec

(* The head of the window is a number and its bitmap has WINDOW_BITS bits,  *)
(* whatever counters come (check_and_advance).                              *)
THEOREM WindowTypes == Spec => []TypeOK
<1>1. Inv => TypeOK
  BY DEF Inv
<1>2. QED
  BY <1>1, InvInit, InvStep, PTL DEF Spec

(* check_and_advance, which remembers WINDOW_BITS bits, answers every       *)
(* sequence of counters as the receiver of AntiReplay, which remembers all  *)
(* of them: each counter is taken at most once and no recent new one is     *)
(* refused.                                                                 *)
THEOREM WindowImplementsPromise == Spec => ImplementsAntiReplay
<1>1. Init => Promise!Init
  BY DEF Init, Promise!Init
<1>2. Inv /\ [Next]_vars => [Promise!Next]_(Promise!vars)
  <2> SUFFICES ASSUME Inv, [Next]_vars PROVE [Promise!Next]_(Promise!vars)
    OBVIOUS
  <2>1. ASSUME NEW c \in Counters, Pass(c) PROVE Promise!Take(c)
    <3>1. c \in Int
      BY CountersAssumption
    <3>2. ~(c < 0 \/ c \in accepted \/ ~Promise!Recent(c))
      BY <2>1, <3>1, VerdictFromMemory DEF Pass
    <3>3. QED
      BY <2>1, <3>1, <3>2 DEF Pass, Promise!Take
  <2>2. ASSUME NEW c \in Counters, Raise(c) PROVE Promise!Refuse(c)
    <3>1. c \in Int
      BY CountersAssumption
    <3>2. c < 0 \/ c \in accepted \/ ~Promise!Recent(c)
      BY <2>2, <3>1, VerdictFromMemory DEF Raise
    <3>3. QED
      BY <2>2, <3>2 DEF Raise, Promise!Refuse
  <2>3. CASE UNCHANGED vars
    BY <2>3 DEF vars, Promise!vars
  <2>4. QED
    BY <2>1, <2>2, <2>3 DEF Next, Promise!Next
<1>3. QED
  BY <1>1, <1>2, InvInit, InvStep, PTL DEF Spec, ImplementsAntiReplay, Promise!Spec
=============================================================================
