------------------------ MODULE SessionServerProofs -------------------------
(***************************************************************************)
(* The safety of SessionServer for any number of clients, sessions and     *)
(* handlers, any window size, any time-outs and any bounds.                *)
(***************************************************************************)
EXTENDS SessionServer, TLAPS

(* The lemmas about check_and_advance are those of the window on its own,   *)
(* which say nothing of its variables.                                      *)
W == INSTANCE ReplayWindowProofs
         WITH Counters <- {}, window <- FreshWindow, accepted <- {}, verdict <- <<0, "none">>

(* Its operators are the ones this module has from Replay. *)
LEMMA SameWindow ==
    /\ W!ReplayWindows = ReplayWindows
    /\ \A w, c : /\ W!Rejects(w, c) = Rejects(w, c) /\ W!Advance(w, c) = Advance(w, c)
<1>1. W!Offsets = Offsets
  BY DEF W!Offsets, Offsets
<1>2. \A bitmap, shift : W!Shift(bitmap, shift) = Shift(bitmap, shift)
  BY <1>1 DEF W!Shift, Shift
<1>3. \A w, c : W!Ahead(w, c) = Ahead(w, c)
  BY DEF W!Ahead, Ahead
<1>4. QED
  BY <1>1, <1>2, <1>3, Zenon
     DEF W!ReplayWindows, W!Rejects, W!Advance, W!Marked, W!TooOld,
         ReplayWindows, Rejects, Advance, Marked, TooOld

(* A counter that passes leaves a well-formed window. *)
LEMMA AdvanceType ==
    ASSUME NEW w \in ReplayWindows, NEW c \in Int, ~Rejects(w, c)
    PROVE  Advance(w, c) \in ReplayWindows
BY W!AdvanceType, WindowAssumption, SameWindow

(* A rejected counter stays rejected, and one that passed is rejected.      *)
LEMMA RejectedForGood ==
    ASSUME NEW w \in ReplayWindows, NEW c \in Int, ~Rejects(w, c)
    PROVE  /\ Rejects(Advance(w, c), c)
           /\ \A d \in Int : Rejects(w, d) => Rejects(Advance(w, c), d)
BY W!RejectedForGood, WindowAssumption, SameWindow

(* A handled counter is one the window will reject from now on. *)
HandledIsRejected ==
    \A sid \in Sids : \A c \in Counters :
        handled[sid][c] = 0 \/ (handled[sid][c] = 1 /\ Rejects(sess[sid].window, c))

(* A counter that has sealed is not ahead of s2c_counter. *)
SealedIsPast ==
    \A sid \in Sids : \A k \in Keys : \A n \in 1 .. MaxSeals :
        sealed[sid][k][n] = 0 \/ (sealed[sid][k][n] = 1 /\ n <= sess[sid].s2c)

(* Ids not handed out are untouched; the table and the handlers only know   *)
(* sessions that exist, and these were created in the past.                 *)
Births ==
    /\ \A sid \in Sids : ~Made(sid) => sess[sid] = Unborn
    /\ \A sid \in table : Made(sid)
    /\ \A r \in Reqs : busy[r] # NoSid => Made(busy[r])
    /\ \A sid \in Sids : sess[sid].created <= now

(* A revoked client's sessions are older than its revocation. *)
RevokedIsOld ==
    \A sid \in Sids : Made(sid) /\ allow[sess[sid].owner] = "revoked" =>
        sess[sid].created <= revokedAt[sess[sid].owner]

IInv == /\ TypeOK /\ HandledIsRejected /\ SealedIsPast /\ ClosedIsGone
        /\ Births /\ RevokedIsOld

USE DEF Counters

(* A new session's window is a window.                                      *)
LEMMA FreshIsWindow == FreshWindow \in ReplayWindows
BY DEF FreshWindow, ReplayWindows, Offsets

(* The server without sessions satisfies the inductive invariant.           *)
LEMMA InitIInv == Init => IInv
<1> SUFFICES ASSUME Init PROVE IInv
  OBVIOUS
<1>1. Unborn \in Sessions
  BY FreshIsWindow DEF Unborn, Sessions, Keys
<1>2. TypeOK
  BY <1>1, ClientsAssumption DEF Init, TypeOK, Standing
<1>3. HandledIsRejected /\ SealedIsPast
  BY DEF Init, HandledIsRejected, SealedIsPast
<1>4. ClosedIsGone /\ Births /\ RevokedIsOld
  BY DEF Init, ClosedIsGone, Births, RevokedIsOld, Unborn, Made, Standing
<1>5. QED
  BY <1>2, <1>3, <1>4 DEF IInv

(* What the replay check and touch() make of a session. *)
LEMMA ConsumedFacts ==
    ASSUME TypeOK, NEW sid \in Sids, NEW c \in Counters, Passes(sid, c)
    PROVE  /\ Consumed(sid, c) \in Sessions /\ Admitted(sid, c) \in Sessions
           /\ \A s \in {Consumed(sid, c), Admitted(sid, c)} :
                 /\ s.owner = sess[sid].owner /\ s.created = sess[sid].created
                 /\ s.closed = sess[sid].closed /\ s.key = sess[sid].key
                 /\ s.s2c = sess[sid].s2c
                 /\ Rejects(s.window, c)
                 /\ \A d \in Counters : Rejects(sess[sid].window, d) => Rejects(s.window, d)
<1> DEFINE w == sess[sid].window
<1>1. sess[sid] \in Sessions /\ w \in ReplayWindows /\ now \in Nat /\ c \in Int
  BY DEF TypeOK, Sessions
<1>2. Advance(w, c) \in ReplayWindows
  BY <1>1, AdvanceType DEF Passes
<1>3. Rejects(Advance(w, c), c) /\ \A d \in Counters : Rejects(w, d) => Rejects(Advance(w, c), d)
  BY <1>1, RejectedForGood DEF Passes
<1>4. Consumed(sid, c) = [sess[sid] EXCEPT !.window = Advance(w, c)]
  BY DEF Consumed
<1>5. Admitted(sid, c) = [Consumed(sid, c) EXCEPT !.last = now]
  BY DEF Admitted
<1> DEFINE v == Advance(w, c)
<1> HIDE DEF v
<1>6. [sess[sid] EXCEPT !.window = v] \in Sessions
  BY <1>1, <1>2 DEF Sessions, v
<1>7. [[sess[sid] EXCEPT !.window = v] EXCEPT !.last = now] \in Sessions
  BY <1>1, <1>2 DEF Sessions, v
<1>8. ASSUME NEW s \in {[sess[sid] EXCEPT !.window = v],
                        [[sess[sid] EXCEPT !.window = v] EXCEPT !.last = now]}
      PROVE  /\ s.owner = sess[sid].owner /\ s.created = sess[sid].created
             /\ s.closed = sess[sid].closed /\ s.key = sess[sid].key
             /\ s.s2c = sess[sid].s2c /\ s.window = v
  BY <1>1 DEF Sessions
<1>9. QED
  BY <1>3, <1>4, <1>5, <1>6, <1>7, <1>8 DEF v

(* What sealing makes of a session. *)
LEMMA SealFacts ==
    ASSUME NEW s \in Sessions
    PROVE  /\ WithNextCounter(s) \in Sessions
           /\ WithNextCounter(s).owner = s.owner /\ WithNextCounter(s).created = s.created
           /\ WithNextCounter(s).closed = s.closed /\ WithNextCounter(s).window = s.window
           /\ WithNextCounter(s).last = s.last
           /\ WithNextCounter(s).s2c = s.s2c + 1
BY DEF WithNextCounter, Sessions

(* _zeroize overwrites the key and closes the session, nothing else.        *)
LEMMA ZeroizedFacts ==
    ASSUME NEW s \in Sessions
    PROVE  /\ Zeroized(s) \in Sessions
           /\ Zeroized(s).owner = s.owner /\ Zeroized(s).created = s.created
           /\ Zeroized(s).s2c = s.s2c /\ Zeroized(s).window = s.window
           /\ Zeroized(s).closed /\ Zeroized(s).last = s.last
BY DEF Zeroized, Sessions, Keys

(* Counting up one entry of a table of numbers *)
LEMMA CountUp ==
    ASSUME NEW S, NEW f \in [S -> Nat], NEW x \in S
    PROVE  [f EXCEPT ![x] = @ + 1] \in [S -> Nat]
<1>1. f[x] + 1 \in Nat
  OBVIOUS
<1>2. QED
  BY <1>1

(* Running an endpoint for a counter that passes, and rejecting it from     *)
(* then on, keeps HandledIsRejected.                                        *)
LEMMA RanKeepsHandled ==
    ASSUME IInv, NEW sid \in Sids, NEW c \in Counters, Passes(sid, c),
           handled' = Ran(sid, c),
           Rejects(sess'[sid].window, c),
           \A d \in Counters : Rejects(sess[sid].window, d) => Rejects(sess'[sid].window, d),
           \A o \in Sids \ {sid} : sess'[o].window = sess[o].window
    PROVE  HandledIsRejected' /\ handled' \in [Sids -> [Counters -> Nat]]
<1>1. handled \in [Sids -> [Counters -> Nat]]
  BY DEF IInv, TypeOK
<1>2. handled' = [handled EXCEPT ![sid][c] = @ + 1]
  BY DEF Ran
<1>3. handled[sid][c] = 0
  BY DEF IInv, HandledIsRejected, Passes
<1>4. ASSUME NEW o \in Sids, NEW d \in Counters
      PROVE  handled'[o][d] = 0 \/ (handled'[o][d] = 1 /\ Rejects(sess'[o].window, d))
  <2>1. CASE o = sid /\ d = c
    BY <1>1, <1>2, <1>3, <2>1
  <2>2. CASE o = sid /\ d # c
    BY <1>1, <1>2, <2>2 DEF IInv, HandledIsRejected
  <2>3. CASE o # sid
    BY <1>1, <1>2, <2>3 DEF IInv, HandledIsRejected
  <2>4. QED
    BY <2>1, <2>2, <2>3
<1>5. handled' \in [Sids -> [Counters -> Nat]]
  <2> DEFINE g == [handled[sid] EXCEPT ![c] = @ + 1]
  <2>1. g \in [Counters -> Nat]
    <3>1. handled[sid] \in [Counters -> Nat]
      BY <1>1
    <3>2. QED
      BY <3>1, CountUp
  <2>2. handled' = [handled EXCEPT ![sid] = g]
    BY <1>2
  <2> HIDE DEF g
  <2>3. QED
    BY <1>1, <2>1, <2>2
<1>6. QED
  BY <1>4, <1>5 DEF HandledIsRejected

(* Sealing under the next counter keeps SealedIsPast, whatever the key. *)
LEMMA LoggedKeepsSealed ==
    ASSUME IInv, NEW sid \in Sids, NEW k \in Keys, CanSeal(sess[sid]),
           sess'[sid].s2c = sess[sid].s2c + 1,
           sealed' = Logged(sid, k, sess'[sid].s2c),
           \A o \in Sids \ {sid} : sess'[o].s2c = sess[o].s2c
    PROVE  SealedIsPast' /\ sealed' \in [Sids -> [Keys -> [1 .. MaxSeals -> Nat]]]
<1> DEFINE m == sess[sid].s2c + 1
<1>1. sealed \in [Sids -> [Keys -> [1 .. MaxSeals -> Nat]]] /\ sess[sid].s2c \in Nat
  BY DEF IInv, TypeOK, Sessions
<1> DEFINE f == sealed[sid]
           g == [f[k] EXCEPT ![m] = @ + 1]
           h == [f EXCEPT ![k] = g]
<1>2. sealed' = [sealed EXCEPT ![sid] = h]
  BY DEF Logged
<1>2a. f \in [Keys -> [1 .. MaxSeals -> Nat]] /\ f[k] \in [1 .. MaxSeals -> Nat]
  BY <1>1
<1>2b. sealed'[sid] = h /\ \A o \in Sids \ {sid} : sealed'[o] = sealed[o]
  BY <1>1, <1>2
<1>2c. h[k] = g /\ \A j \in Keys \ {k} : h[j] = f[j]
  BY <1>2a
<1>3. m \in 1 .. MaxSeals
  BY <1>1, TimesAssumption DEF CanSeal
<1>4. sealed[sid][k][m] = 0
  BY <1>1, <1>3 DEF IInv, SealedIsPast
<1>4a. g[m] = f[k][m] + 1 /\ \A n \in 1 .. MaxSeals \ {m} : g[n] = f[k][n]
  BY <1>2a, <1>3
<1>4b. g \in [1 .. MaxSeals -> Nat]
  BY <1>2a, <1>3, CountUp
<1>4c. h \in [Keys -> [1 .. MaxSeals -> Nat]]
  BY <1>2a, <1>4b
<1> HIDE DEF f, g, h
<1>5. ASSUME NEW o \in Sids, NEW j \in Keys, NEW n \in 1 .. MaxSeals
      PROVE  sealed'[o][j][n] = 0 \/ (sealed'[o][j][n] = 1 /\ n <= sess'[o].s2c)
  <2>1. CASE o = sid /\ j = k /\ n = m
    BY <1>1, <1>2b, <1>2c, <1>4, <1>4a, <2>1 DEF f
  <2>2. CASE o = sid /\ ~(j = k /\ n = m)
    <3>1. sealed'[o][j][n] = sealed[o][j][n]
      BY <1>2b, <1>2c, <1>4a, <2>2 DEF f
    <3>2. sealed[o][j][n] = 0 \/ (sealed[o][j][n] = 1 /\ n <= sess[o].s2c)
      BY DEF IInv, SealedIsPast
    <3>3. sess'[o].s2c = sess[o].s2c + 1 /\ n \in Int
      BY <2>2
    <3>4. QED
      BY <1>1, <2>2, <3>1, <3>2, <3>3
  <2>3. CASE o # sid
    <3>1. sealed'[o][j][n] = sealed[o][j][n]
      BY <1>2b, <2>3
    <3>2. QED
      BY <2>3, <3>1 DEF IInv, SealedIsPast
  <2>4. QED
    BY <2>1, <2>2, <2>3
<1>6. sealed' \in [Sids -> [Keys -> [1 .. MaxSeals -> Nat]]]
  BY <1>1, <1>2, <1>4c
<1>7. QED
  BY <1>5, <1>6 DEF SealedIsPast

(* Steps that open no session: owners and creation times stay.              *)
LEMMA FrameBirths ==
    ASSUME IInv, sess' \in [Sids -> Sessions], now' \in Nat, now <= now',
           \A o \in Sids : /\ sess'[o].owner = sess[o].owner
                           /\ sess'[o].created = sess[o].created
                           /\ ~Made(o) => sess'[o] = sess[o],
           table' \subseteq table,
           \A r \in Reqs : busy'[r] # NoSid => busy'[r] = busy[r] \/ busy'[r] \in table
    PROVE  Births'
<1>1. \A o \in Sids : Made(o)' <=> Made(o)
  BY DEF Made
<1>2. table \subseteq Sids /\ busy \in [Reqs -> Sids \cup {NoSid}] /\ now \in Nat
      /\ \A o \in Sids : sess[o].created \in Nat
  BY DEF IInv, TypeOK, Sessions
<1>3. \A sid \in Sids : ~Made(sid)' => sess'[sid] = Unborn
  BY <1>1 DEF IInv, Births
<1>4. \A sid \in table' : Made(sid)'
  BY <1>1, <1>2 DEF IInv, Births
<1>5. \A r \in Reqs : busy'[r] # NoSid => Made(busy[r])'
  <2> SUFFICES ASSUME NEW r \in Reqs, busy'[r] # NoSid PROVE Made(busy[r])'
    OBVIOUS
  <2>1. CASE busy'[r] = busy[r]
    BY <1>1, <1>2, <2>1 DEF IInv, Births, Made
  <2>2. CASE busy'[r] \in table
    BY <1>1, <1>2, <2>2 DEF IInv, Births, Made
  <2>3. QED
    BY <2>1, <2>2
<1>6. \A sid \in Sids : sess'[sid].created <= now'
  BY <1>2 DEF IInv, Births
<1>7. QED
  BY <1>3, <1>4, <1>5, <1>6 DEF Births

(* Steps that leave the allowlist and the dates of birth alone create no    *)
(* session of a client turned away.                                         *)
LEMMA FrameRevoked ==
    ASSUME IInv, allow' = allow, revokedAt' = revokedAt,
           \A o \in Sids : /\ sess'[o].owner = sess[o].owner
                           /\ sess'[o].created = sess[o].created
    PROVE  RevokedIsOld'
BY DEF IInv, RevokedIsOld, Made

(* A session found by the lookup is in the table, so it is made and open. *)
LEMMA FoundFacts ==
    ASSUME IInv, NEW sid \in Sids, Found(sid)
    PROVE  sid \in table /\ Made(sid) /\ ~sess[sid].closed /\ table \cup {sid} = table
BY DEF IInv, Found, Births, Expired

(* decrypt_request and sealing by one session, in any combination: s is     *)
(* what the session becomes.                                                *)
LEMMA OneSession ==
    ASSUME IInv, NEW sid \in Sids, NEW s \in Sessions, Made(sid),
           sess' = [sess EXCEPT ![sid] = s],
           s.owner = sess[sid].owner, s.created = sess[sid].created,
           s.closed = sess[sid].closed,
           now' = now, table' = table, file' = file,
           \A r \in Reqs : busy'[r] # NoSid => busy'[r] = busy[r] \/ busy'[r] \in table
    PROVE  /\ sess' \in [Sids -> Sessions]
           /\ sess'[sid] = s /\ \A o \in Sids \ {sid} : sess'[o] = sess[o]
           /\ ClosedIsGone' /\ Births'
           /\ \A o \in Sids : sess'[o].owner = sess[o].owner /\ sess'[o].created = sess[o].created
<1>1. sess \in [Sids -> Sessions] /\ now \in Nat
  BY DEF IInv, TypeOK
<1>2. sess' \in [Sids -> Sessions] /\ sess'[sid] = s /\ \A o \in Sids \ {sid} : sess'[o] = sess[o]
  BY <1>1
<1>3. \A o \in Sids : sess'[o].owner = sess[o].owner /\ sess'[o].created = sess[o].created
                       /\ (~Made(o) => sess'[o] = sess[o])
  BY <1>2
<1>4. ClosedIsGone'
  BY <1>2 DEF IInv, ClosedIsGone
<1>5. Births'
  BY <1>1, <1>2, <1>3, FrameBirths
<1>6. QED
  BY <1>2, <1>3, <1>4, <1>5

(* The endpoints that run and seal in one step: AnswerAtOnce and            *)
(* ReloadClients.                                                           *)
LEMMA ServeAndSeal ==
    ASSUME IInv, NEW sid \in Sids, NEW c \in Counters, Passes(sid, c), CanSeal(sess[sid]),
           sess' = [sess EXCEPT ![sid] = WithNextCounter(Admitted(sid, c))],
           table' = table \cup {sid}, handled' = Ran(sid, c),
           sealed' = Logged(sid, sess[sid].key, sess'[sid].s2c),
           now' = now, file' = file, busy' = busy
    PROVE  /\ sess' \in [Sids -> Sessions] /\ ClosedIsGone' /\ Births'
           /\ HandledIsRejected' /\ handled' \in [Sids -> [Counters -> Nat]]
           /\ SealedIsPast' /\ sealed' \in [Sids -> [Keys -> [1 .. MaxSeals -> Nat]]]
           /\ table' = table
           /\ \A o \in Sids : sess'[o].owner = sess[o].owner /\ sess'[o].created = sess[o].created
<1> DEFINE s == WithNextCounter(Admitted(sid, c))
<1>1. TypeOK /\ Found(sid)
  BY DEF IInv, Passes
<1>2. table' = table /\ Made(sid)
  BY <1>1, FoundFacts
<1>3. Admitted(sid, c) \in Sessions
  BY <1>1, ConsumedFacts
<1>4. /\ s \in Sessions /\ s.owner = sess[sid].owner /\ s.created = sess[sid].created
      /\ s.closed = sess[sid].closed /\ s.s2c = sess[sid].s2c + 1
      /\ Rejects(s.window, c)
      /\ \A d \in Counters : Rejects(sess[sid].window, d) => Rejects(s.window, d)
  BY <1>1, <1>3, ConsumedFacts, SealFacts
<1> HIDE DEF s
<1>5. sess' = [sess EXCEPT ![sid] = s]
  BY DEF s
<1>6. /\ sess' \in [Sids -> Sessions] /\ ClosedIsGone' /\ Births'
      /\ sess'[sid] = s /\ \A o \in Sids \ {sid} : sess'[o] = sess[o]
      /\ \A o \in Sids : sess'[o].owner = sess[o].owner /\ sess'[o].created = sess[o].created
  BY <1>2, <1>4, <1>5, OneSession
<1>7. HandledIsRejected' /\ handled' \in [Sids -> [Counters -> Nat]]
  BY <1>4, <1>6, RanKeepsHandled
<1>8. sess[sid].key \in Keys
  BY <1>1 DEF TypeOK, Sessions
<1>9. SealedIsPast' /\ sealed' \in [Sids -> [Keys -> [1 .. MaxSeals -> Nat]]]
  BY <1>4, <1>6, <1>8, LoggedKeepsSealed
<1>10. QED
  BY <1>2, <1>6, <1>7, <1>9

(* Sealing by a handler that waited: Respond and StreamChunk. *)
LEMMA EmitKeeps ==
    ASSUME IInv, NEW r \in Reqs, Emit(r), now' = now, file' = file, handled' = handled,
           \A q \in Reqs : busy'[q] # NoSid => busy'[q] = busy[q]
    PROVE  /\ sess' \in [Sids -> Sessions] /\ ClosedIsGone' /\ Births'
           /\ HandledIsRejected'
           /\ SealedIsPast' /\ sealed' \in [Sids -> [Keys -> [1 .. MaxSeals -> Nat]]]
           /\ table' = table
           /\ \A o \in Sids : sess'[o].owner = sess[o].owner /\ sess'[o].created = sess[o].created
<1> DEFINE sid == busy[r]
           s == WithNextCounter(sess[sid])
<1>1. sid \in Sids /\ Made(sid) /\ sess[sid] \in Sessions /\ sess[sid].key \in Keys
  BY DEF IInv, TypeOK, Emit, Births, Sessions
<1>2. /\ s \in Sessions /\ s.owner = sess[sid].owner /\ s.created = sess[sid].created
      /\ s.closed = sess[sid].closed /\ s.s2c = sess[sid].s2c + 1
      /\ s.window = sess[sid].window
  BY <1>1, SealFacts
<1>3. /\ sess' = [sess EXCEPT ![sid] = s] /\ table' = table /\ CanSeal(sess[sid])
      /\ sealed' = Logged(sid, sess[sid].key, sess'[sid].s2c)
  BY DEF Emit, TableAfterSeal
<1> HIDE DEF s, sid
<1>4. /\ sess' \in [Sids -> Sessions] /\ ClosedIsGone' /\ Births'
      /\ sess'[sid] = s /\ \A o \in Sids \ {sid} : sess'[o] = sess[o]
      /\ \A o \in Sids : sess'[o].owner = sess[o].owner /\ sess'[o].created = sess[o].created
  BY <1>1, <1>2, <1>3, OneSession
<1>5. \A o \in Sids : sess'[o].window = sess[o].window
  BY <1>2, <1>4
<1>6. HandledIsRejected'
  BY <1>5 DEF IInv, HandledIsRejected
<1>7. SealedIsPast' /\ sealed' \in [Sids -> [Keys -> [1 .. MaxSeals -> Nat]]]
  BY <1>1, <1>2, <1>3, <1>4, LoggedKeepsSealed
<1>8. QED
  BY <1>3, <1>4, <1>6, <1>7

(* Zeroizing sessions and taking them off the table: DeleteSession. *)
LEMMA DeleteKeeps ==
    ASSUME IInv, NEW sid \in Sids, DeleteSession(sid)
    PROVE  IInv'
<1>1. TypeOK /\ sess \in [Sids -> Sessions]
  BY DEF IInv, TypeOK
<1>2. sess' = [sess EXCEPT ![sid] = Zeroized(sess[sid])] /\ table' = table \ {sid}
  BY DEF DeleteSession, Terminated, TableWithout
<1>2a. UNCHANGED <<now, file, allow, revokedAt, busy, handled, sealed>>
  BY DEF DeleteSession
<1>3. /\ sess' \in [Sids -> Sessions]
      /\ \A o \in Sids : /\ sess'[o].owner = sess[o].owner /\ sess'[o].created = sess[o].created
                         /\ sess'[o].s2c = sess[o].s2c /\ sess'[o].window = sess[o].window
                         /\ o # sid => sess'[o] = sess[o]
  BY <1>1, <1>2, ZeroizedFacts
<1>4. Made(sid)
  BY FoundFacts DEF DeleteSession
<1>5. TypeOK'
  BY <1>1, <1>2, <1>3 DEF TypeOK, DeleteSession
<1>6. HandledIsRejected' /\ SealedIsPast'
  BY <1>2a, <1>3 DEF IInv, HandledIsRejected, SealedIsPast
<1>7. ClosedIsGone'
  BY <1>2, <1>3 DEF IInv, ClosedIsGone
<1>8. Births'
  <2>1. now' = now /\ busy' = busy /\ now \in Nat
    BY <1>1, <1>2a DEF TypeOK
  <2>2. \A o \in Sids : ~Made(o) => sess'[o] = sess[o]
    BY <1>3, <1>4
  <2>3. now <= now' /\ table' \subseteq table
    BY <1>2, <2>1
  <2>4. QED
    BY <1>3, <2>1, <2>2, <2>3, FrameBirths
<1>9. RevokedIsOld'
  BY <1>2a, <1>3, FrameRevoked
<1>10. QED
  BY <1>5, <1>6, <1>7, <1>8, <1>9 DEF IInv

(* An administrator ends a session, possibly its own, and seals a goodbye. *)
LEMMA AdminTerminateKeeps ==
    ASSUME IInv, NEW sid \in Sids, NEW c \in Counters, NEW target \in Sids,
           AdminTerminate(sid, c, target)
    PROVE  IInv'
<1> DEFINE mid == [sess EXCEPT ![sid] = Admitted(sid, c)]
           after == Terminated(mid, target)
<1>1. TypeOK /\ Passes(sid, c) /\ Found(sid) /\ CanSeal(sess[sid])
  BY DEF IInv, AdminTerminate, Passes
<1>2. sess \in [Sids -> Sessions] /\ sid \in table /\ Made(sid) /\ table \cup {sid} = table
  BY <1>1, FoundFacts DEF TypeOK
<1>3. UNCHANGED <<now, file, allow, revokedAt, busy>>
  BY DEF AdminTerminate
<1>4. sess' = [after EXCEPT ![sid] = WithNextCounter(after[sid])]
  BY DEF AdminTerminate
<1>5. handled' = Ran(sid, c) /\ sealed' = Logged(sid, GoodbyeKey(sid, target), sess'[sid].s2c)
      /\ table' = TableWithout(table, target)
  BY <1>2 DEF AdminTerminate
<1>6. /\ mid \in [Sids -> Sessions]
      /\ mid[sid].owner = sess[sid].owner /\ mid[sid].created = sess[sid].created
      /\ mid[sid].closed = sess[sid].closed /\ mid[sid].s2c = sess[sid].s2c
      /\ Rejects(mid[sid].window, c)
      /\ \A d \in Counters : Rejects(sess[sid].window, d) => Rejects(mid[sid].window, d)
      /\ \A o \in Sids \ {sid} : mid[o] = sess[o]
  BY <1>1, <1>2, ConsumedFacts
<1> HIDE DEF mid
<1>7. /\ after \in [Sids -> Sessions]
      /\ \A o \in Sids : /\ after[o].owner = mid[o].owner /\ after[o].created = mid[o].created
                         /\ after[o].s2c = mid[o].s2c /\ after[o].window = mid[o].window
                         /\ (o # target => after[o] = mid[o])
                         /\ (~Found(target) => after[o] = mid[o])
  <2>1. CASE Found(target)
    <3>1. after = [mid EXCEPT ![target] = Zeroized(mid[target])]
      BY <2>1 DEF Terminated
    <3>2. Zeroized(mid[target]) \in Sessions
      BY <1>6, ZeroizedFacts
    <3>3. QED
      BY <1>6, <2>1, <3>1, <3>2, ZeroizedFacts
  <2>2. CASE ~Found(target)
    BY <1>6, <2>2 DEF Terminated
  <2>3. QED
    BY <2>1, <2>2
<1> HIDE DEF after
<1>8. /\ sess' \in [Sids -> Sessions]
      /\ sess'[sid] = WithNextCounter(after[sid])
      /\ \A o \in Sids \ {sid} : sess'[o] = after[o]
  BY <1>4, <1>7, SealFacts
<1>9. /\ sess'[sid].owner = after[sid].owner /\ sess'[sid].created = after[sid].created
      /\ sess'[sid].closed = after[sid].closed /\ sess'[sid].window = after[sid].window
      /\ sess'[sid].s2c = after[sid].s2c + 1
  BY <1>7, <1>8, SealFacts
<1>10. \A o \in Sids : sess'[o].owner = sess[o].owner /\ sess'[o].created = sess[o].created
  BY <1>6, <1>7, <1>8, <1>9
<1>11. table' \subseteq table /\ (Found(target) => target \notin table')
  BY <1>5 DEF TableWithout
<1>12. HandledIsRejected' /\ handled' \in [Sids -> [Counters -> Nat]]
  <2>1. Rejects(sess'[sid].window, c)
        /\ \A d \in Counters : Rejects(sess[sid].window, d) => Rejects(sess'[sid].window, d)
    BY <1>6, <1>7, <1>9
  <2>2. \A o \in Sids \ {sid} : sess'[o].window = sess[o].window
    BY <1>6, <1>7, <1>8
  <2>3. QED
    BY <1>1, <1>5, <2>1, <2>2, RanKeepsHandled
<1>13. SealedIsPast' /\ sealed' \in [Sids -> [Keys -> [1 .. MaxSeals -> Nat]]]
  <2>1. GoodbyeKey(sid, target) \in Keys
    <3>1. Terminated(sess, target) \in [Sids -> Sessions]
      BY <1>2, ZeroizedFacts DEF Terminated
    <3>2. QED
      BY <1>2, <3>1 DEF GoodbyeKey, Sessions
  <2>2. \A o \in Sids \ {sid} : sess'[o].s2c = sess[o].s2c
    BY <1>6, <1>7, <1>8
  <2>3. sess'[sid].s2c = sess[sid].s2c + 1
    BY <1>6, <1>7, <1>9
  <2>4. QED
    BY <1>1, <1>5, <2>1, <2>2, <2>3, LoggedKeepsSealed
<1>14. TypeOK'
  BY <1>1, <1>3, <1>8, <1>11, <1>12, <1>13 DEF TypeOK
<1>15. ClosedIsGone'
  <2> SUFFICES ASSUME NEW o \in Sids, sess'[o].closed PROVE o \notin table'
    BY DEF ClosedIsGone
  <2>1. after[o].closed
    BY <1>8, <1>9
  <2>2. CASE o = target /\ Found(target)
    BY <1>11, <2>2
  <2>3. CASE ~(o = target /\ Found(target))
    <3>1. after[o] = mid[o]
      BY <1>7, <2>3
    <3>2. sess[o].closed
      BY <1>6, <2>1, <3>1
    <3>3. QED
      BY <1>11, <3>2 DEF IInv, ClosedIsGone
  <2>4. QED
    BY <2>2, <2>3
<1>16. Births'
  <2>1. \A o \in Sids : ~Made(o) => sess'[o] = sess[o]
    <3> SUFFICES ASSUME NEW o \in Sids, ~Made(o) PROVE sess'[o] = sess[o]
      OBVIOUS
    <3>1. o # sid /\ ~(o = target /\ Found(target))
      BY <1>2, FoundFacts
    <3>2. QED
      BY <1>6, <1>7, <1>8, <3>1
  <2>2. now' \in Nat /\ now <= now' /\ busy' = busy
    BY <1>1, <1>3 DEF TypeOK
  <2>3. QED
    BY <1>8, <1>10, <1>11, <2>1, <2>2, FrameBirths
<1>17. RevokedIsOld'
  BY <1>3, <1>10, FrameRevoked
<1>18. QED
  BY <1>12, <1>13, <1>14, <1>15, <1>16, <1>17 DEF IInv

(* The handshake opens a session on an unused id. *)
LEMMA CreateKeeps ==
    ASSUME IInv, NEW cl \in Clients, NEW ts \in Nat, NEW sid \in Sids,
           CreateSession(cl, ts, sid)
    PROVE  IInv'
<1> DEFINE s == [Unborn EXCEPT !.owner = cl, !.created = now, !.last = now]
<1>1. TypeOK /\ sess \in [Sids -> Sessions] /\ now \in Nat /\ cl # NoClient
  BY ClientsAssumption DEF IInv, TypeOK
<1>2. /\ ~Made(sid) /\ sess' = [sess EXCEPT ![sid] = s] /\ table' = table \cup {sid}
      /\ allow[cl] = "ok"
  BY DEF CreateSession, HandshakeOK
<1>3. UNCHANGED <<now, file, allow, revokedAt, busy, handled, sealed>>
  BY DEF CreateSession
<1>4. sess[sid] = Unborn
  BY <1>2 DEF IInv, Births
<1>5. /\ s \in Sessions /\ s.owner = cl /\ s.created = now /\ s.closed = FALSE
      /\ s.s2c = Unborn.s2c /\ s.window = Unborn.window
  BY <1>1, FreshIsWindow DEF Unborn, Sessions, Keys
<1> HIDE DEF s
<1>6. /\ sess' \in [Sids -> Sessions] /\ sess'[sid] = s
      /\ \A o \in Sids \ {sid} : sess'[o] = sess[o]
  BY <1>1, <1>2, <1>5
<1>7. \A o \in Sids : sess'[o].s2c = sess[o].s2c /\ sess'[o].window = sess[o].window
  BY <1>4, <1>5, <1>6
<1>8. TypeOK'
  BY <1>1, <1>2, <1>3, <1>6 DEF TypeOK
<1>9. HandledIsRejected' /\ SealedIsPast'
  BY <1>3, <1>7 DEF IInv, HandledIsRejected, SealedIsPast
<1>10. ClosedIsGone'
  BY <1>2, <1>5, <1>6 DEF IInv, ClosedIsGone
<1>11. Births'
  <2>1. \A o \in Sids : Made(o) => Made(o)'
    BY <1>1, <1>5, <1>6 DEF Made
  <2>2. Made(sid)'
    BY <1>1, <1>5, <1>6 DEF Made
  <2>3. \A o \in Sids : ~Made(o)' => sess'[o] = Unborn
    BY <1>6, <2>2 DEF IInv, Births, Made
  <2>4. \A o \in table' : Made(o)'
    BY <1>1, <1>2, <2>1, <2>2 DEF IInv, Births, TypeOK
  <2>5. \A r \in Reqs : busy'[r] # NoSid => Made(busy[r])'
    <3> SUFFICES ASSUME NEW r \in Reqs, busy[r] # NoSid PROVE Made(busy[r])'
      BY <1>3
    <3>1. busy[r] \in Sids /\ Made(busy[r]) /\ busy'[r] = busy[r]
      BY <1>1, <1>3 DEF IInv, Births, TypeOK
    <3>2. QED
      BY <2>1, <3>1 DEF Made
  <2>6. \A o \in Sids : sess'[o].created <= now'
    BY <1>1, <1>3, <1>5, <1>6 DEF IInv, Births
  <2>7. QED
    BY <2>3, <2>4, <2>5, <2>6 DEF Births
<1>12. RevokedIsOld'
  BY <1>2, <1>3, <1>5, <1>6 DEF IInv, RevokedIsOld, Made
<1>13. QED
  BY <1>8, <1>9, <1>10, <1>11, <1>12 DEF IInv

(* decrypt_request refuses the body, or starts an endpoint that waits. *)
LEMMA OpenKeeps ==
    ASSUME IInv, NEW sid \in Sids, NEW c \in Counters,
           RefuseBody(sid, c) \/ \E r \in Reqs : StartInference(r, sid, c)
    PROVE  IInv'
<1>1. TypeOK /\ Passes(sid, c) /\ Found(sid)
  BY DEF IInv, RefuseBody, StartInference, Passes
<1>2. sid \in table /\ Made(sid) /\ table \cup {sid} = table
  BY <1>1, FoundFacts
<1>3. PICK s \in {Consumed(sid, c), Admitted(sid, c)} : sess' = [sess EXCEPT ![sid] = s]
  BY DEF RefuseBody, StartInference
<1>4. /\ s \in Sessions /\ s.owner = sess[sid].owner /\ s.created = sess[sid].created
      /\ s.closed = sess[sid].closed /\ s.s2c = sess[sid].s2c /\ Rejects(s.window, c)
      /\ \A d \in Counters : Rejects(sess[sid].window, d) => Rejects(s.window, d)
  BY <1>1, ConsumedFacts
<1>5. /\ UNCHANGED <<now, file, allow, revokedAt, sealed>> /\ table' = table
      /\ handled' = handled \/ handled' = Ran(sid, c)
      /\ \A r \in Reqs : busy'[r] = busy[r] \/ busy'[r] = sid
      /\ busy' \in [Reqs -> Sids \cup {NoSid}]
  BY <1>1, <1>2 DEF RefuseBody, StartInference, TypeOK
<1>6. /\ sess' \in [Sids -> Sessions] /\ ClosedIsGone' /\ Births'
      /\ sess'[sid] = s /\ \A o \in Sids \ {sid} : sess'[o] = sess[o]
      /\ \A o \in Sids : sess'[o].owner = sess[o].owner /\ sess'[o].created = sess[o].created
  <2>1. \A r \in Reqs : busy'[r] # NoSid => busy'[r] = busy[r] \/ busy'[r] \in table
    BY <1>2, <1>5
  <2>2. QED
    BY <1>2, <1>3, <1>4, <1>5, <2>1, OneSession
<1>7. HandledIsRejected' /\ handled' \in [Sids -> [Counters -> Nat]]
  <2>1. CASE handled' = handled
    <3>1. \A o \in Sids : \A d \in Counters :
             Rejects(sess[o].window, d) => Rejects(sess'[o].window, d)
      BY <1>4, <1>6
    <3>2. QED
      BY <1>1, <2>1, <3>1 DEF IInv, HandledIsRejected, TypeOK
  <2>2. CASE handled' = Ran(sid, c)
    BY <1>1, <1>4, <1>6, <2>2, RanKeepsHandled
  <2>3. QED
    BY <1>5, <2>1, <2>2
<1>8. SealedIsPast'
  <2>1. \A o \in Sids : sess'[o].s2c = sess[o].s2c
    BY <1>4, <1>6
  <2>2. QED
    BY <1>5, <2>1 DEF IInv, SealedIsPast
<1>9. TypeOK'
  BY <1>1, <1>5, <1>6, <1>7 DEF TypeOK
<1>10. RevokedIsOld'
  BY <1>5, <1>6, FrameRevoked
<1>11. QED
  BY <1>6, <1>7, <1>8, <1>9, <1>10 DEF IInv

(* Reloading the allowlist: sessions of a client revoked now are older.     *)
LEMMA ReloadKeeps ==
    ASSUME IInv, NEW sid \in Sids, NEW c \in Counters, ReloadClients(sid, c)
    PROVE  IInv'
<1>1. TypeOK /\ Passes(sid, c) /\ CanSeal(sess[sid]) /\ now \in Nat
  BY DEF IInv, TypeOK, ReloadClients
<1>2. UNCHANGED <<now, file, busy>> /\ allow' = file
  BY DEF ReloadClients
<1>3. revokedAt' = [cl \in Clients |-> IF file[cl] = "revoked" /\ allow[cl] = "ok"
                                       THEN now ELSE revokedAt[cl]]
  BY DEF ReloadClients
<1>4. /\ sess' \in [Sids -> Sessions] /\ ClosedIsGone' /\ Births'
      /\ HandledIsRejected' /\ handled' \in [Sids -> [Counters -> Nat]]
      /\ SealedIsPast' /\ sealed' \in [Sids -> [Keys -> [1 .. MaxSeals -> Nat]]]
      /\ table' = table
      /\ \A o \in Sids : sess'[o].owner = sess[o].owner /\ sess'[o].created = sess[o].created
  BY <1>1, ServeAndSeal DEF ReloadClients
<1>5. TypeOK'
  BY <1>1, <1>2, <1>3, <1>4 DEF TypeOK
<1>6. RevokedIsOld'
  <2> SUFFICES ASSUME NEW o \in Sids, sess'[o].owner # NoClient, allow'[sess'[o].owner] = "revoked"
               PROVE  sess'[o].created <= revokedAt'[sess'[o].owner]
    BY DEF RevokedIsOld, Made
  <2> DEFINE cl == sess[o].owner
  <2>1. /\ cl \in Clients /\ sess'[o].owner = cl /\ sess'[o].created = sess[o].created
        /\ sess[o].created <= now /\ file[cl] = "revoked" /\ Made(o)
        /\ allow[cl] \in Standing
    BY <1>1, <1>2, <1>4 DEF TypeOK, Sessions, IInv, Births, Made
  <2>2. CASE allow[cl] = "ok"
    BY <1>3, <2>1, <2>2
  <2>3. CASE allow[cl] = "revoked"
    BY <1>3, <2>1, <2>3 DEF IInv, RevokedIsOld
  <2>4. QED
    BY <2>1, <2>2, <2>3 DEF Standing
<1>7. QED
  BY <1>4, <1>5, <1>6 DEF IInv

(* Every step of the server keeps the inductive invariant.                  *)
LEMMA StepIInv == IInv /\ [Next]_vars => IInv'
<1> SUFFICES ASSUME IInv, [Next]_vars PROVE IInv'
  OBVIOUS
<1>1. TypeOK
  BY DEF IInv
<1>2. CASE Tick
  <2>1. now' = now + 1 /\ UNCHANGED <<file, allow, revokedAt, sess, table, busy, handled, sealed>>
    BY <1>2 DEF Tick
  <2>2. TypeOK'
    BY <1>1, <2>1 DEF TypeOK
  <2>3. HandledIsRejected' /\ SealedIsPast' /\ ClosedIsGone' /\ RevokedIsOld'
    BY <2>1 DEF IInv, HandledIsRejected, SealedIsPast, ClosedIsGone, RevokedIsOld, Made
  <2>4. Births'
    BY <1>1, <2>1, <2>2, FrameBirths DEF TypeOK
  <2>5. QED
    BY <2>2, <2>3, <2>4 DEF IInv
<1>3. ASSUME NEW cl \in Clients, NEW s \in Standing, EditFile(cl, s) PROVE IInv'
  BY <1>1, <1>3 DEF EditFile, IInv, TypeOK, HandledIsRejected, SealedIsPast, ClosedIsGone,
                    Births, RevokedIsOld, Made
<1>4. ASSUME NEW cl \in Clients, NEW ts \in 0 .. MaxTime, NEW sid \in Sids,
             CreateSession(cl, ts, sid)
      PROVE  IInv'
  BY <1>4, CreateKeeps, TimesAssumption
<1>5. ASSUME NEW sid \in Sids, NEW c \in Counters, Arrive(sid, c) PROVE IInv'
  <2>1. CASE RefuseBody(sid, c) \/ \E r \in Reqs : StartInference(r, sid, c)
    BY <2>1, OpenKeeps
  <2>2. CASE AnswerAtOnce(sid, c)
    <3>1. Passes(sid, c) /\ CanSeal(sess[sid]) /\ UNCHANGED <<now, file, allow, revokedAt, busy>>
      BY <2>2 DEF AnswerAtOnce
    <3>2. /\ sess' \in [Sids -> Sessions] /\ ClosedIsGone' /\ Births'
          /\ HandledIsRejected' /\ handled' \in [Sids -> [Counters -> Nat]]
          /\ SealedIsPast' /\ sealed' \in [Sids -> [Keys -> [1 .. MaxSeals -> Nat]]]
          /\ table' = table
          /\ \A o \in Sids : sess'[o].owner = sess[o].owner /\ sess'[o].created = sess[o].created
      BY <2>2, <3>1, ServeAndSeal DEF AnswerAtOnce
    <3>3. TypeOK'
      BY <1>1, <3>1, <3>2 DEF TypeOK
    <3>4. RevokedIsOld'
      BY <3>1, <3>2, FrameRevoked
    <3>5. QED
      BY <3>2, <3>3, <3>4 DEF IInv
  <2>3. ASSUME NEW target \in Sids, AdminTerminate(sid, c, target) PROVE IInv'
    BY <2>3, AdminTerminateKeeps
  <2>4. CASE ReloadClients(sid, c)
    BY <2>4, ReloadKeeps
  <2>5. QED
    BY <1>5, <2>1, <2>2, <2>3, <2>4 DEF Arrive
<1>6. ASSUME NEW r \in Reqs, StreamChunk(r) \/ Respond(r) PROVE IInv'
  <2>1. Emit(r) /\ UNCHANGED <<now, file, allow, revokedAt, handled>>
    BY <1>6 DEF StreamChunk, Respond
  <2>2. /\ busy' \in [Reqs -> Sids \cup {NoSid}]
        /\ \A q \in Reqs : busy'[q] # NoSid => busy'[q] = busy[q]
    BY <1>1, <1>6 DEF StreamChunk, Respond, TypeOK
  <2>3. /\ sess' \in [Sids -> Sessions] /\ ClosedIsGone' /\ Births'
        /\ HandledIsRejected'
        /\ SealedIsPast' /\ sealed' \in [Sids -> [Keys -> [1 .. MaxSeals -> Nat]]]
        /\ table' = table
        /\ \A o \in Sids : sess'[o].owner = sess[o].owner /\ sess'[o].created = sess[o].created
    BY <2>1, <2>2, EmitKeeps
  <2>4. TypeOK'
    BY <1>1, <2>1, <2>2, <2>3 DEF TypeOK
  <2>5. RevokedIsOld'
    BY <2>1, <2>3, FrameRevoked
  <2>6. QED
    BY <2>3, <2>4, <2>5 DEF IInv
<1>7. ASSUME NEW r \in Reqs, EndStream(r) PROVE IInv'
  <2>1. /\ busy' = [busy EXCEPT ![r] = NoSid]
        /\ UNCHANGED <<now, file, allow, revokedAt, sess, table, handled, sealed>>
    BY <1>7 DEF EndStream
  <2>2. TypeOK'
    BY <1>1, <2>1 DEF TypeOK
  <2>3. HandledIsRejected' /\ SealedIsPast' /\ ClosedIsGone' /\ RevokedIsOld'
    BY <2>1 DEF IInv, HandledIsRejected, SealedIsPast, ClosedIsGone, RevokedIsOld, Made
  <2>4. \A q \in Reqs : busy'[q] # NoSid => busy'[q] = busy[q]
    BY <1>1, <2>1 DEF TypeOK
  <2>5. Births'
    BY <1>1, <2>1, <2>2, <2>4, FrameBirths DEF TypeOK
  <2>6. QED
    BY <2>2, <2>3, <2>5 DEF IInv
<1>8. ASSUME NEW sid \in Sids, DeleteSession(sid) PROVE IInv'
  BY <1>8, DeleteKeeps
<1>9. CASE Reap
  <2>1. table' \subseteq table /\ UNCHANGED <<now, file, allow, revokedAt, sess, busy, handled, sealed>>
    BY <1>9 DEF Reap
  <2>2. TypeOK'
    BY <1>1, <2>1 DEF TypeOK
  <2>3. HandledIsRejected' /\ SealedIsPast' /\ ClosedIsGone' /\ RevokedIsOld'
    BY <2>1 DEF IInv, HandledIsRejected, SealedIsPast, ClosedIsGone, RevokedIsOld, Made
  <2>4. Births'
    BY <1>1, <2>1, <2>2, FrameBirths DEF TypeOK
  <2>5. QED
    BY <2>2, <2>3, <2>4 DEF IInv
<1>10. CASE UNCHANGED vars
  BY <1>10 DEF vars, IInv, TypeOK, HandledIsRejected, SealedIsPast, ClosedIsGone, Births,
               RevokedIsOld, Made
<1>11. QED
  BY <1>2, <1>3, <1>4, <1>5, <1>6, <1>7, <1>8, <1>9, <1>10 DEF Next

-----------------------------------------------------------------------------
(* No step touches a session that has ended, except to seal for a handler   *)
(* still running on it.                                                     *)
LEMMA EndedUntouched ==
    ASSUME IInv, [Next]_vars, NEW o \in Sids, Made(o), Expired(sess[o])
    PROVE  /\ handled'[o] = handled[o] /\ now' \in Nat /\ now <= now'
           /\ sess'[o].last = sess[o].last /\ sess'[o].created = sess[o].created
           /\ sess'[o].closed = sess[o].closed
<1>1. TypeOK /\ now \in Nat /\ sess \in [Sids -> Sessions]
      /\ handled \in [Sids -> [Counters -> Nat]]
  BY DEF IInv, TypeOK
<1>2. ~Found(o)
  BY DEF Found
<1>3. \A sid \in Sids, c \in Counters : Passes(sid, c) => o # sid
  BY <1>2 DEF Passes
<1>4. CASE Tick
  BY <1>1, <1>4 DEF Tick
<1>5. ASSUME NEW cl \in Clients, NEW s \in Standing, EditFile(cl, s)
      PROVE  UNCHANGED <<handled, now, sess>>
  BY <1>5 DEF EditFile
<1>6. ASSUME NEW cl \in Clients, NEW ts \in 0 .. MaxTime, NEW sid \in Sids,
             CreateSession(cl, ts, sid)
      PROVE  UNCHANGED <<handled, now>> /\ sess'[o] = sess[o]
  BY <1>1, <1>6 DEF CreateSession
<1>7. ASSUME NEW sid \in Sids, NEW c \in Counters, Arrive(sid, c)
      PROVE  now' = now /\ handled'[o] = handled[o] /\ sess'[o] = sess[o]
  <2>1. Passes(sid, c)
    BY <1>7 DEF Arrive, RefuseBody, AnswerAtOnce, StartInference, AdminTerminate, ReloadClients
  <2>2. o # sid
    BY <1>3, <2>1
  <2>3. CASE RefuseBody(sid, c)
    BY <1>1, <2>2, <2>3 DEF RefuseBody
  <2>4. CASE AnswerAtOnce(sid, c)
    BY <1>1, <2>2, <2>4 DEF AnswerAtOnce, Ran
  <2>5. ASSUME NEW r \in Reqs, StartInference(r, sid, c)
        PROVE  now' = now /\ handled'[o] = handled[o] /\ sess'[o] = sess[o]
    BY <1>1, <2>2, <2>5 DEF StartInference, Ran
  <2>6. CASE ReloadClients(sid, c)
    BY <1>1, <2>2, <2>6 DEF ReloadClients, Ran
  <2>7. ASSUME NEW target \in Sids, AdminTerminate(sid, c, target)
        PROVE  now' = now /\ handled'[o] = handled[o] /\ sess'[o] = sess[o]
    <3> DEFINE mid == [sess EXCEPT ![sid] = Admitted(sid, c)]
               after == Terminated(mid, target)
    <3>1. now' = now /\ handled' = Ran(sid, c)
          /\ sess' = [after EXCEPT ![sid] = WithNextCounter(after[sid])]
      BY <2>7 DEF AdminTerminate
    <3>2. mid[o] = sess[o] /\ o \in DOMAIN mid
      BY <1>1, <2>2
    <3> HIDE DEF mid
    <3>3. after[o] = mid[o] /\ o \in DOMAIN after
      BY <1>2, <3>2 DEF Terminated
    <3> HIDE DEF after
    <3>4. sess'[o] = after[o]
      BY <2>2, <3>1, <3>3
    <3>5. handled'[o] = handled[o]
      BY <1>1, <2>2, <3>1 DEF Ran
    <3>6. QED
      BY <3>1, <3>2, <3>3, <3>4, <3>5
  <2>8. QED
    BY <1>7, <2>3, <2>4, <2>5, <2>6, <2>7 DEF Arrive
<1>8. ASSUME NEW r \in Reqs, StreamChunk(r) \/ Respond(r)
      PROVE  /\ UNCHANGED <<handled, now>> /\ sess'[o].last = sess[o].last
             /\ sess'[o].created = sess[o].created /\ sess'[o].closed = sess[o].closed
  <2>1. UNCHANGED <<handled, now>>
        /\ sess' = [sess EXCEPT ![busy[r]] = WithNextCounter(sess[busy[r]])]
    BY <1>8 DEF StreamChunk, Respond, Emit
  <2>2. CASE busy[r] = o
    <3>1. sess'[o] = WithNextCounter(sess[o])
      BY <1>1, <2>1, <2>2
    <3>2. QED
      BY <1>1, <2>1, <3>1, SealFacts
  <2>3. CASE busy[r] # o
    BY <1>1, <2>1, <2>3
  <2>4. QED
    BY <2>2, <2>3
<1>9. ASSUME NEW r \in Reqs, EndStream(r) PROVE UNCHANGED <<handled, now, sess>>
  BY <1>9 DEF EndStream
<1>10. ASSUME NEW sid \in Sids, DeleteSession(sid)
       PROVE  UNCHANGED <<handled, now>> /\ sess'[o] = sess[o]
  <2>1. o # sid /\ UNCHANGED <<handled, now>> /\ sess' = [sess EXCEPT ![sid] = Zeroized(sess[sid])]
    BY <1>2, <1>10 DEF DeleteSession, Terminated
  <2>2. QED
    BY <1>1, <2>1
<1>11. CASE Reap
  BY <1>1, <1>11 DEF Reap
<1>12. CASE UNCHANGED vars
  BY <1>1, <1>12 DEF vars
<1>13. QED
  BY <1>1, <1>4, <1>5, <1>6, <1>7, <1>8, <1>9, <1>10, <1>11, <1>12 DEF Next

(* No step revives a session that has ended.                                *)
LEMMA StepEndIsFinal ==
    ASSUME IInv, [Next]_vars, NEW sid \in Sids, Made(sid), Expired(sess[sid])
    PROVE  handled'[sid] = handled[sid] /\ Expired(sess[sid])'
<1>1. /\ handled'[sid] = handled[sid] /\ now' \in Nat /\ now <= now'
      /\ sess'[sid].last = sess[sid].last /\ sess'[sid].created = sess[sid].created
      /\ sess'[sid].closed = sess[sid].closed
  BY EndedUntouched
<1>2. now \in Nat /\ sess[sid].last \in Nat /\ sess[sid].created \in Nat
  BY DEF IInv, TypeOK, Sessions
<1>3. QED
  BY <1>1, <1>2, TimesAssumption DEF Expired

(* An endpoint runs only for a session the lookup finds. *)
LEMMA RunsOnlyIfFound ==
    ASSUME IInv, [Next]_vars, NEW sid \in Sids, handled'[sid] # handled[sid]
    PROVE  Found(sid)
<1>1. handled \in [Sids -> [Counters -> Nat]]
  BY DEF IInv, TypeOK
<1>2. PICK s \in Sids, c \in Counters : Arrive(s, c)
  BY DEF Next, vars, Tick, EditFile, CreateSession, StreamChunk, Respond, EndStream,
         DeleteSession, Reap
<1>3. Passes(s, c) /\ (handled' = handled \/ handled' = Ran(s, c))
  BY <1>2 DEF Arrive, RefuseBody, AnswerAtOnce, StartInference, AdminTerminate, ReloadClients
<1>4. s = sid
  BY <1>1, <1>3 DEF Ran
<1>5. QED
  BY <1>3, <1>4 DEF Passes

(* No endpoint runs for a session older than MAX_LIFETIME, and a revoked    *)
(* client has no younger one.                                               *)
LEMMA StepRevocation ==
    ASSUME IInv, [Next]_vars, NEW sid \in Sids, handled'[sid] # handled[sid],
           allow[sess[sid].owner] = "revoked"
    PROVE  now - revokedAt[sess[sid].owner] <= MAX_LIFETIME
<1>1. Found(sid) /\ Made(sid)
  BY RunsOnlyIfFound, FoundFacts
<1>2. now \in Nat /\ sess[sid].created \in Nat /\ revokedAt[sess[sid].owner] \in Nat
  BY <1>1 DEF IInv, TypeOK, Sessions, Made
<1>3. now - sess[sid].created <= MAX_LIFETIME
  BY <1>1, <1>2, TimesAssumption DEF Found, Expired
<1>4. sess[sid].created <= revokedAt[sess[sid].owner]
  BY <1>1 DEF IInv, RevokedIsOld
<1>5. QED
  BY <1>2, <1>3, <1>4, TimesAssumption

-----------------------------------------------------------------------------
(* The inductive invariant holds throughout.                                *)
LEMMA InvariantHolds == Spec => []IInv
BY InitIInv, StepIInv, PTL DEF Spec

(* Every state of the session server is well formed, for every number of    *)
(* clients, sessions and handlers.                                          *)
THEOREM TypeCorrect == Spec => []TypeOK
<1>1. IInv => TypeOK
  BY DEF IInv
<1>2. QED
  BY <1>1, InvariantHolds, PTL

(* decrypt_request runs an endpoint at most once per counter, whatever the  *)
(* network delivers and however sessions open and end in between.           *)
THEOREM AtMostOnce == Spec => []HandledAtMostOnce
<1>1. IInv => HandledAtMostOnce
  BY DEF IInv, HandledIsRejected, HandledAtMostOnce
<1>2. QED
  BY <1>1, InvariantHolds, PTL

(* encrypt_response and _seal_chunk never seal twice under one key and      *)
(* counter, whatever handlers of the session interleave.                    *)
THEOREM NonceUnique == Spec => []NonceNeverReused
<1>1. IInv => NonceNeverReused
  BY DEF IInv, SealedIsPast, NonceNeverReused
<1>2. QED
  BY <1>1, InvariantHolds, PTL

(* A terminated session never returns to the table. *)
THEOREM TerminatedStaysGone == Spec => []ClosedIsGone
<1>1. IInv => ClosedIsGone
  BY DEF IInv
<1>2. QED
  BY <1>1, InvariantHolds, PTL

(* A session that has ended runs no endpoint and never comes back. *)
THEOREM EndIsForGood == Spec => EndIsFinal
<1>1. IInv /\ [Next]_vars =>
        [\A sid \in Sids : Made(sid) /\ Expired(sess[sid]) =>
            handled'[sid] = handled[sid] /\ Expired(sess[sid])']_vars
  BY StepEndIsFinal
<1>2. QED
  BY <1>1, InvariantHolds, PTL DEF Spec, EndIsFinal

(* After a revocation is loaded, no endpoint runs for the client later than *)
(* MAX_LIFETIME after it.                                                   *)
THEOREM RevocationBounded == Spec => RevocationTakesEffect
<1>1. IInv /\ [Next]_vars =>
        [\A sid \in Sids :
            /\ handled'[sid] # handled[sid]
            /\ allow[sess[sid].owner] = "revoked"
            => now - revokedAt[sess[sid].owner] <= MAX_LIFETIME]_vars
  BY StepRevocation
<1>2. QED
  BY <1>1, InvariantHolds, PTL DEF Spec, RevocationTakesEffect

-----------------------------------------------------------------------------
(* Keys are zeroed only together with the flag. *)
ZeroIsClosed == \A sid \in Sids : sess[sid].key = "zero" => sess[sid].closed

(* One step zeroes no key without closing its session, and reopens none.    *)
LEMMA KeyStep ==
    ASSUME IInv, ZeroIsClosed, [Next]_vars
    PROVE  ZeroIsClosed'
<1>1. sess \in [Sids -> Sessions] /\ \A r \in Reqs : busy[r] \in Sids \cup {NoSid}
  BY DEF IInv, TypeOK
<1>2. ASSUME sess' = sess PROVE ZeroIsClosed'
  BY <1>2 DEF ZeroIsClosed
<1> DEFINE Fine(v) == v.key = "zero" => v.closed
<1>3. ASSUME NEW sid \in Sids, NEW v, Fine(v), sess' = [sess EXCEPT ![sid] = v]
      PROVE  ZeroIsClosed'
  BY <1>1, <1>3 DEF ZeroIsClosed
<1>4. \A sid \in Sids : Fine(sess[sid])
  BY DEF ZeroIsClosed
<1>5. ASSUME NEW v \in Sessions, Fine(v) PROVE Fine(WithNextCounter(v)) /\ Fine(Zeroized(v))
  <2>1. WithNextCounter(v).key = v.key /\ WithNextCounter(v).closed = v.closed
    BY DEF WithNextCounter, Sessions
  <2>2. Zeroized(v).closed
    BY ZeroizedFacts
  <2>3. QED
    BY <1>5, <2>1, <2>2
<1>6. ASSUME NEW sid \in Sids, NEW c \in Counters, Passes(sid, c)
      PROVE  /\ Admitted(sid, c) \in Sessions /\ Fine(Admitted(sid, c)) /\ Fine(Consumed(sid, c))
  BY <1>4, <1>6, ConsumedFacts DEF IInv
<1>7. ASSUME NEW c \in Clients, NEW ts \in 0 .. MaxTime, NEW sid \in Sids, CreateSession(c, ts, sid)
      PROVE  ZeroIsClosed'
  <2> DEFINE v == [Unborn EXCEPT !.owner = c, !.created = now, !.last = now]
  <2>1. sess' = [sess EXCEPT ![sid] = v] /\ v.key = "live"
    BY <1>7 DEF CreateSession, Unborn
  <2> HIDE DEF v
  <2>2. QED
    BY <1>3, <2>1
<1>8. ASSUME NEW sid \in Sids, NEW c \in Counters, Arrive(sid, c) PROVE ZeroIsClosed'
  <2>1. CASE RefuseBody(sid, c)
    BY <1>3, <1>6, <2>1 DEF RefuseBody
  <2>2. CASE AnswerAtOnce(sid, c) \/ ReloadClients(sid, c)
    BY <1>3, <1>5, <1>6, <2>2 DEF AnswerAtOnce, ReloadClients
  <2>3. CASE \E r \in Reqs : StartInference(r, sid, c)
    BY <1>3, <1>6, <2>3 DEF StartInference
  <2>4. ASSUME NEW target \in Sids, AdminTerminate(sid, c, target) PROVE ZeroIsClosed'
    <3> DEFINE a == Admitted(sid, c)
               mid == [sess EXCEPT ![sid] = a]
               after == Terminated(mid, target)
    <3>1. Passes(sid, c) /\ sess' = [after EXCEPT ![sid] = WithNextCounter(after[sid])]
      BY <2>4 DEF AdminTerminate
    <3>2. a \in Sessions /\ Fine(a)
      BY <1>6, <3>1
    <3> HIDE DEF a
    <3>3. mid \in [Sids -> Sessions] /\ \A o \in Sids : Fine(mid[o])
      BY <1>1, <1>4, <3>2
    <3> HIDE DEF mid
    <3>4. Zeroized(mid[target]) \in Sessions /\ Fine(Zeroized(mid[target]))
      BY <1>5, <3>3, ZeroizedFacts
    <3>5. after \in [Sids -> Sessions] /\ \A o \in Sids : Fine(after[o])
      <4>1. after = mid \/ after = [mid EXCEPT ![target] = Zeroized(mid[target])]
        BY DEF Terminated
      <4>2. QED
        BY <3>3, <3>4, <4>1
    <3> HIDE DEF after
    <3>6. Fine(WithNextCounter(after[sid]))
      BY <1>5, <3>5
    <3>7. QED
      BY <3>1, <3>5, <3>6 DEF ZeroIsClosed
  <2>5. QED
    BY <1>8, <2>1, <2>2, <2>3, <2>4 DEF Arrive
<1>9. ASSUME NEW r \in Reqs, StreamChunk(r) \/ Respond(r) PROVE ZeroIsClosed'
  <2>1. busy[r] \in Sids /\ sess' = [sess EXCEPT ![busy[r]] = WithNextCounter(sess[busy[r]])]
    BY <1>1, <1>9 DEF StreamChunk, Respond, Emit
  <2>2. QED
    BY <1>1, <1>3, <1>4, <1>5, <2>1
<1>10. ASSUME NEW sid \in Sids, DeleteSession(sid) PROVE ZeroIsClosed'
  <2>1. sess' = [sess EXCEPT ![sid] = Zeroized(sess[sid])]
    BY <1>10 DEF DeleteSession, Terminated
  <2>2. QED
    BY <1>1, <1>3, <1>4, <1>5, <2>1
<1>11. CASE \/ Tick \/ Reap \/ UNCHANGED vars
            \/ \E c \in Clients, s \in Standing : EditFile(c, s)
            \/ \E r \in Reqs : EndStream(r)
  BY <1>2, <1>11 DEF Tick, Reap, EditFile, EndStream, vars
<1>12. QED
  BY <1>7, <1>8, <1>9, <1>10, <1>11 DEF Next

(* Whatever a step seals, it seals with the key the session had before it:  *)
(* the goodbye of an administrator who ends its own session too.            *)
LEMMA SealsWithPresentKey ==
    ASSUME IInv, [Next]_vars
    PROVE  sealed' = sealed \/ \E sid \in Sids, n \in Nat : sealed' = Logged(sid, sess[sid].key, n)
<1>1. sess' \in [Sids -> Sessions] /\ \A r \in Reqs : busy[r] \in Sids \cup {NoSid}
  BY StepIInv DEF IInv, TypeOK
<1>2. \A sid \in Sids : sess'[sid].s2c \in Nat
  BY <1>1 DEF Sessions
<1>3. ASSUME NEW sid \in Sids, NEW c \in Counters, Arrive(sid, c)
      PROVE  sealed' = sealed \/ sealed' = Logged(sid, sess[sid].key, sess'[sid].s2c)
  <2>1. CASE RefuseBody(sid, c) \/ \E r \in Reqs : StartInference(r, sid, c)
    BY <2>1 DEF RefuseBody, StartInference
  <2>2. CASE AnswerAtOnce(sid, c) \/ ReloadClients(sid, c)
    BY <2>2 DEF AnswerAtOnce, ReloadClients
  <2>3. ASSUME NEW target \in Sids, AdminTerminate(sid, c, target)
        PROVE  sealed' = Logged(sid, sess[sid].key, sess'[sid].s2c)
    <3>1. GoodbyeKey(sid, target) = sess[sid].key
      <4>1. sess \in [Sids -> Sessions]
        BY DEF IInv, TypeOK
      <4>2. sid # target => Terminated(sess, target)[sid] = sess[sid]
        BY <4>1 DEF Terminated
      <4>3. QED
        BY <4>2 DEF GoodbyeKey
    <3>2. QED
      BY <2>3, <3>1 DEF AdminTerminate
  <2>4. QED
    BY <1>3, <2>1, <2>2, <2>3 DEF Arrive
<1>4. ASSUME NEW r \in Reqs, StreamChunk(r) \/ Respond(r)
      PROVE  busy[r] \in Sids /\ sealed' = Logged(busy[r], sess[busy[r]].key, sess'[busy[r]].s2c)
  BY <1>1, <1>4 DEF StreamChunk, Respond, Emit
<1>5. CASE \/ Tick \/ Reap \/ UNCHANGED vars
           \/ \E c \in Clients, s \in Standing : EditFile(c, s)
           \/ \E c \in Clients, ts \in 0 .. MaxTime, sid \in Sids : CreateSession(c, ts, sid)
           \/ \E r \in Reqs : EndStream(r)
           \/ \E sid \in Sids : DeleteSession(sid)
  BY <1>5 DEF Tick, Reap, EditFile, CreateSession, EndStream, DeleteSession, vars
<1>6. QED
  BY <1>2, <1>3, <1>4, <1>5 DEF Next

(* Only a session that was closed before seals with the zeroed key: no      *)
(* termination zeroes the key of its own answer (admin.py:154-171).         *)
THEOREM GoodbyeCanBeRead == Spec => GoodbyeIsReadable
<1> DEFINE Read(sid) == sealed'[sid]["zero"] # sealed[sid]["zero"] => sess[sid].closed
<1>1. Init => ZeroIsClosed
  BY DEF Init, ZeroIsClosed, Unborn
<1>2. IInv /\ ZeroIsClosed /\ [Next]_vars => ZeroIsClosed'
  BY KeyStep
<1>3. ASSUME IInv, ZeroIsClosed, [Next]_vars, NEW o \in Sids PROVE Read(o)
  <2>1. sealed \in [Sids -> [Keys -> [1 .. MaxSeals -> Nat]]] /\ sess[o].key \in Keys
    BY <1>3 DEF IInv, TypeOK, Sessions
  <2>2. CASE sealed' = sealed
    BY <2>2
  <2>3. ASSUME NEW sid \in Sids, NEW n \in Nat, sealed' = Logged(sid, sess[sid].key, n)
        PROVE  Read(o)
    <3>1. sid # o => sealed'[o] = sealed[o]
      BY <2>1, <2>3 DEF Logged
    <3>2. sid = o /\ sess[o].key # "zero" => sealed'[o]["zero"] = sealed[o]["zero"]
      BY <2>1, <2>3 DEF Logged, Keys
    <3>3. QED
      BY <1>3, <3>1, <3>2 DEF ZeroIsClosed
  <2>4. QED
    BY <1>3, <2>2, <2>3, SealsWithPresentKey
<1>4. IInv /\ ZeroIsClosed /\ [Next]_vars => [\A sid \in Sids : Read(sid)]_vars
  BY <1>3
<1>5. QED
  BY <1>1, <1>2, <1>4, InvariantHolds, PTL DEF Spec, GoodbyeIsReadable
=============================================================================
