----------------------- MODULE ClientTransportProofs ------------------------
(***************************************************************************)
(* The safety of ClientTransport for any number of threads, calls and      *)
(* sessions and any size of the replay check.                              *)
(***************************************************************************)
EXTENDS ClientTransport, FiniteSetTheorems, TLAPS

(* Sessions are opened one after the other. *)
OpenedInOrder ==
    /\ Opened \in 0 .. MaxSessions
    /\ \A s \in Sids : srv[s].state # "unborn" <=> s <= Opened

(* A call that has reached its session knows it; one that has not been      *)
(* answered has run nothing and has received nothing.                       *)
Reached == {"count", "send", "run", "answer"}
Unanswered == {"idle", "session", "handshake", "count", "send"}
Shape(c) ==
    /\ c.pc \in Reached => c.sid \in Sids
    /\ c.pc \in Unanswered => c.inbox = <<>> /\ c.ran = 0
    /\ c.pc # "idle" => c.result = "none"

(* UNKNOWN_SESSION says that nothing has run, and nothing is ever refused   *)
(* as a duplicate.                                                          *)
UnknownHasNotRun(c) ==
    /\ c.ran <= 1
    /\ c.result # "duplicate"
    /\ \A i \in 1 .. Len(c.inbox) : /\ c.inbox[i].kind = "unknown" => c.ran = 0
                                    /\ c.inbox[i].kind # "duplicate"

(* What the server has taken was counted before; what is under way was      *)
(* counted, has not been taken and is under way once.                       *)
CountedOnce ==
    /\ \A s \in Sids : \A n \in srv[s].taken : n <= sent[s]
    /\ \A t \in Threads : call[t].pc = "send" =>
          call[t].ctr <= sent[call[t].sid] /\ call[t].ctr \notin srv[call[t].sid].taken
    /\ \A t, u \in Threads :
          call[t].pc = "send" /\ call[u].pc = "send" /\ t # u /\ call[t].sid = call[u].sid
             => call[t].ctr # call[u].ctr

(* The second attempt of a request uses a session that was opened after the *)
(* request began.                                                           *)
Young(c, session, opened) ==
    /\ c.pc # "idle" => c.since <= opened
    /\ c.pc # "idle" /\ ~c.stream /\ ~c.retry =>
          /\ session = 0 \/ session > c.since
          /\ c.pc \in Reached => c.sid > c.since

CallInv == \A t \in Threads : /\ Shape(call[t]) /\ UnknownHasNotRun(call[t])
                              /\ Young(call[t], cur, Opened)

IInv == TypeOK /\ OpenedInOrder /\ CallInv /\ CountedOnce

(* Every call may open two sessions, a stream one: what was opened, what is *)
(* being asked for and the retries that are left never exceed that.         *)
Asks(c) == c.pc \in {"session", "handshake"}
Asking == {t \in Threads : Asks(call[t])}
Retrying == {t \in Threads : call[t].retry}
Weight(c) == (IF Asks(c) THEN 1 ELSE 0) + (IF c.retry THEN 1 ELSE 0)
Budget == /\ IsFiniteSet(Asking) /\ IsFiniteSet(Retrying)
          /\ Opened + Cardinality(Asking) + Cardinality(Retrying) <= 2 * begun

-----------------------------------------------------------------------------
(* The sessions that are not unborn are 1 .. k, so there are k of them.     *)
LEMMA CountOfPrefix ==
    ASSUME NEW k \in 0 .. MaxSessions, NEW S, S = {s \in Sids : s <= k}
    PROVE  Cardinality(S) = k
<1>1. MaxSessions \in Nat
  BY TransportAssumption DEF MaxSessions
<1>2. S = 1 .. k
  BY <1>1 DEF Sids
<1>3. k \in Nat /\ k \in Int /\ 1 \in Int
  BY <1>1
<1>4. Cardinality(1 .. k) = IF 1 > k THEN 0 ELSE k - 1 + 1
  <2> HIDE <1>1, <1>2
  <2> QED BY <1>3, FS_Interval, Zenon
<1> DEFINE n == Cardinality(S)
<1>5. n = IF 1 > k THEN 0 ELSE k - 1 + 1
  BY <1>2, <1>4, Zenon
<1> HIDE DEF n
<1>6. n = k
  BY <1>1, <1>3, <1>5
<1>7. QED
  BY <1>6 DEF n

(* How far the sessions have come decides how many are open. *)
LEMMA OpenedIs ==
    ASSUME NEW k \in 0 .. MaxSessions, \A s \in Sids : srv[s].state # "unborn" <=> s <= k
    PROVE  Opened = k
BY CountOfPrefix DEF Opened

(* The same after a step. *)
LEMMA OpenedIsNext ==
    ASSUME NEW k \in 0 .. MaxSessions, \A s \in Sids : srv'[s].state # "unborn" <=> s <= k
    PROVE  Opened' = k
BY CountOfPrefix DEF Opened

(* Before the first call nothing has been opened. *)
LEMMA InitIInv == Init => IInv
<1> SUFFICES ASSUME Init PROVE IInv
  OBVIOUS
<1>1. MaxSessions \in Nat /\ MaxCalls \in Nat
  BY TransportAssumption DEF MaxSessions
<1>2. NoCall \in Calls
  BY DEF NoCall, Calls, Results
<1>3. TypeOK
  BY <1>1, <1>2 DEF Init, TypeOK, ServerSessions, Replays
<1>4. Opened = 0
  BY <1>1, OpenedIs DEF Init, Sids
<1>5. OpenedInOrder
  BY <1>1, <1>4 DEF Init, OpenedInOrder, Sids
<1>6. CallInv /\ CountedOnce
  BY <1>1 DEF Init, CallInv, CountedOnce, NoCall, Shape, UnknownHasNotRun, Young, Reached
<1>7. QED
  BY <1>3, <1>5, <1>6 DEF IInv

-----------------------------------------------------------------------------
(* Steps that open no session leave the count alone. *)
LEMMA SameOpened ==
    ASSUME OpenedInOrder,
           \A s \in Sids : srv'[s].state = "unborn" <=> srv[s].state = "unborn"
    PROVE  Opened' = Opened /\ OpenedInOrder'
<1>1. Opened' = Opened
  BY DEF Opened
<1>2. QED
  BY <1>1 DEF OpenedInOrder

(* A step that opens the next session counts it. *)
LEMMA NextOpened ==
    ASSUME TypeOK, OpenedInOrder, Opened < MaxSessions, srv' = Opens(Opened + 1)
    PROVE  /\ Opened' = Opened + 1 /\ OpenedInOrder'
           /\ Opened + 1 \in Sids /\ srv' \in [Sids -> ServerSessions]
           /\ \A s \in Sids : srv'[s].taken = srv[s].taken
<1> DEFINE o == Opened
<1>1. o \in 0 .. MaxSessions /\ MaxSessions \in Nat
  BY TransportAssumption DEF OpenedInOrder, MaxSessions
<1> HIDE DEF o
<1>2. o + 1 \in Sids /\ o + 1 \in 0 .. MaxSessions
  BY <1>1 DEF Sids, o
<1>3. srv' = [srv EXCEPT ![o + 1].state = "open"] /\ srv \in [Sids -> ServerSessions]
  BY DEF Opens, TypeOK, o
<1>4. [srv[o + 1] EXCEPT !.state = "open"] \in ServerSessions
  BY <1>2, <1>3 DEF ServerSessions
<1>5. srv' = [srv EXCEPT ![o + 1] = [srv[o + 1] EXCEPT !.state = "open"]]
  BY <1>3
<1>6. srv' \in [Sids -> ServerSessions]
  BY <1>2, <1>3, <1>4, <1>5
<1>7. \A s \in Sids : srv'[s].taken = srv[s].taken
  BY <1>2, <1>3, <1>5 DEF ServerSessions
<1>8. ASSUME NEW s \in Sids PROVE srv'[s].state # "unborn" <=> s <= o + 1
  <2>1. CASE s = o + 1
    BY <1>1, <1>2, <1>3, <1>5, <2>1 DEF ServerSessions
  <2>2. CASE s # o + 1
    <3>1. srv'[s] = srv[s]
      BY <1>2, <1>3, <1>5, <2>2
    <3>2. s \in Int
      BY <1>1 DEF Sids
    <3>3. QED
      BY <1>1, <2>2, <3>1, <3>2 DEF OpenedInOrder, o
  <2>3. QED
    BY <2>1, <2>2
<1>9. Opened' = o + 1
  BY <1>2, <1>8, OpenedIsNext
<1>10. QED
  BY <1>2, <1>6, <1>7, <1>8, <1>9 DEF OpenedInOrder, o

(* One call changes, and is not about to be sent with a new counter; the    *)
(* session in use is dropped, kept or new.                                  *)
LEMMA CallStep ==
    ASSUME IInv, NEW t \in Threads, NEW c \in Calls, Becomes(t, c),
           Shape(c), UnknownHasNotRun(c), Young(c, cur', Opened'),
           cur' \in {0, cur} \/ cur' > Opened,
           cur' \in Nat, Opened' \in Nat, Opened' >= Opened,
           c.pc # "send", sent' = sent,
           \A s \in Sids : srv'[s].taken = srv[s].taken
    PROVE  call' \in [Threads -> Calls] /\ CallInv' /\ CountedOnce'
<1>1. call \in [Threads -> Calls] /\ call' = [call EXCEPT ![t] = c]
  BY DEF IInv, TypeOK, Becomes
<1>2. call'[t] = c /\ \A u \in Threads : u # t => call'[u] = call[u]
  BY <1>1
<1>3. call' \in [Threads -> Calls]
  BY <1>1
<1>4. ASSUME NEW u \in Threads, u # t
      PROVE  Young(call[u], cur', Opened')
  <2>1. Young(call[u], cur, Opened) /\ call[u].since \in Nat /\ Opened \in Nat
    BY <1>1, TransportAssumption DEF IInv, CallInv, Calls, OpenedInOrder, MaxSessions
  <2>2. QED
    BY <2>1 DEF Young
<1>5. CallInv'
  BY <1>2, <1>4 DEF IInv, CallInv
<1>6. CountedOnce'
  <2>1. \A u \in Threads : call'[u].pc = "send" => u # t /\ call'[u] = call[u]
    BY <1>2
  <2>2. \A u \in Threads : call[u].pc = "send" => call[u].sid \in Sids
    BY DEF IInv, CallInv, Shape, Reached
  <2>3. QED
    BY <2>1, <2>2 DEF IInv, CountedOnce
<1>7. QED
  BY <1>3, <1>5, <1>6

(* A step of a call that leaves the sessions alone. *)
LEMMA LocalStep ==
    ASSUME IInv, NEW t \in Threads, NEW c \in Calls, Becomes(t, c),
           Shape(c), UnknownHasNotRun(c), Young(c, cur, Opened), c.pc # "send",
           lock' \in Threads \cup {NoThread}, seen' \in [Replays -> SUBSET Nat],
           begun' \in 0 .. MaxCalls, UNCHANGED <<cur, rep, sent, srv>>
    PROVE  IInv'
<1>1. Opened' = Opened /\ OpenedInOrder'
  BY SameOpened DEF IInv
<1>2. Opened \in Nat /\ cur \in Nat
  BY TransportAssumption DEF IInv, TypeOK, OpenedInOrder, MaxSessions, Sids
<1>3. Young(c, cur', Opened')
  BY <1>1
<1>4. call' \in [Threads -> Calls] /\ CallInv' /\ CountedOnce'
  BY <1>1, <1>2, <1>3, CallStep
<1>5. TypeOK'
  BY <1>4 DEF IInv, TypeOK
<1>6. QED
  BY <1>1, <1>4, <1>5 DEF IInv

(* What is known of a call *)
LEMMA CallFacts ==
    ASSUME IInv, NEW t \in Threads
    PROVE  /\ call[t] \in Calls /\ Shape(call[t]) /\ UnknownHasNotRun(call[t])
           /\ Young(call[t], cur, Opened)
           /\ Opened \in Nat /\ cur \in Nat
           /\ lock \in Threads \cup {NoThread} /\ seen \in [Replays -> SUBSET Nat]
           /\ begun \in 0 .. MaxCalls
BY TransportAssumption DEF IInv, CallInv, TypeOK, OpenedInOrder, MaxSessions, Sids

(* A call that is over is in order whatever the sessions are. *)
LEMMA EndedFacts ==
    ASSUME NEW r \in Results, r # "duplicate"
    PROVE  /\ Ended(r) \in Calls /\ Shape(Ended(r)) /\ UnknownHasNotRun(Ended(r))
           /\ Ended(r).pc = "idle"
           /\ \A session, opened : Young(Ended(r), session, opened)
<1> DEFINE c == Ended(r)
<1>1. /\ c.pc = "idle" /\ c.stream = FALSE /\ c.retry = FALSE /\ c.sid = 0 /\ c.ctr = 0
      /\ c.inbox = <<>> /\ c.ran = 0 /\ c.since = 0 /\ c.result = r
  BY DEF Ended, NoCall
<1>2. <<>> \in Seq(Answers) /\ Len(<<>>) = 0
  OBVIOUS
<1>3. c \in Calls
  BY <1>2 DEF Ended, NoCall, Calls
<1> HIDE DEF c
<1>4. Shape(c) /\ UnknownHasNotRun(c) /\ \A session, opened : Young(c, session, opened)
  BY <1>1, <1>2 DEF Shape, UnknownHasNotRun, Young, Reached, Unanswered
<1>5. QED
  BY <1>1, <1>3, <1>4 DEF c

(* Something has come for a call. *)
LEMMA GotFacts ==
    ASSUME NEW c \in Calls, Shape(c), UnknownHasNotRun(c), c.pc \in {"send", "run"},
           NEW pc \in {"answer", "run"}, NEW n \in Nat,
           NEW kind \in {"sealed", "zeroed", "unknown", "stale", "done"}, kind = "unknown" => c.ran = 0
    PROVE  /\ Got(c, pc, kind, n) \in Calls
           /\ Shape(Got(c, pc, kind, n)) /\ UnknownHasNotRun(Got(c, pc, kind, n))
           /\ Got(c, pc, kind, n).pc = pc
           /\ \A session, opened : Young(c, session, opened) =>
                                       Young(Got(c, pc, kind, n), session, opened)
<1> DEFINE a == [kind |-> kind, n |-> n]
           g == [c EXCEPT !.pc = pc, !.inbox = Append(c.inbox, a)]
<1>1. a \in Answers /\ c.inbox \in Seq(Answers)
  BY DEF Answers, Calls
<1>2. Append(c.inbox, a) \in Seq(Answers)
  BY <1>1
<1>3. g \in Calls
  BY <1>2 DEF Calls
<1>4. /\ g.pc = pc /\ g.inbox = Append(c.inbox, a)
      /\ g.sid = c.sid /\ g.ran = c.ran /\ g.result = c.result
      /\ g.since = c.since /\ g.stream = c.stream /\ g.retry = c.retry
  BY DEF Calls
<1>5. ASSUME NEW i \in 1 .. Len(g.inbox)
      PROVE  (g.inbox[i].kind = "unknown" => g.ran = 0) /\ g.inbox[i].kind # "duplicate"
  <2>1. CASE i = Len(c.inbox) + 1
    BY <1>1, <1>4, <2>1
  <2>2. CASE i # Len(c.inbox) + 1
    BY <1>1, <1>4, <2>2 DEF UnknownHasNotRun
  <2>3. QED
    BY <2>1, <2>2
<1>6. Got(c, pc, kind, n) = g
  BY DEF Got
<1> HIDE DEF g
<1>7. QED
  BY <1>3, <1>4, <1>5, <1>6 DEF Shape, UnknownHasNotRun, Young, Reached, Unanswered

-----------------------------------------------------------------------------
(* Every action keeps the invariant: the calls on their way to a session.   *)
LEMMA SessionSteps ==
    ASSUME IInv, NEW t \in Threads,
           (\E stream \in BOOLEAN : Begin(t, stream)) \/ UseSession(t)
              \/ BeginHandshake(t) \/ Rehandshake(t)
    PROVE  IInv'
<1> USE CallFacts
<1>1. ASSUME NEW stream \in BOOLEAN, Begin(t, stream) PROVE IInv'
  <2> DEFINE c == [NoCall EXCEPT !.pc = "session", !.stream = stream,
                                 !.retry = ~stream, !.since = Opened]
  <2>1. Opened \in Nat /\ <<>> \in Seq(Answers) /\ Len(<<>>) = 0
    OBVIOUS
  <2>2. /\ c.pc = "session" /\ c.stream = stream /\ c.retry = ~stream /\ c.sid = 0 /\ c.ctr = 0
        /\ c.inbox = <<>> /\ c.ran = 0 /\ c.since = Opened /\ c.result = "none"
    BY DEF NoCall
  <2>3. c \in Calls
    BY <2>1 DEF Calls, NoCall, Results
  <2>4. Shape(c) /\ UnknownHasNotRun(c)
    BY <2>1, <2>2 DEF Shape, UnknownHasNotRun, Reached, Unanswered
  <2>5. Young(c, cur, Opened)
    <3> HIDE DEF c
    <3>1. c.stream \/ c.retry
      BY <2>2
    <3>2. QED
      BY <2>1, <2>2, <3>1 DEF Young
  <2>6. begun' \in 0 .. MaxCalls
    <3>1. begun \in 0 .. MaxCalls /\ begun < MaxCalls /\ begun' = begun + 1
      BY <1>1 DEF Begin
    <3>2. QED
      BY <3>1, TransportAssumption
  <2>7. QED
    <3> HIDE DEF c
    <3>1. Becomes(t, c) /\ UNCHANGED <<lock, cur, rep, seen, sent, srv>>
      BY <1>1 DEF Begin, c
    <3>2. QED
      BY <2>2, <2>3, <2>4, <2>5, <2>6, <3>1, LocalStep
<1>2. CASE UseSession(t)
  <2> DEFINE c == [call[t] EXCEPT !.pc = "count", !.sid = cur]
  <2>1. cur \in Sids
    BY <1>2 DEF UseSession, IInv, TypeOK
  <2>2. c \in Calls /\ c.pc = "count" /\ c.sid = cur /\ c.since = call[t].since
        /\ c.ran = call[t].ran /\ c.inbox = call[t].inbox /\ c.result = call[t].result
        /\ c.stream = call[t].stream /\ c.retry = call[t].retry /\ call[t].pc = "session"
    BY <1>2, <2>1 DEF UseSession, Calls
  <2>3. Shape(c) /\ UnknownHasNotRun(c) /\ Young(c, cur, Opened)
    BY <1>2, <2>1, <2>2 DEF UseSession, Shape, UnknownHasNotRun, Young, Reached, Unanswered
  <2>4. QED
    BY <1>2, <2>2, <2>3, LocalStep DEF UseSession
<1>3. CASE BeginHandshake(t)
  <2> DEFINE c == [call[t] EXCEPT !.pc = "handshake"]
  <2>1. c \in Calls /\ c.pc = "handshake" /\ c.since = call[t].since
        /\ c.ran = call[t].ran /\ c.inbox = call[t].inbox /\ c.result = call[t].result
        /\ c.stream = call[t].stream /\ c.retry = call[t].retry /\ call[t].pc = "session"
    BY <1>3 DEF BeginHandshake, Calls
  <2>2. Shape(c) /\ UnknownHasNotRun(c) /\ Young(c, cur, Opened)
    BY <2>1 DEF Shape, UnknownHasNotRun, Young, Reached, Unanswered
  <2>3. QED
    BY <1>3, <2>1, <2>2, LocalStep DEF BeginHandshake
<1>4. CASE Rehandshake(t)
  <2> DEFINE c == [call[t] EXCEPT !.pc = "session", !.retry = FALSE, !.inbox = <<>>]
  <2>1. Becomes(t, c) /\ cur' = 0 /\ lock' = NoThread /\ UNCHANGED <<rep, seen, sent, begun, srv>>
    BY <1>4 DEF Rehandshake, RetryOnce, SessionDropped, LockAfterDrop
  <2>2. call[t].inbox # <<>> /\ Head(call[t].inbox).kind = "unknown" /\ call[t].inbox \in Seq(Answers)
        /\ call[t].pc # "idle"
    BY <1>4 DEF Rehandshake, Retriable, Arrived, First, Calls
  <2>3. call[t].ran = 0
    BY <2>2 DEF UnknownHasNotRun
  <2>4. c \in Calls /\ c.pc = "session" /\ c.since = call[t].since
        /\ c.ran = call[t].ran /\ c.inbox = <<>> /\ c.result = call[t].result
        /\ c.stream = call[t].stream /\ c.retry = FALSE
    <3>1. <<>> \in Seq(Answers)
      OBVIOUS
    <3>2. QED
      BY <3>1 DEF Calls
  <2>5. Opened' = Opened /\ OpenedInOrder'
    BY <2>1, SameOpened DEF IInv
  <2>6. Shape(c) /\ UnknownHasNotRun(c) /\ Young(c, cur', Opened')
    BY <2>1, <2>2, <2>3, <2>4, <2>5 DEF Shape, UnknownHasNotRun, Young, Reached, Unanswered
  <2>7. call' \in [Threads -> Calls] /\ CallInv' /\ CountedOnce'
    <3> HIDE DEF c
    <3> QED BY <2>1, <2>4, <2>5, <2>6, CallStep
  <2>8. TypeOK'
    BY <2>1, <2>7 DEF IInv, TypeOK
  <2>9. QED
    BY <2>5, <2>7, <2>8 DEF IInv
<1>5. QED
  BY <1>1, <1>2, <1>3, <1>4

(* A handshake under way has not used up what its call may open. *)
LEMMA HandshakeHasRoom ==
    ASSUME IInv, Budget, NEW t \in Threads, call[t].pc = "handshake"
    PROVE  Opened < MaxSessions
<1>1. IsFiniteSet(Asking) /\ IsFiniteSet(Retrying) /\ t \in Asking
  BY DEF Budget, Asking, Asks
<1>2. Cardinality(Asking) \in Nat /\ Cardinality(Retrying) \in Nat
  BY <1>1, FS_CardinalityType
<1>3. Cardinality(Asking) # 0
  BY <1>1, FS_EmptySet
<1> DEFINE a == Cardinality(Asking)
           r == Cardinality(Retrying)
<1>4. /\ a \in Nat /\ a # 0 /\ r \in Nat /\ Opened + a + r <= 2 * begun
      /\ Opened \in Nat /\ begun \in Nat /\ begun <= MaxCalls
  BY <1>2, <1>3, TransportAssumption
     DEF Budget, IInv, TypeOK, OpenedInOrder, MaxSessions
<1> HIDE DEF a, r
<1>5. QED
  BY <1>4, TransportAssumption DEF MaxSessions

(* The end of a handshake: a session more, which the call goes on with, or  *)
(* an exception.                                                            *)
LEMMA HandshakeSteps ==
    ASSUME IInv, Budget, NEW t \in Threads, HandshakeDone(t) \/ HandshakeFails(t)
    PROVE  IInv'
<1> USE CallFacts
<1>0. Opened < MaxSessions
  BY HandshakeHasRoom DEF HandshakeDone, HandshakeFails
<1>1. CASE HandshakeDone(t)
  <2> DEFINE o == Opened
             c == [call[t] EXCEPT !.pc = "count", !.sid = o + 1]
  <2>1. /\ call[t].pc = "handshake" /\ o < MaxSessions /\ srv' = Opens(Opened + 1)
        /\ rep' = o + 1 /\ cur' = o + 1 /\ lock' = NoThread /\ Becomes(t, c)
        /\ UNCHANGED <<seen, sent, begun>>
    BY <1>0, <1>1 DEF HandshakeDone
  <2>2. /\ Opened' = o + 1 /\ OpenedInOrder' /\ o + 1 \in Sids
        /\ srv' \in [Sids -> ServerSessions]
        /\ \A s \in Sids : srv'[s].taken = srv[s].taken
    BY <2>1, NextOpened DEF IInv
  <2>3. o \in Nat
    OBVIOUS
  <2> HIDE DEF o
  <2>4. c \in Calls /\ c.pc = "count" /\ c.sid = o + 1 /\ c.since = call[t].since
        /\ c.ran = call[t].ran /\ c.inbox = call[t].inbox /\ c.result = call[t].result
        /\ c.stream = call[t].stream /\ c.retry = call[t].retry
    BY <2>2 DEF Calls
  <2> HIDE DEF c
  <2>5. Shape(c) /\ UnknownHasNotRun(c)
    BY <2>1, <2>2, <2>4 DEF Shape, UnknownHasNotRun, Reached, Unanswered
  <2>6. Young(c, cur', Opened')
    <3>1. call[t].since \in Nat /\ call[t].since <= o
      BY <2>1 DEF Young, Calls, o
    <3>2. QED
      BY <2>1, <2>2, <2>3, <2>4, <3>1 DEF Young
  <2>7. cur' \in Nat /\ Opened' \in Nat /\ Opened' >= Opened /\ cur' > Opened
    BY <2>1, <2>2, <2>3 DEF o
  <2>8. call' \in [Threads -> Calls] /\ CallInv' /\ CountedOnce'
    BY <2>1, <2>2, <2>4, <2>5, <2>6, <2>7, CallStep
  <2>9. TypeOK'
    BY <2>1, <2>2, <2>8 DEF IInv, TypeOK, Replays
  <2>10. QED
    BY <2>2, <2>8, <2>9 DEF IInv
<1>2. CASE HandshakeFails(t)
  <2>1. Becomes(t, Ended("failed")) /\ lock' = NoThread /\ UNCHANGED <<cur, rep, seen, sent, begun>>
    BY <1>2 DEF HandshakeFails, Ends
  <2>2. "failed" \in Results
    BY DEF Results
  <2>3. /\ Opened' \in Nat /\ Opened' >= Opened /\ OpenedInOrder'
        /\ srv' \in [Sids -> ServerSessions]
        /\ \A s \in Sids : srv'[s].taken = srv[s].taken
    <3>1. CASE srv' = srv
      BY <3>1, SameOpened DEF IInv, TypeOK
    <3>2. CASE srv' = Opens(Opened + 1)
      <4>1. Opened \in Nat
        OBVIOUS
      <4>2. QED
        BY <1>0, <3>2, <4>1, NextOpened DEF IInv
    <3>3. QED
      BY <1>2, <3>1, <3>2 DEF HandshakeFails
  <2>4. call' \in [Threads -> Calls] /\ CallInv' /\ CountedOnce'
    BY <2>1, <2>2, <2>3, CallStep, EndedFacts
  <2>5. TypeOK'
    BY <2>1, <2>3, <2>4 DEF IInv, TypeOK
  <2>6. QED
    BY <2>3, <2>4, <2>5 DEF IInv
<1>3. QED
  BY <1>1, <1>2

(* The number a call takes is above all that were taken before. *)
LEMMA CountStep ==
    ASSUME IInv, NEW t \in Threads, Count(t)
    PROVE  IInv'
<1> USE CallFacts
<1> DEFINE s == call[t].sid
           c == [call[t] EXCEPT !.pc = "send", !.ctr = sent[s] + 1]
<1>1. /\ call[t].pc = "count" /\ Becomes(t, c) /\ sent' = [sent EXCEPT ![s] = @ + 1]
      /\ UNCHANGED <<lock, cur, rep, seen, begun, srv>>
  BY DEF Count, Seal
<1>2. s \in Sids
  BY <1>1 DEF Shape, Reached
<1>3. sent \in [Sids -> Nat] /\ sent[s] + 1 \in Nat
  BY <1>2 DEF IInv, TypeOK
<1> HIDE DEF s
<1>4. c \in Calls /\ c.pc = "send" /\ c.sid = s /\ c.since = call[t].since
      /\ c.ran = call[t].ran /\ c.inbox = call[t].inbox /\ c.result = call[t].result
      /\ c.stream = call[t].stream /\ c.retry = call[t].retry /\ c.ctr = sent[s] + 1
  BY <1>3 DEF Calls, s
<1> HIDE DEF c
<1>5. Opened' = Opened /\ OpenedInOrder'
  BY <1>1, SameOpened DEF IInv
<1>6. Shape(c) /\ UnknownHasNotRun(c) /\ Young(c, cur', Opened')
  BY <1>1, <1>2, <1>4, <1>5 DEF Shape, UnknownHasNotRun, Young, Reached, Unanswered, s
<1>7. call \in [Threads -> Calls] /\ call' = [call EXCEPT ![t] = c]
  BY <1>1 DEF IInv, TypeOK, Becomes
<1>8. call' \in [Threads -> Calls] /\ call'[t] = c /\ \A u \in Threads : u # t => call'[u] = call[u]
  BY <1>4, <1>7
<1>9. sent' \in [Sids -> Nat] /\ \A r \in Sids : sent'[r] >= sent[r] /\ sent'[s] = sent[s] + 1
  BY <1>1, <1>2, <1>3
<1>10. CallInv'
  BY <1>1, <1>5, <1>6, <1>8 DEF IInv, CallInv
<1>11. CountedOnce'
  <2>1. \A u \in Threads : call[u].pc = "send" => call[u].sid \in Sids /\ call[u].ctr \in Nat
    BY <1>7 DEF IInv, CallInv, Shape, Reached, Calls
  <2>2. \A r \in Sids : srv[r].taken \subseteq Nat /\ sent[r] \in Nat /\ sent'[r] \in Nat
    BY <1>3, <1>9 DEF IInv, TypeOK, ServerSessions
  <2>3. \A r \in Sids : \A n \in srv'[r].taken : n <= sent'[r]
    BY <1>1, <1>9, <2>2 DEF IInv, CountedOnce
  <2>4. ASSUME NEW u \in Threads, call'[u].pc = "send"
        PROVE  call'[u].ctr <= sent'[call'[u].sid] /\ call'[u].ctr \notin srv'[call'[u].sid].taken
    <3>1. CASE u = t
      BY <1>1, <1>2, <1>4, <1>8, <1>9, <2>2, <3>1 DEF IInv, CountedOnce
    <3>2. CASE u # t
      BY <1>1, <1>8, <1>9, <2>1, <2>2, <2>4, <3>2 DEF IInv, CountedOnce
    <3>3. QED
      BY <3>1, <3>2
  <2>5. ASSUME NEW u \in Threads, call[u].pc = "send", call[u].sid = s
        PROVE  call[u].ctr # sent[s] + 1
    BY <1>2, <2>1, <2>2, <2>5 DEF IInv, CountedOnce
  <2>6. \A u, v \in Threads :
           call'[u].pc = "send" /\ call'[v].pc = "send" /\ u # v /\ call'[u].sid = call'[v].sid
              => call'[u].ctr # call'[v].ctr
    BY <1>4, <1>8, <2>5 DEF IInv, CountedOnce
  <2>7. QED
    BY <2>3, <2>4, <2>6 DEF CountedOnce
<1>12. TypeOK'
  BY <1>1, <1>8, <1>9 DEF IInv, TypeOK
<1>13. QED
  BY <1>5, <1>10, <1>11, <1>12 DEF IInv

(* The server takes a number that is under way: no other call sends it.     *)
LEMMA RunStep ==
    ASSUME IInv, NEW t \in Threads, ServerRuns(t)
    PROVE  IInv'
<1> USE CallFacts
<1> DEFINE s == call[t].sid
           n == call[t].ctr
           c == [call[t] EXCEPT !.pc = "run", !.ran = call[t].ran + 1]
           r == [srv[s] EXCEPT !.taken = srv[s].taken \cup {n}]
<1>1. /\ call[t].pc = "send" /\ Becomes(t, c) /\ srv' = [srv EXCEPT ![s] = r]
      /\ UNCHANGED <<lock, cur, rep, seen, sent, begun>>
  BY DEF ServerRuns
<1>2. s \in Sids /\ n \in Nat /\ call[t].ran = 0 /\ call[t].inbox = <<>>
  BY <1>1 DEF Shape, Reached, Unanswered, Calls
<1> HIDE DEF s, n
<1>3. c \in Calls /\ c.pc = "run" /\ c.sid = s /\ c.since = call[t].since
      /\ c.ran = 1 /\ c.inbox = <<>> /\ c.result = call[t].result
      /\ c.stream = call[t].stream /\ c.retry = call[t].retry
  <2>1. call[t].ran + 1 \in Nat /\ call[t].ran + 1 = 1
    BY <1>2
  <2>2. c \in Calls
    BY <2>1 DEF Calls
  <2>3. QED
    BY <1>2, <2>1, <2>2 DEF Calls, s
<1>4. srv \in [Sids -> ServerSessions] /\ r \in ServerSessions
      /\ r.state = srv[s].state /\ r.taken = srv[s].taken \cup {n}
  BY <1>2 DEF IInv, TypeOK, ServerSessions
<1> HIDE DEF c, r
<1>5. srv' \in [Sids -> ServerSessions] /\ srv'[s] = r /\ \A o \in Sids : o # s => srv'[o] = srv[o]
  BY <1>1, <1>2, <1>4
<1>6. Opened' = Opened /\ OpenedInOrder'
  BY <1>4, <1>5, SameOpened DEF IInv
<1>7. Shape(c) /\ UnknownHasNotRun(c) /\ Young(c, cur', Opened')
  <2>1. Len(<<>>) = 0
    OBVIOUS
  <2>2. QED
    BY <1>1, <1>2, <1>3, <1>6, <2>1 DEF Shape, UnknownHasNotRun, Young, Reached, Unanswered, s
<1>8. call \in [Threads -> Calls] /\ call' = [call EXCEPT ![t] = c]
  BY <1>1 DEF IInv, TypeOK, Becomes
<1>9. call' \in [Threads -> Calls] /\ call'[t] = c /\ \A u \in Threads : u # t => call'[u] = call[u]
  BY <1>3, <1>8
<1>10. CallInv'
  BY <1>1, <1>6, <1>7, <1>9 DEF IInv, CallInv
<1>11. CountedOnce'
  <2>1. n <= sent[s]
    BY <1>1 DEF IInv, CountedOnce, n, s
  <2>2. \A o \in Sids : \A m \in srv'[o].taken : m <= sent'[o]
    BY <1>1, <1>4, <1>5, <2>1 DEF IInv, CountedOnce
  <2>3. \A u \in Threads : call'[u].pc = "send" => u # t /\ call'[u] = call[u] /\ call[u].sid \in Sids
    BY <1>3, <1>9 DEF IInv, CallInv, Shape, Reached
  <2>4. \A u \in Threads : call[u].pc = "send" /\ u # t /\ call[u].sid = s => call[u].ctr # n
    BY <1>1 DEF IInv, CountedOnce, n, s
  <2>5. ASSUME NEW u \in Threads, call'[u].pc = "send"
        PROVE  call'[u].ctr <= sent'[call'[u].sid] /\ call'[u].ctr \notin srv'[call'[u].sid].taken
    <3>1. u # t /\ call'[u] = call[u] /\ call[u].sid \in Sids
      BY <2>3, <2>5
    <3>2. call[u].ctr <= sent[call[u].sid] /\ call[u].ctr \notin srv[call[u].sid].taken
      BY <2>5, <3>1 DEF IInv, CountedOnce
    <3>3. QED
      BY <1>1, <1>4, <1>5, <2>4, <2>5, <3>1, <3>2
  <2>6. \A u, v \in Threads :
           call'[u].pc = "send" /\ call'[v].pc = "send" /\ u # v /\ call'[u].sid = call'[v].sid
              => call'[u].ctr # call'[v].ctr
    BY <2>3 DEF IInv, CountedOnce
  <2>7. QED
    BY <2>2, <2>5, <2>6 DEF CountedOnce
<1>12. TypeOK'
  BY <1>1, <1>5, <1>9 DEF IInv, TypeOK
<1>13. QED
  BY <1>6, <1>10, <1>11, <1>12 DEF IInv

(* Numbering an answer leaves the rest of the server's sessions alone.      *)
LEMMA SealedFacts ==
    ASSUME IInv, NEW s \in Sids, srv' = Sealed(s)
    PROVE  /\ srv' \in [Sids -> ServerSessions]
           /\ \A o \in Sids : srv'[o].taken = srv[o].taken /\ srv'[o].state = srv[o].state
           /\ Opened' = Opened /\ OpenedInOrder'
<1> DEFINE r == [srv[s] EXCEPT !.s2c = srv[s].s2c + 1]
<1>1. srv \in [Sids -> ServerSessions] /\ srv' = [srv EXCEPT ![s] = r]
  BY DEF IInv, TypeOK, Sealed
<1>2. r \in ServerSessions /\ r.taken = srv[s].taken /\ r.state = srv[s].state
  BY <1>1 DEF ServerSessions
<1> HIDE DEF r
<1>3. /\ srv' \in [Sids -> ServerSessions]
      /\ \A o \in Sids : srv'[o].taken = srv[o].taken /\ srv'[o].state = srv[o].state
  BY <1>1, <1>2
<1>4. QED
  BY <1>3, SameOpened DEF IInv

(* A call changes while its session seals, or does not. *)
LEMMA SealStep ==
    ASSUME IInv, NEW t \in Threads, NEW c \in Calls, Becomes(t, c),
           Shape(c), UnknownHasNotRun(c), Young(c, cur, Opened), c.pc # "send",
           NEW s \in Sids, srv' = srv \/ srv' = Sealed(s),
           UNCHANGED <<lock, cur, rep, seen, sent, begun>>
    PROVE  IInv'
<1>1. CASE srv' = srv
  BY <1>1, LocalStep, CallFacts
<1>2. CASE srv' = Sealed(s)
  <2>1. /\ srv' \in [Sids -> ServerSessions] /\ Opened' = Opened /\ OpenedInOrder'
        /\ \A o \in Sids : srv'[o].taken = srv[o].taken
    BY <1>2, SealedFacts
  <2>2. Opened' \in Nat /\ Opened' >= Opened /\ cur' \in Nat /\ Young(c, cur', Opened')
    BY <2>1, CallFacts
  <2>3. call' \in [Threads -> Calls] /\ CallInv' /\ CountedOnce'
    BY <2>1, <2>2, CallStep
  <2>4. TypeOK'
    BY <2>1, <2>3 DEF IInv, TypeOK
  <2>5. QED
    BY <2>1, <2>3, <2>4 DEF IInv
<1>3. QED
  BY <1>1, <1>2

(* What the server and the network do for a call that has been sent. *)
LEMMA ServerSteps ==
    ASSUME IInv, NEW t \in Threads,
           ServerRefuses(t) \/ ServerRuns(t) \/ ServerSeals(t) \/ StreamDone(t) \/ NetworkFails(t)
    PROVE  IInv'
<1> USE CallFacts
<1>1. CASE ServerRefuses(t)
  <2>1. call[t].pc = "send" /\ call[t].ran = 0 /\ call[t].ctr \notin srv[call[t].sid].taken
    BY <1>1 DEF ServerRefuses, Shape, Unanswered, IInv, CountedOnce
  <2>0. PICK kind \in {"unknown", "stale"} : Becomes(t, Got(call[t], "answer", kind, 0))
    BY <1>1, <2>1 DEF ServerRefuses, Gets
  <2> DEFINE c == Got(call[t], "answer", kind, 0)
  <2>2. Becomes(t, c) /\ UNCHANGED <<lock, cur, rep, seen, sent, begun, srv>>
    BY <1>1, <2>0 DEF ServerRefuses
  <2>3. c \in Calls /\ Shape(c) /\ UnknownHasNotRun(c) /\ c.pc = "answer" /\ Young(c, cur, Opened)
    BY <2>1, GotFacts
  <2> HIDE DEF c
  <2>4. QED
    BY <2>2, <2>3, LocalStep
<1>2. CASE ServerRuns(t)
  BY <1>2, RunStep
<1>3. CASE ServerSeals(t)
  <2> DEFINE s == call[t].sid
  <2>1. call[t].pc = "run" /\ srv' = Sealed(s) /\ UNCHANGED <<lock, cur, rep, seen, sent, begun>>
    BY <1>3 DEF ServerSeals
  <2>2. s \in Sids
    BY <2>1 DEF Shape, Reached
  <2>3. srv[s].s2c + 1 \in Nat /\ SealKind(s) \in {"sealed", "zeroed"}
    BY <2>2 DEF IInv, TypeOK, ServerSessions, SealKind
  <2>4. PICK pc \in {"answer", "run"} : Becomes(t, Got(call[t], pc, SealKind(s), srv[s].s2c + 1))
    BY <1>3 DEF ServerSeals, Gets
  <2> DEFINE c == Got(call[t], pc, SealKind(s), srv[s].s2c + 1)
  <2>5. c \in Calls /\ Shape(c) /\ UnknownHasNotRun(c) /\ c.pc = pc /\ Young(c, cur, Opened)
    BY <2>1, <2>3, GotFacts
  <2> HIDE DEF c
  <2>6. Becomes(t, c) /\ c.pc # "send"
    BY <2>4, <2>5 DEF c
  <2>7. QED
    BY <2>1, <2>2, <2>5, <2>6, SealStep
<1>4. CASE StreamDone(t)
  <2> DEFINE c == Got(call[t], "answer", "done", 0)
  <2>1. call[t].pc = "run" /\ Becomes(t, c) /\ UNCHANGED <<lock, cur, rep, seen, sent, begun, srv>>
    BY <1>4 DEF StreamDone, Gets
  <2>2. c \in Calls /\ Shape(c) /\ UnknownHasNotRun(c) /\ c.pc = "answer" /\ Young(c, cur, Opened)
    BY <2>1, GotFacts
  <2> HIDE DEF c
  <2>3. QED
    BY <2>1, <2>2, LocalStep
<1>5. CASE NetworkFails(t)
  <2> DEFINE c == Ended("failed")
  <2>1. call[t].sid \in Sids
    BY <1>5 DEF NetworkFails, Shape, Reached
  <2>2. /\ Becomes(t, c) /\ UNCHANGED <<lock, cur, rep, seen, sent, begun>>
        /\ srv' = srv \/ srv' = Sealed(call[t].sid)
    BY <1>5 DEF NetworkFails, Ends
  <2>3. c \in Calls /\ Shape(c) /\ UnknownHasNotRun(c) /\ c.pc = "idle" /\ Young(c, cur, Opened)
    BY EndedFacts DEF Results
  <2> HIDE DEF c
  <2>4. QED
    BY <2>1, <2>2, <2>3, SealStep
<1>6. QED
  BY <1>1, <1>2, <1>3, <1>4, <1>5

(* What a call makes of what has come for it. *)
LEMMA ReadSteps ==
    ASSUME IInv, NEW t \in Threads,
           Raise(t) \/ Unreadable(t) \/ Accept(t) \/ RaiseReplay(t) \/ EndOfStream(t)
    PROVE  IInv'
<1> USE CallFacts
<1>1. ASSUME NEW r \in Results, r # "duplicate", Becomes(t, Ended(r)),
             seen' \in [Replays -> SUBSET Nat], UNCHANGED <<lock, cur, rep, sent, begun, srv>>
      PROVE  IInv'
  <2> DEFINE c == Ended(r)
  <2>1. c \in Calls /\ Shape(c) /\ UnknownHasNotRun(c) /\ c.pc = "idle" /\ Young(c, cur, Opened)
    BY <1>1, EndedFacts
  <2> HIDE DEF c
  <2>2. Becomes(t, c)
    BY <1>1 DEF c
  <2>3. QED
    BY <1>1, <2>1, <2>2, LocalStep
<1>2. Arrived(t) => /\ call[t].inbox \in Seq(Answers) /\ call[t].inbox # <<>>
                    /\ First(t) = call[t].inbox[1] /\ First(t).kind # "duplicate"
                    /\ First(t).n \in Nat
  <2> SUFFICES ASSUME Arrived(t) PROVE <1>2!2
    OBVIOUS
  <2>1. call[t].inbox \in Seq(Answers) /\ call[t].inbox # <<>>
    BY DEF Arrived, Calls
  <2>2. 1 \in 1 .. Len(call[t].inbox) /\ First(t) = call[t].inbox[1] /\ First(t) \in Answers
    BY <2>1 DEF First
  <2>3. QED
    BY <2>1, <2>2 DEF UnknownHasNotRun, Answers
<1>3. CASE Raise(t) \/ Unreadable(t) \/ RaiseReplay(t) \/ EndOfStream(t)
  <2>1. PICK r \in {"unknown", "stale", "unreadable", "replay", "ok"} :
           Becomes(t, Ended(r)) /\ UNCHANGED <<lock, cur, rep, seen, sent, begun, srv>>
    BY <1>2, <1>3 DEF Raise, Unreadable, RaiseReplay, EndOfStream, Ends
  <2>2. r \in Results /\ r # "duplicate"
    BY DEF Results
  <2>3. QED
    BY <1>1, <2>1, <2>2
<1>4. CASE Accept(t)
  <2>1. seen' \in [Replays -> SUBSET Nat]
    <3>1. rep \in Replays
      BY DEF IInv, TypeOK
    <3>2. Remember(seen[rep], First(t).n) \subseteq Nat
      BY <1>2, <1>4, <3>1 DEF Accept, Remember, Newest
    <3>3. seen' = [seen EXCEPT ![rep] = Remember(seen[rep], First(t).n)]
      BY <1>4 DEF Accept
    <3>4. QED
      BY <3>1, <3>2, <3>3
  <2>2. Arrived(t) /\ UNCHANGED <<lock, cur, rep, sent, begun, srv>>
    BY <1>4 DEF Accept
  <2>3. CASE ~call[t].stream
    BY <1>1, <1>4, <2>1, <2>2, <2>3 DEF Accept, Results
  <2>4. CASE call[t].stream
    <3> DEFINE inbox == call[t].inbox
               c == [call[t] EXCEPT !.inbox = Tail(inbox)]
    <3>1. Becomes(t, c)
      BY <1>4, <2>4 DEF Accept
    <3>2. inbox \in Seq(Answers) /\ Tail(inbox) \in Seq(Answers) /\ Len(Tail(inbox)) = Len(inbox) - 1
          /\ \A i \in 1 .. Len(Tail(inbox)) : i + 1 \in 1 .. Len(inbox) /\ Tail(inbox)[i] = inbox[i + 1]
      BY <1>2, <2>2
    <3>3. c \in Calls /\ c.pc = call[t].pc /\ c.sid = call[t].sid /\ c.since = call[t].since
          /\ c.ran = call[t].ran /\ c.inbox = Tail(inbox) /\ c.result = call[t].result
          /\ c.stream = call[t].stream /\ c.retry = call[t].retry
          /\ call[t].pc \in {"answer", "run"}
      BY <2>2, <3>2 DEF Calls, Arrived
    <3> HIDE DEF c
    <3>4. UnknownHasNotRun(c)
      BY <3>2, <3>3 DEF UnknownHasNotRun
    <3>5. Shape(c) /\ Young(c, cur, Opened)
      BY <3>3 DEF Shape, Young, Reached, Unanswered
    <3>6. QED
      BY <2>1, <2>2, <3>1, <3>3, <3>4, <3>5, LocalStep
  <2>5. QED
    BY <2>3, <2>4
<1>5. QED
  BY <1>3, <1>4

(* The session is dropped by the user, or ends on the server. *)
LEMMA SessionEnds ==
    ASSUME IInv, ResetSession \/ \E s \in Sids : Expire(s)
    PROVE  IInv'
<1> DEFINE Closed(s, v) == [srv EXCEPT ![s] = [srv[s] EXCEPT !.state = v]]
<1>1. cur \in {0} \cup Sids /\ srv \in [Sids -> ServerSessions]
  BY DEF IInv, TypeOK
<1>2. /\ srv' = srv \/ \E s \in Sids, v \in {"deleted", "expired"} :
                           srv[s].state = "open" /\ srv' = Closed(s, v)
      /\ cur' \in {0, cur}
      /\ UNCHANGED <<lock, rep, seen, sent, call, begun>>
  BY <1>1 DEF ResetSession, Expire
<1> DEFINE Kept(o) == /\ srv'[o] \in ServerSessions /\ srv'[o].taken = srv[o].taken
                      /\ (srv'[o].state = "unborn") <=> (srv[o].state = "unborn")
<1>3. /\ srv' \in [Sids -> ServerSessions] /\ \A o \in Sids : Kept(o)
  <2>1. CASE srv' = srv
    BY <1>1, <2>1
  <2>2. ASSUME NEW s \in Sids, NEW v \in {"deleted", "expired"},
               srv[s].state = "open", srv' = Closed(s, v)
        PROVE  srv' \in [Sids -> ServerSessions] /\ \A o \in Sids : Kept(o)
    <3> DEFINE r == [srv[s] EXCEPT !.state = v]
    <3>1. r \in ServerSessions /\ r.taken = srv[s].taken /\ r.state = v
      BY <1>1 DEF ServerSessions
    <3>2. srv' = [srv EXCEPT ![s] = r]
      BY <2>2
    <3> HIDE DEF r
    <3>3. QED
      BY <1>1, <2>2, <3>1, <3>2
  <2>3. QED
    <3> HIDE DEF Kept, Closed
    <3> QED BY <1>2, <2>1, <2>2
<1>4. Opened' = Opened /\ OpenedInOrder'
  <2>1. \A o \in Sids : (srv'[o].state = "unborn") <=> (srv[o].state = "unborn")
    BY <1>3
  <2>2. QED
    BY <2>1, SameOpened DEF IInv
<1>5. TypeOK'
  BY <1>1, <1>2, <1>3 DEF IInv, TypeOK
<1>6. ASSUME NEW t \in Threads
      PROVE  Shape(call'[t]) /\ UnknownHasNotRun(call'[t]) /\ Young(call'[t], cur', Opened')
  BY <1>2, <1>4, CallFacts DEF Young
<1>7. CallInv'
  BY <1>6 DEF CallInv
<1>8. CountedOnce'
  <2>1. \A t \in Threads : call[t].pc = "send" => call[t].sid \in Sids
    BY DEF IInv, CallInv, Shape, Reached
  <2>2. call' = call /\ sent' = sent /\ \A o \in Sids : srv'[o].taken = srv[o].taken
    BY <1>2, <1>3
  <2>3. QED
    BY <2>1, <2>2 DEF IInv, CountedOnce
<1>9. QED
  BY <1>4, <1>5, <1>7, <1>8 DEF IInv

-----------------------------------------------------------------------------
(* A set that changes in one element *)
LEMMA OneElement ==
    ASSUME NEW A, NEW B, NEW t, IsFiniteSet(A), A \ {t} = B \ {t}
    PROVE  /\ IsFiniteSet(B)
           /\ Cardinality(A) \in Nat /\ Cardinality(B) \in Nat
           /\ Cardinality(B) + (IF t \in A THEN 1 ELSE 0)
              = Cardinality(A) + (IF t \in B THEN 1 ELSE 0)
<1> DEFINE R == A \ {t}
           r == Cardinality(R)
           a == Cardinality(A)
           b == Cardinality(B)
<1>1. IsFiniteSet(R) /\ a \in Nat /\ r \in Nat /\ r = IF t \in A THEN a - 1 ELSE a
  BY FS_RemoveElement, FS_CardinalityType
<1>2. t \notin R /\ B = IF t \in B THEN R \cup {t} ELSE R
  OBVIOUS
<1> HIDE DEF R
<1>3. IsFiniteSet(R \cup {t}) /\ Cardinality(R \cup {t}) = r + 1
  BY <1>1, <1>2, FS_AddElement
<1>4. IsFiniteSet(B)
  BY <1>1, <1>2, <1>3, Zenon
<1>5. b = IF t \in B THEN r + 1 ELSE r
  BY <1>2, <1>3, Zenon
<1> HIDE DEF a, b, r
<1>6. b \in Nat /\ b + (IF t \in A THEN 1 ELSE 0) = a + (IF t \in B THEN 1 ELSE 0)
  BY <1>1, <1>5
<1>7. QED
  BY <1>1, <1>4, <1>6 DEF a, b

(* What a step may cost *)
LEMMA BudgetStep ==
    ASSUME IInv, Budget, NEW t \in Threads, NEW c, Becomes(t, c),
           Opened' \in Nat, begun' \in Nat,
           Opened' + Weight(c) + 2 * begun <= Opened + Weight(call[t]) + 2 * begun'
    PROVE  Budget'
<1>1. /\ call \in [Threads -> Calls] /\ call' = [call EXCEPT ![t] = c]
      /\ Opened \in Nat /\ begun \in Nat
  BY TransportAssumption DEF IInv, TypeOK, Becomes, OpenedInOrder, MaxSessions
<1>2. /\ \A u \in Threads \ {t} : call'[u] = call[u]
      /\ call'[t] = c
  BY <1>1
<1> DEFINE A == Asking
           A2 == Asking'
           R == Retrying
           R2 == Retrying'
<1>3. A \ {t} = A2 \ {t} /\ R \ {t} = R2 \ {t}
  BY <1>2 DEF Asking, Retrying
<1>4. /\ (t \in A) <=> Asks(call[t])
      /\ (t \in A2) <=> Asks(c)
      /\ (t \in R) <=> call[t].retry
      /\ (t \in R2) <=> c.retry
  BY <1>2 DEF Asking, Retrying
<1>5. IsFiniteSet(A) /\ IsFiniteSet(R)
      /\ Opened + Cardinality(A) + Cardinality(R) <= 2 * begun
  BY DEF Budget
<1> HIDE DEF A, A2, R, R2
<1> DEFINE a == Cardinality(A)
           b == Cardinality(A2)
           q == Cardinality(R)
           s == Cardinality(R2)
<1>6. /\ IsFiniteSet(A2) /\ a \in Nat /\ b \in Nat
      /\ b + (IF t \in A THEN 1 ELSE 0) = a + (IF t \in A2 THEN 1 ELSE 0)
  BY <1>3, <1>5, OneElement
<1>7. /\ IsFiniteSet(R2) /\ q \in Nat /\ s \in Nat
      /\ s + (IF t \in R THEN 1 ELSE 0) = q + (IF t \in R2 THEN 1 ELSE 0)
  BY <1>3, <1>5, OneElement
<1>8. Opened + a + q <= 2 * begun
  BY <1>5
<1> HIDE DEF a, b, q, s
<1> DEFINE x == IF t \in A THEN 1 ELSE 0
           y == IF t \in A2 THEN 1 ELSE 0
           v == IF t \in R THEN 1 ELSE 0
           w == IF t \in R2 THEN 1 ELSE 0
<1>9. Weight(call[t]) = x + v /\ Weight(c) = y + w
  BY <1>4 DEF Weight
<1>10. x \in Nat /\ y \in Nat /\ v \in Nat /\ w \in Nat
  OBVIOUS
<1>11. b + x = a + y /\ s + v = q + w
  BY <1>6, <1>7
<1> HIDE DEF x, y, v, w
<1> DEFINE o2 == Opened'
           n2 == begun'
<1>12. o2 + (y + w) + 2 * begun <= Opened + (x + v) + 2 * n2 /\ o2 \in Nat /\ n2 \in Nat
  BY <1>9
<1> HIDE DEF o2, n2
<1>13. o2 + b + s <= 2 * n2
  BY <1>1, <1>6, <1>7, <1>8, <1>10, <1>11, <1>12
<1>14. QED
  BY <1>6, <1>7, <1>13 DEF Budget, o2, n2, A2, R2, b, s

(* A step that asks for nothing new costs nothing. *)
LEMMA CostsNothing ==
    ASSUME IInv, Budget, NEW t \in Threads, NEW c, Becomes(t, c),
           Asks(c) => Asks(call[t]), c.retry => call[t].retry,
           Opened' = Opened, begun' = begun
    PROVE  Budget'
<1>1. Opened \in Nat /\ begun \in Nat
  BY CallFacts, TransportAssumption
<1>2. /\ Weight(c) \in Nat /\ Weight(call[t]) \in Nat /\ Weight(c) <= Weight(call[t])
  BY DEF Weight
<1> DEFINE v == Weight(c)
           w == Weight(call[t])
<1> HIDE DEF v, w
<1>3. v \in Nat /\ w \in Nat /\ v <= w
  BY <1>2 DEF v, w
<1>4. Opened + v + 2 * begun <= Opened + w + 2 * begun
  BY <1>1, <1>3
<1>5. Opened' + v + 2 * begun <= Opened + w + 2 * begun'
  BY <1>4, Zenon
<1>6. Opened' \in Nat /\ begun' \in Nat
  BY <1>1
<1>7. QED
  BY <1>5, <1>6, BudgetStep DEF v, w

(* The steps that open no session: a request begins with two attempts, the  *)
(* rehandshake takes the second.                                            *)
LEMMA ClientBudget ==
    ASSUME IInv, Budget, NEW t \in Threads,
           (\E stream \in BOOLEAN : Begin(t, stream)) \/ Client(t)
    PROVE  Budget'
<1>1. call[t] \in Calls /\ Opened \in Nat /\ begun \in Nat
  BY CallFacts, TransportAssumption
<1>2. Opened' = Opened
  BY DEF Opened, Begin, Client, UseSession, BeginHandshake, Count, Rehandshake, Raise,
         Unreadable, Accept, RaiseReplay, EndOfStream
<1>3. ASSUME NEW stream \in BOOLEAN, Begin(t, stream) PROVE Budget'
  <2> DEFINE c == [NoCall EXCEPT !.pc = "session", !.stream = stream,
                                 !.retry = ~stream, !.since = Opened]
  <2>1. Becomes(t, c) /\ begun' = begun + 1
    BY <1>3 DEF Begin
  <2> HIDE DEF c
  <2> DEFINE v == Weight(c)
             w == Weight(call[t])
  <2>2. v \in Nat /\ w \in Nat /\ v <= 2
    BY DEF Weight
  <2> HIDE DEF v, w
  <2>3. Opened + v + 2 * begun <= Opened + w + 2 * (begun + 1)
    BY <1>1, <2>2
  <2>4. Opened' + v + 2 * begun <= Opened + w + 2 * begun'
    BY <1>2, <2>1, <2>3, Zenon
  <2>5. Opened' \in Nat /\ begun' \in Nat
    BY <1>1, <1>2, <2>1
  <2>6. QED
    BY <2>1, <2>4, <2>5, BudgetStep DEF v, w
<1>4. CASE Rehandshake(t)
  <2> DEFINE c == [call[t] EXCEPT !.pc = "session", !.retry = RetryOnce, !.inbox = <<>>]
  <2>1. Becomes(t, c) /\ begun' = begun /\ call[t].retry /\ call[t].pc \in {"answer", "run"}
    BY <1>4 DEF Rehandshake, Retriable, Arrived
  <2>2. c.retry = FALSE
    BY <1>1 DEF RetryOnce, Calls
  <2> HIDE DEF c
  <2> DEFINE v == Weight(c)
             w == Weight(call[t])
  <2>3. w = 1 /\ v \in Nat /\ v <= 1
    BY <2>1, <2>2 DEF Weight, Asks
  <2> HIDE DEF v, w
  <2>4. Opened + v + 2 * begun <= Opened + w + 2 * begun
    BY <1>1, <2>3
  <2>5. Opened' + v + 2 * begun <= Opened + w + 2 * begun'
    BY <1>2, <2>1, <2>4, Zenon
  <2>6. Opened' \in Nat /\ begun' \in Nat
    BY <1>1, <1>2, <2>1
  <2>7. QED
    BY <2>1, <2>5, <2>6, BudgetStep DEF v, w
<1>5. \A r : Ended(r).pc = "idle" /\ Ended(r).retry = FALSE
  BY DEF Ended, NoCall
<1>6. CASE UseSession(t) \/ BeginHandshake(t) \/ Count(t)
  <2>1. PICK c : Becomes(t, c) /\ c.retry = call[t].retry
                 /\ (Asks(c) => Asks(call[t])) /\ begun' = begun
    <3>1. CASE UseSession(t)
      BY <1>1, <3>1 DEF UseSession, Asks, Calls
    <3>2. CASE BeginHandshake(t)
      BY <1>1, <3>2 DEF BeginHandshake, Asks, Calls
    <3>3. CASE Count(t)
      BY <1>1, <3>3 DEF Count, Seal, Asks, Calls
    <3>4. QED
      BY <1>6, <3>1, <3>2, <3>3
  <2>2. QED
    BY <1>2, <2>1, CostsNothing
<1>7. CASE Raise(t) \/ Unreadable(t) \/ RaiseReplay(t) \/ EndOfStream(t)
  <2>1. PICK r : Becomes(t, Ended(r)) /\ begun' = begun
    BY <1>7 DEF Raise, Unreadable, RaiseReplay, EndOfStream, Ends
  <2>2. QED
    BY <1>2, <1>5, <2>1, CostsNothing DEF Asks
<1>8. CASE Accept(t)
  <2>1. CASE call[t].stream
    <3> DEFINE c == [call[t] EXCEPT !.inbox = Tail(@)]
    <3>1. Becomes(t, c) /\ begun' = begun
      BY <1>8, <2>1 DEF Accept
    <3>2. c.retry = call[t].retry /\ c.pc = call[t].pc
      BY <1>1 DEF Calls
    <3> HIDE DEF c
    <3>3. QED
      BY <1>2, <3>1, <3>2, CostsNothing DEF Asks
  <2>2. CASE ~call[t].stream
    <3>1. Becomes(t, Ended("ok")) /\ begun' = begun
      BY <1>8, <2>2 DEF Accept
    <3>2. QED
      BY <1>2, <1>5, <3>1, CostsNothing DEF Asks
  <2>3. QED
    BY <2>1, <2>2
<1>9. QED
  BY <1>3, <1>4, <1>6, <1>7, <1>8 DEF Client

(* The end of a handshake: what was asked for is opened, or is not. *)
LEMMA HandshakeBudget ==
    ASSUME IInv, Budget, NEW t \in Threads, HandshakeDone(t) \/ HandshakeFails(t)
    PROVE  Budget'
<1>1. call[t] \in Calls /\ Opened \in Nat /\ begun \in Nat
  BY CallFacts, TransportAssumption
<1>2. call[t].pc = "handshake" /\ begun' = begun /\ Opened < MaxSessions
  BY HandshakeHasRoom DEF HandshakeDone, HandshakeFails
<1>3. Opened' \in {Opened, Opened + 1}
  <2>1. CASE srv' = srv
    BY <2>1 DEF Opened
  <2>2. CASE srv' = Opens(Opened + 1)
    BY <1>2, <2>2, NextOpened DEF IInv
  <2>3. QED
    BY <2>1, <2>2 DEF HandshakeDone, HandshakeFails
<1>4. PICK c : Becomes(t, c) /\ ~Asks(c) /\ (c.retry => call[t].retry)
  <2>1. CASE HandshakeDone(t)
    <3> DEFINE c == [call[t] EXCEPT !.pc = "count", !.sid = Opened + 1]
    <3>1. Becomes(t, c)
      BY <2>1 DEF HandshakeDone
    <3>2. c.pc = "count" /\ c.retry = call[t].retry
      BY <1>1 DEF Calls
    <3> HIDE DEF c
    <3>3. QED
      BY <3>1, <3>2 DEF Asks
  <2>2. CASE HandshakeFails(t)
    BY <2>2 DEF HandshakeFails, Ends, Ended, NoCall, Asks
  <2>3. QED
    BY <2>1, <2>2
<1> DEFINE v == Weight(c)
           w == Weight(call[t])
           o == Opened'
<1>5. v \in Nat /\ w \in Nat /\ v + 1 <= w
  BY <1>2, <1>4 DEF Weight, Asks
<1>6. o \in {Opened, Opened + 1}
  BY <1>3
<1> HIDE DEF v, w, o
<1>7. o \in Nat /\ o + v + 2 * begun <= Opened + w + 2 * begun
  BY <1>1, <1>5, <1>6
<1>8. o + v + 2 * begun <= Opened + w + 2 * begun'
  BY <1>2, <1>7, Zenon
<1>9. begun' \in Nat
  BY <1>1, <1>2
<1>10. QED
  BY <1>4, <1>7, <1>8, <1>9, BudgetStep DEF v, w, o

(* Nothing else opens a session: the server's other steps, and the end of a *)
(* session.                                                                 *)
LEMMA ServerBudget ==
    ASSUME IInv, Budget, NEW t \in Threads,
           ServerRefuses(t) \/ ServerRuns(t) \/ ServerSeals(t) \/ StreamDone(t) \/ NetworkFails(t)
    PROVE  Budget'
<1>1. call[t] \in Calls
  BY CallFacts
<1>2. Opened' = Opened
  <2>1. srv \in [Sids -> ServerSessions] /\ OpenedInOrder
    BY DEF IInv, TypeOK
  <2>2. \A s \in Sids : srv'[s].state = "unborn" <=> srv[s].state = "unborn"
    BY <2>1 DEF ServerRefuses, ServerRuns, ServerSeals, StreamDone, NetworkFails, Sealed,
                ServerSessions
  <2>3. QED
    BY <2>1, <2>2, SameOpened
<1>3. begun' = begun
  BY DEF ServerRefuses, ServerRuns, ServerSeals, StreamDone, NetworkFails
<1>4. \A pc, kind, n : Got(call[t], pc, kind, n).pc = pc
                       /\ Got(call[t], pc, kind, n).retry = call[t].retry
  BY <1>1 DEF Got, Calls
<1>5. CASE ServerRefuses(t) \/ ServerSeals(t) \/ StreamDone(t)
  <2>1. PICK pc \in {"answer", "run"} : \E kind, n : Becomes(t, Got(call[t], pc, kind, n))
    BY <1>5 DEF ServerRefuses, ServerSeals, StreamDone, Gets
  <2>2. PICK kind, n : Becomes(t, Got(call[t], pc, kind, n))
    BY <2>1
  <2>3. QED
    BY <1>2, <1>3, <1>4, <2>2, CostsNothing DEF Asks
<1>6. CASE ServerRuns(t)
  <2> DEFINE c == [call[t] EXCEPT !.pc = "run", !.ran = @ + 1]
  <2>1. Becomes(t, c)
    BY <1>6 DEF ServerRuns
  <2>2. c.pc = "run" /\ c.retry = call[t].retry
    BY <1>1 DEF Calls
  <2> HIDE DEF c
  <2>3. QED
    BY <1>2, <1>3, <2>1, <2>2, CostsNothing DEF Asks
<1>7. CASE NetworkFails(t)
  <2>1. Becomes(t, Ended("failed"))
    BY <1>7 DEF NetworkFails, Ends
  <2>2. Ended("failed").pc = "idle" /\ Ended("failed").retry = FALSE
    BY DEF Ended, NoCall
  <2>3. QED
    BY <1>2, <1>3, <2>1, <2>2, CostsNothing DEF Asks
<1>8. QED
  BY <1>5, <1>6, <1>7

(* A session that ends, and a step of nobody *)
LEMMA SessionEndsBudget ==
    ASSUME IInv, Budget,
           ResetSession \/ (\E s \in Sids : Expire(s)) \/ UNCHANGED vars
    PROVE  Budget'
<1>1. srv \in [Sids -> ServerSessions] /\ OpenedInOrder /\ cur \in {0} \cup Sids
  BY DEF IInv, TypeOK
<1>2. \A o \in Sids : srv'[o].state = "unborn" <=> srv[o].state = "unborn"
  <2>1. CASE ResetSession
    BY <1>1, <2>1 DEF ResetSession, ServerSessions
  <2>2. CASE \E s \in Sids : Expire(s)
    BY <1>1, <2>2 DEF Expire, ServerSessions
  <2>3. QED
    BY <2>1, <2>2 DEF vars
<1>3. Opened' = Opened
  BY <1>1, <1>2, SameOpened
<1>4. call' = call /\ begun' = begun
  BY DEF ResetSession, Expire, vars
<1>5. Asking' = Asking /\ Retrying' = Retrying
  BY <1>4 DEF Asking, Retrying
<1>6. QED
  BY <1>3, <1>4, <1>5 DEF Budget

(* The two together are inductive. *)
LEMMA NextIInv == IInv /\ Budget /\ [Next]_vars => IInv' /\ Budget'
<1> SUFFICES ASSUME IInv, Budget, [Next]_vars PROVE IInv' /\ Budget'
  OBVIOUS
<1>1. CASE \E t \in Threads, stream \in BOOLEAN : Begin(t, stream)
  BY <1>1, SessionSteps, ClientBudget
<1>2. ASSUME NEW t \in Threads, Client(t) PROVE IInv' /\ Budget'
  <2>1. IInv'
    BY <1>2, SessionSteps, CountStep, ReadSteps DEF Client
  <2>2. QED
    BY <1>2, <2>1, ClientBudget
<1>3. ASSUME NEW t \in Threads, Network(t) PROVE IInv' /\ Budget'
  BY <1>3, HandshakeSteps, HandshakeBudget, ServerSteps, ServerBudget DEF Network
<1>4. CASE ResetSession \/ \E s \in Sids : Expire(s)
  BY <1>4, SessionEnds, SessionEndsBudget
<1>5. CASE UNCHANGED vars
  <2>1. Opened' = Opened
    BY <1>5 DEF vars, Opened
  <2>2. IInv'
    BY <1>5, <2>1 DEF vars, IInv, TypeOK, OpenedInOrder, CallInv, CountedOnce
  <2>3. QED
    BY <1>5, <2>2, SessionEndsBudget
<1>6. QED
  BY <1>1, <1>2, <1>3, <1>4, <1>5 DEF Next

(* Nothing has been asked for at the start. *)
LEMMA InitBudget == Init => Budget
<1> SUFFICES ASSUME Init PROVE Budget
  OBVIOUS
<1>1. Asking = {} /\ Retrying = {}
  BY DEF Init, Asking, Retrying, Asks, NoCall
<1>2. Opened = 0
  <2>1. 0 \in 0 .. MaxSessions /\ \A s \in Sids : srv[s].state # "unborn" <=> s <= 0
    BY TransportAssumption DEF Init, MaxSessions, Sids
  <2>2. QED
    BY <2>1, OpenedIs
<1>3. begun = 0
  BY DEF Init
<1>4. QED
  BY <1>1, <1>2, <1>3, FS_EmptySet DEF Budget

(* The inductive invariant holds throughout. *)
LEMMA Invariance == Spec => []IInv
<1>1. Init => IInv /\ Budget
  BY InitIInv, InitBudget
<1>2. IInv /\ Budget /\ [Next]_vars => IInv' /\ Budget'
  BY NextIInv
<1>3. QED
  BY <1>1, <1>2, PTL DEF Spec

(* The variables of Transport and of its calls keep their types: no call    *)
(* numbers a request of a session it does not have, and no call makes more  *)
(* than two handshakes (request and its one retry).                         *)
THEOREM TypesHold == Spec => []TypeOK
<1>1. IInv => TypeOK
  BY DEF IInv
<1>2. QED
  BY <1>1, Invariance, PTL

(* However calls, resets, expiries, losses and rehandshakes interleave, no  *)
(* call runs its endpoint twice (request, transport.py:191-200).            *)
THEOREM NoSecondRun == Spec => []RanAtMostOnce
<1>1. IInv => RanAtMostOnce
  BY DEF IInv, CallInv, UnknownHasNotRun, RanAtMostOnce
<1>2. QED
  BY <1>1, Invariance, PTL

(* What has been refused for its age was overtaken by WINDOW newer numbers. *)
Overtaken(c, st) == \A i \in 1 .. Len(c.inbox) : c.inbox[i].kind = "stale" =>
                                                     st[c.sid] >= c.ctr + WINDOW
OvertakenInv == \A t \in Threads : Overtaken(call[t], sent)

(* One call changes; the numbers given out never decrease. *)
LEMMA OvertakenStep ==
    ASSUME IInv, OvertakenInv, NEW t \in Threads, NEW c, Becomes(t, c), Overtaken(c, sent'),
           \A s \in Sids : sent'[s] \in Nat /\ sent'[s] >= sent[s]
    PROVE  OvertakenInv'
<1>1. call \in [Threads -> Calls] /\ sent \in [Sids -> Nat] /\ WINDOW \in Nat
  BY TransportAssumption DEF IInv, TypeOK
<1>2. call'[t] = c /\ \A u \in Threads : u # t => call'[u] = call[u]
  BY <1>1 DEF Becomes
<1>3. ASSUME NEW u \in Threads PROVE Overtaken(call[u], sent')
  <2>1. call[u] \in Calls /\ Shape(call[u]) /\ Overtaken(call[u], sent)
    BY <1>1 DEF IInv, CallInv, OvertakenInv
  <2>2. ASSUME NEW i \in 1 .. Len(call[u].inbox), call[u].inbox[i].kind = "stale"
        PROVE  sent'[call[u].sid] >= call[u].ctr + WINDOW
    <3>1. Len(<<>>) = 0 /\ call[u].inbox # <<>>
      BY <2>2
    <3>2. call[u].sid \in Sids /\ call[u].ctr \in Nat
      BY <2>1, <3>1 DEF Shape, Reached, Unanswered, Calls
    <3>3. sent[call[u].sid] >= call[u].ctr + WINDOW
      BY <2>1, <2>2 DEF Overtaken
    <3>4. QED
      BY <1>1, <3>2, <3>3
  <2>3. QED
    BY <2>2 DEF Overtaken
<1>4. QED
  BY <1>2, <1>3 DEF OvertakenInv

(* An empty inbox holds no refusal, and an inbox grows by what has come.    *)
LEMMA OvertakenFacts ==
    ASSUME IInv, OvertakenInv, NEW t \in Threads
    PROVE  /\ \A c, st : c.inbox = <<>> => Overtaken(c, st)
           /\ \A pc, n : \A kind \in {"sealed", "zeroed", "unknown", "done"} :
                 Overtaken(Got(call[t], pc, kind, n), sent)
<1>1. call[t] \in Calls /\ Overtaken(call[t], sent)
  BY DEF IInv, TypeOK, OvertakenInv
<1>2. \A c, st : c.inbox = <<>> => Overtaken(c, st)
  <2>1. Len(<<>>) = 0
    OBVIOUS
  <2>2. QED
    BY <2>1 DEF Overtaken
<1>3. ASSUME NEW pc, NEW n, NEW kind \in {"sealed", "zeroed", "unknown", "done"}
      PROVE  Overtaken(Got(call[t], pc, kind, n), sent)
  <2> DEFINE a == [kind |-> kind, n |-> n]
             g == [call[t] EXCEPT !.pc = pc, !.inbox = Append(call[t].inbox, a)]
  <2>1. g.inbox = Append(call[t].inbox, a) /\ g.sid = call[t].sid /\ g.ctr = call[t].ctr
        /\ call[t].inbox \in Seq(Answers) /\ a.kind = kind
    BY <1>1 DEF Calls
  <2>2. g = Got(call[t], pc, kind, n)
    BY DEF Got
  <2> HIDE DEF g, a
  <2>3. ASSUME NEW i \in 1 .. Len(g.inbox), g.inbox[i].kind = "stale"
        PROVE  i \in 1 .. Len(call[t].inbox) /\ call[t].inbox[i].kind = "stale"
    BY <2>1, <2>3
  <2>4. QED
    BY <1>1, <2>1, <2>2, <2>3 DEF Overtaken
<1>4. QED
  BY <1>2, <1>3

(* The refusal for age: a counter that was taken was given out before.      *)
LEMMA RefusedIsOvertaken ==
    ASSUME IInv, OvertakenInv, NEW t \in Threads, ServerRefuses(t)
    PROVE  \E c : Becomes(t, c) /\ Overtaken(c, sent)
<1> DEFINE s == call[t].sid
           m == call[t].ctr
<1>1. /\ call[t] \in Calls /\ call[t].pc = "send" /\ s \in Sids /\ m \in Nat
      /\ call[t].inbox = <<>> /\ m \notin srv[s].taken
  BY DEF ServerRefuses, IInv, TypeOK, CallInv, Shape, Reached, Unanswered, CountedOnce, Calls
<1>2. CASE Becomes(t, Got(call[t], "answer", "unknown", 0))
  BY <1>2, OvertakenFacts
<1>3. CASE Behind(s, m) /\ Becomes(t, Got(call[t], "answer", "stale", 0))
  <2>1. PICK k \in srv[s].taken : k >= m + WINDOW
    BY <1>3 DEF Behind
  <2>2. k \in Nat /\ k <= sent[s] /\ sent[s] \in Nat /\ WINDOW \in Nat
    BY <1>1, <2>1, TransportAssumption DEF IInv, TypeOK, ServerSessions, CountedOnce
  <2>3. sent[s] >= m + WINDOW
    BY <1>1, <2>1, <2>2
  <2>4. Got(call[t], "answer", "stale", 0).sid = s /\ Got(call[t], "answer", "stale", 0).ctr = m
    BY <1>1 DEF Got, Calls
  <2>5. QED
    BY <1>3, <2>3, <2>4 DEF Overtaken
<1>4. QED
  BY <1>1, <1>2, <1>3 DEF ServerRefuses, Gets

(* What a call reads leaves the rest of its inbox. *)
LEMMA AcceptKeepsOvertaken ==
    ASSUME IInv, OvertakenInv, NEW t \in Threads, Accept(t)
    PROVE  \E c : Becomes(t, c) /\ Overtaken(c, sent)
<1>1. call[t] \in Calls /\ call[t].inbox \in Seq(Answers) /\ call[t].inbox # <<>>
  BY DEF IInv, TypeOK, Calls, Accept, Arrived
<1>2. CASE ~call[t].stream
  <2>1. Ended("ok").inbox = <<>> /\ Becomes(t, Ended("ok"))
    BY <1>2 DEF Accept, Ended, NoCall
  <2>2. QED
    BY <2>1, OvertakenFacts
<1>3. CASE call[t].stream
  <2> DEFINE inbox == call[t].inbox
             c == [call[t] EXCEPT !.inbox = Tail(inbox)]
  <2>1. Becomes(t, c)
    BY <1>3 DEF Accept
  <2>2. \A i \in 1 .. Len(Tail(inbox)) : i + 1 \in 1 .. Len(inbox) /\ Tail(inbox)[i] = inbox[i + 1]
    BY <1>1
  <2>3. c.inbox = Tail(inbox) /\ c.sid = call[t].sid /\ c.ctr = call[t].ctr
    BY <1>1 DEF Calls
  <2> HIDE DEF c
  <2>4. Overtaken(call[t], sent)
    BY DEF OvertakenInv
  <2>5. Overtaken(c, sent)
    BY <2>2, <2>3, <2>4 DEF Overtaken
  <2>6. QED
    BY <2>1, <2>5
<1>4. QED
  BY <1>2, <1>3

(* No step leaves a refusal for age behind that was not earned. *)
LEMMA OvertakenNext == IInv /\ OvertakenInv /\ [Next]_vars => OvertakenInv'
<1> SUFFICES ASSUME IInv, OvertakenInv, [Next]_vars PROVE OvertakenInv'
  OBVIOUS
<1>0. sent \in [Sids -> Nat]
  BY DEF IInv, TypeOK
<1>1. sent' = sent => \A s \in Sids : sent'[s] \in Nat /\ sent'[s] >= sent[s]
  BY <1>0
<1>2. ASSUME NEW t \in Threads, NEW c, Becomes(t, c), Overtaken(c, sent), sent' = sent
      PROVE  OvertakenInv'
  <2>1. Overtaken(c, sent')
    BY <1>2
  <2>2. QED
    BY <1>1, <1>2, <2>1, OvertakenStep
<1>3. ASSUME NEW t \in Threads, NEW c, Becomes(t, c), c.inbox = <<>>, sent' = sent
      PROVE  OvertakenInv'
  BY <1>2, <1>3, OvertakenFacts
<1>4. ASSUME NEW t \in Threads, NEW stream \in BOOLEAN, Begin(t, stream) PROVE OvertakenInv'
  <2> DEFINE c == [NoCall EXCEPT !.pc = "session", !.stream = stream,
                                 !.retry = ~stream, !.since = Opened]
  <2>1. c.inbox = <<>> /\ Becomes(t, c) /\ sent' = sent
    BY <1>4 DEF Begin, NoCall
  <2> HIDE DEF c
  <2>2. QED
    BY <1>3, <2>1
<1>5. ASSUME NEW t \in Threads,
             UseSession(t) \/ BeginHandshake(t) \/ HandshakeDone(t) \/ ServerRuns(t) \/ Rehandshake(t)
      PROVE  OvertakenInv'
  <2>1. call[t] \in Calls /\ (call[t].pc \in Unanswered => call[t].inbox = <<>>)
    BY DEF IInv, TypeOK, CallInv, Shape
  <2>2. CASE Rehandshake(t)
    <3> DEFINE c == [call[t] EXCEPT !.pc = "session", !.retry = RetryOnce, !.inbox = <<>>]
    <3>1. c.inbox = <<>> /\ Becomes(t, c) /\ sent' = sent
      BY <2>1, <2>2 DEF Rehandshake, Calls
    <3> HIDE DEF c
    <3>2. QED
      BY <1>3, <3>1
  <2>3. CASE UseSession(t) \/ BeginHandshake(t) \/ HandshakeDone(t) \/ ServerRuns(t)
    <3>1. call[t].inbox = <<>> /\ sent' = sent
      BY <2>1, <2>3 DEF UseSession, BeginHandshake, HandshakeDone, ServerRuns, Unanswered
    <3>2. PICK c : Becomes(t, c) /\ c.inbox = call[t].inbox
      <4>1. CASE UseSession(t)
        <5> DEFINE c == [call[t] EXCEPT !.pc = "count", !.sid = cur]
        <5>1. Becomes(t, c)
          BY <4>1 DEF UseSession
        <5>2. c.inbox = call[t].inbox
          BY <2>1 DEF Calls
        <5>3. QED
          BY <5>1, <5>2
      <4>2. CASE BeginHandshake(t)
        <5> DEFINE c == [call[t] EXCEPT !.pc = "handshake"]
        <5>1. Becomes(t, c)
          BY <4>2 DEF BeginHandshake
        <5>2. c.inbox = call[t].inbox
          BY <2>1 DEF Calls
        <5>3. QED
          BY <5>1, <5>2
      <4>3. CASE HandshakeDone(t)
        <5> DEFINE o == Opened + 1
                   c == [call[t] EXCEPT !.pc = "count", !.sid = o]
        <5>1. Becomes(t, c)
          BY <4>3 DEF HandshakeDone
        <5> HIDE DEF o
        <5>2. c.inbox = call[t].inbox
          BY <2>1 DEF Calls
        <5>3. QED
          BY <5>1, <5>2
      <4>4. CASE ServerRuns(t)
        <5> DEFINE c == [call[t] EXCEPT !.pc = "run", !.ran = @ + 1]
        <5>1. Becomes(t, c)
          BY <4>4 DEF ServerRuns
        <5>2. c.inbox = call[t].inbox
          BY <2>1 DEF Calls
        <5>3. QED
          BY <5>1, <5>2
      <4>5. QED
        BY <2>3, <4>1, <4>2, <4>3, <4>4
    <3>3. QED
      BY <1>3, <3>1, <3>2
  <2>4. QED
    BY <1>5, <2>2, <2>3
<1>6. ASSUME NEW t \in Threads, Count(t) PROVE OvertakenInv'
  <2> DEFINE c == Seal(call[t], sent[call[t].sid] + 1)
  <2>1. Becomes(t, c) /\ call[t] \in Calls /\ call[t].inbox = <<>> /\ call[t].sid \in Sids
    BY <1>6 DEF Count, IInv, TypeOK, CallInv, Shape, Reached, Unanswered
  <2>2. c.inbox = <<>>
    BY <2>1 DEF Seal, Calls
  <2>3. \A s \in Sids : sent'[s] \in Nat /\ sent'[s] >= sent[s]
    BY <1>0, <1>6, <2>1 DEF Count
  <2> HIDE DEF c
  <2>4. Overtaken(c, sent')
    BY <1>6, <2>2, OvertakenFacts
  <2>5. QED
    BY <2>1, <2>3, <2>4, OvertakenStep
<1>7. ASSUME NEW t \in Threads, ServerSeals(t) \/ StreamDone(t) PROVE OvertakenInv'
  <2>1. sent' = sent
    BY <1>7 DEF ServerSeals, StreamDone
  <2>2. PICK pc, n : \E kind \in {"sealed", "zeroed", "unknown", "done"} :
                        Becomes(t, Got(call[t], pc, kind, n))
    BY <1>7 DEF ServerSeals, StreamDone, Gets, SealKind
  <2>3. PICK kind \in {"sealed", "zeroed", "unknown", "done"} : Becomes(t, Got(call[t], pc, kind, n))
    BY <2>2
  <2>4. Overtaken(Got(call[t], pc, kind, n), sent)
    BY OvertakenFacts
  <2>5. QED
    BY <1>2, <2>1, <2>3, <2>4
<1>8. ASSUME NEW t \in Threads,
             HandshakeFails(t) \/ NetworkFails(t) \/ Raise(t) \/ Unreadable(t)
               \/ RaiseReplay(t) \/ EndOfStream(t)
      PROVE  OvertakenInv'
  <2>1. PICK r : Becomes(t, Ended(r)) /\ sent' = sent
    BY <1>8 DEF HandshakeFails, NetworkFails, Raise, Unreadable, RaiseReplay, EndOfStream, Ends
  <2>2. Ended(r).inbox = <<>>
    BY DEF Ended, NoCall
  <2>3. QED
    BY <1>3, <2>1, <2>2
<1>9. ASSUME NEW t \in Threads, ServerRefuses(t) \/ Accept(t) PROVE OvertakenInv'
  <2>1. sent' = sent
    BY <1>9 DEF ServerRefuses, Accept
  <2>2. PICK c : Becomes(t, c) /\ Overtaken(c, sent)
    BY <1>9, RefusedIsOvertaken, AcceptKeepsOvertaken
  <2>3. QED
    BY <1>2, <2>1, <2>2
<1>10. CASE ResetSession \/ (\E s \in Sids : Expire(s)) \/ UNCHANGED vars
  <2>1. call' = call /\ sent' = sent
    BY <1>10 DEF ResetSession, Expire, vars
  <2>2. QED
    BY <2>1 DEF OvertakenInv
<1>11. QED
  BY <1>4, <1>5, <1>6, <1>7, <1>8, <1>9, <1>10 DEF Next, Client, Network

(* No two calls send one number in one session, so that the server never    *)
(* refuses one as a duplicate, and what it refuses as too old was overtaken *)
(* by WINDOW newer numbers (c2s_counter in request and stream_request,      *)
(* check_and_advance on the server).                                        *)
THEOREM NumbersAreFresh == Spec => []CountersFresh
<1>1. Init => OvertakenInv
  <2>1. Len(<<>>) = 0
    OBVIOUS
  <2>2. QED
    BY <2>1 DEF Init, OvertakenInv, Overtaken, NoCall
<1>2. IInv /\ OvertakenInv => CountersFresh
  BY DEF IInv, CallInv, UnknownHasNotRun, CountersFresh, OvertakenInv, Overtaken
<1>3. QED
  BY <1>1, <1>2, OvertakenNext, Invariance, PTL DEF Spec

(* Only an error that is raised makes a call end with UNKNOWN_SESSION. *)
LEMMA UnknownIsRaised ==
    ASSUME TypeOK, [Next]_vars, NEW t \in Threads,
           call[t].result # "unknown", call'[t].result = "unknown"
    PROVE  Raise(t)
<1>1. call \in [Threads -> Calls]
  BY DEF TypeOK
<1>2. ASSUME NEW u \in Threads, NEW c, Becomes(u, c) PROVE u = t /\ c.result = "unknown"
  BY <1>1, <1>2 DEF Becomes
<1>3. call' # call
  OBVIOUS
<1>4. NoCall.result = "none" /\ \A r : Ended(r).result = r
  BY DEF NoCall, Ended
<1>5. ASSUME NEW u \in Threads, NEW d, Becomes(u, d), d.result \in {"none", call[u].result}
      PROVE  FALSE
  BY <1>2, <1>5
<1>6. ASSUME NEW stream \in BOOLEAN, NEW u \in Threads, Begin(u, stream) PROVE FALSE
  <2> DEFINE d == [NoCall EXCEPT !.pc = "session", !.stream = stream,
                                 !.retry = ~stream, !.since = Opened]
  <2>1. Becomes(u, d)
    BY <1>6 DEF Begin
  <2>2. d.result = "none"
    BY DEF NoCall
  <2> HIDE DEF d
  <2>3. QED
    BY <1>5, <2>1, <2>2
<1>7. ASSUME NEW u \in Threads
      PROVE  /\ ~UseSession(u) /\ ~BeginHandshake(u) /\ ~Rehandshake(u) /\ ~HandshakeDone(u)
             /\ ~Count(u) /\ ~ServerRuns(u) /\ ~ServerRefuses(u) /\ ~ServerSeals(u)
             /\ ~StreamDone(u)
  <2> DEFINE c == call[u]
  <2>1. c \in Calls
    BY <1>1
  <2> HIDE DEF c
  <2>2. ASSUME UseSession(u) PROVE FALSE
    <3> DEFINE d == [c EXCEPT !.pc = "count", !.sid = cur]
    <3>1. Becomes(u, d)
      BY <2>2 DEF UseSession, c
    <3>2. d.result = c.result
      BY <2>1 DEF Calls
    <3> HIDE DEF d
    <3>3. QED
      BY <1>5, <3>1, <3>2 DEF c
  <2>3. ASSUME HandshakeDone(u) PROVE FALSE
    <3> DEFINE d == [c EXCEPT !.pc = "count", !.sid = Opened + 1]
    <3>1. Becomes(u, d)
      BY <2>3 DEF HandshakeDone, c
    <3>2. d.result = c.result
      BY <2>1 DEF Calls
    <3> HIDE DEF d
    <3>3. QED
      BY <1>5, <3>1, <3>2 DEF c
  <2>4. ASSUME BeginHandshake(u) PROVE FALSE
    <3> DEFINE d == [c EXCEPT !.pc = "handshake"]
    <3>1. Becomes(u, d)
      BY <2>4 DEF BeginHandshake, c
    <3>2. d.result = c.result
      BY <2>1 DEF Calls
    <3> HIDE DEF d
    <3>3. QED
      BY <1>5, <3>1, <3>2 DEF c
  <2>5. ASSUME Count(u) PROVE FALSE
    <3> DEFINE d == [c EXCEPT !.pc = "send", !.ctr = sent[c.sid] + 1]
    <3>1. Becomes(u, d)
      BY <2>5 DEF Count, Seal, c
    <3>2. d.result = c.result
      BY <2>1 DEF Calls
    <3> HIDE DEF d
    <3>3. QED
      BY <1>5, <3>1, <3>2 DEF c
  <2>6. ASSUME ServerRuns(u) PROVE FALSE
    <3> DEFINE d == [c EXCEPT !.pc = "run", !.ran = @ + 1]
    <3>1. Becomes(u, d)
      BY <2>6 DEF ServerRuns, c
    <3>2. d.result = c.result
      BY <2>1 DEF Calls
    <3> HIDE DEF d
    <3>3. QED
      BY <1>5, <3>1, <3>2 DEF c
  <2>7. ASSUME Rehandshake(u) PROVE FALSE
    <3> DEFINE d == [c EXCEPT !.pc = "session", !.retry = RetryOnce, !.inbox = <<>>]
    <3>1. Becomes(u, d)
      BY <2>7 DEF Rehandshake, c
    <3>2. d.result = c.result
      BY <2>1 DEF Calls
    <3> HIDE DEF d
    <3>3. QED
      BY <1>5, <3>1, <3>2 DEF c
  <2>8. ASSUME ServerRefuses(u) \/ ServerSeals(u) \/ StreamDone(u) PROVE FALSE
    <3>1. PICK pc, kind, n : Becomes(u, Got(c, pc, kind, n))
      BY <2>8 DEF ServerRefuses, ServerSeals, StreamDone, Gets, c
    <3> DEFINE d == Got(c, pc, kind, n)
    <3>2. d.result = c.result
      BY <2>1 DEF Calls, Got
    <3> HIDE DEF d
    <3>3. Becomes(u, d)
      BY <3>1 DEF d
    <3>4. QED
      BY <1>5, <3>2, <3>3 DEF c
  <2>9. QED
    BY <2>2, <2>3, <2>4, <2>5, <2>6, <2>7, <2>8
<1>8. ASSUME NEW u \in Threads
      PROVE  ~HandshakeFails(u) /\ ~NetworkFails(u) /\ ~Unreadable(u) /\ ~RaiseReplay(u)
             /\ ~EndOfStream(u) /\ ~Accept(u)
  <2>1. ASSUME NEW r, r # "unknown" PROVE ~Becomes(u, Ended(r))
    BY <1>2, <1>4, <2>1
  <2>2. ~Becomes(u, [call[u] EXCEPT !.inbox = Tail(@)])
    BY <1>1, <1>2 DEF Calls
  <2>3. QED
    BY <2>1, <2>2 DEF HandshakeFails, NetworkFails, Unreadable, RaiseReplay, EndOfStream,
                      Accept, Ends
<1>9. ~ResetSession /\ \A s \in Sids : ~Expire(s)
  BY <1>3 DEF ResetSession, Expire
<1>10. ~UNCHANGED vars
  BY <1>3 DEF vars
<1>11. PICK u \in Threads : Raise(u)
  BY <1>6, <1>7, <1>8, <1>9, <1>10 DEF Next, Client, Network
<1>12. u = t
  BY <1>2, <1>11 DEF Raise, Ends
<1>13. QED
  BY <1>11, <1>12

(* A request shows UNKNOWN_SESSION to its caller only for a session that    *)
(* was opened after the request began (the retry of request).               *)
THEOREM OldExpiryIsHidden == Spec => ExpiryHidden
<1> DEFINE Hidden(t) == call'[t].result = "unknown" /\ call[t].pc = "answer" /\ ~call[t].stream
                           => call[t].sid > call[t].since
<1>1. ASSUME IInv, [Next]_vars, NEW t \in Threads PROVE Hidden(t)
  <2> SUFFICES ASSUME call'[t].result = "unknown", call[t].pc = "answer", ~call[t].stream
               PROVE  call[t].sid > call[t].since
    OBVIOUS
  <2>1. call[t].result = "none" /\ call[t] \in Calls /\ TypeOK
    BY <1>1 DEF IInv, CallInv, Shape, TypeOK
  <2>2. Raise(t)
    BY <1>1, <2>1, UnknownIsRaised
  <2>3. call'[t].result = "unknown" /\ call[t].inbox \in Seq(Answers) /\ First(t).kind = "unknown"
    BY <2>1, <2>2 DEF Raise, Calls, Ends, Becomes, Ended, NoCall, TypeOK
  <2>4. ~call[t].retry
    BY <2>2, <2>3 DEF Raise, Retriable
  <2>5. QED
    BY <1>1, <2>4 DEF IInv, CallInv, Young, Reached
<1>2. IInv /\ [Next]_vars => [\A t \in Threads : Hidden(t)]_vars
  BY <1>1
<1>3. QED
  BY <1>2, Invariance, PTL DEF Spec, ExpiryHidden
=============================================================================
