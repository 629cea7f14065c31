-------------------------- MODULE ClientTransport ---------------------------
(***************************************************************************)
(* The client's Transport: calls that share one session, one lock and one  *)
(* replay check, with the automatic rehandshake of request().  The calls   *)
(* of a behaviour are threads, or generators of stream_request that are    *)
(* left open while other calls run.                                        *)
(*                                                                         *)
(* A step is what a call does between two points where another one may     *)
(* overtake it: the lock, the network, and the reads of _session and       *)
(* _replay outside the lock.  A handshake holds the lock until it is over. *)
(*                                                                         *)
(* The server is what SessionServer promises, with AntiReplay's window: it *)
(* runs an endpoint at most once per counter, refuses a counter that is    *)
(* WINDOW or more behind the newest it has taken, answers UNKNOWN_SESSION  *)
(* for a session that has ended and numbers what it seals.  Sessions end   *)
(* at any time, by expiry, by a restart or by this client's DELETE.        *)
(* Requests may overtake one another.  Requests and answers may be lost,   *)
(* which ends a call with an exception of the HTTP library.                *)
(***************************************************************************)
EXTENDS Naturals, Sequences, FiniteSets

CONSTANTS Threads,      \* callers of request and stream_request
          MaxCalls,     \* bound: calls of a behaviour
          MaxSeals,     \* bound: where the streams of a session end
          WINDOW,       \* 1024: WINDOW_BITS of the server's replay window
          MAX_SEEN,     \* 4096: what _ReplayClient remembers at most
          KEEP,         \* 2048: ... and after it has forgotten the oldest
          MayReset,     \* whether the user calls reset_session
          NoThread

ASSUME TransportAssumption ==
    /\ NoThread \notin Threads
    /\ MayReset \in BOOLEAN /\ MaxCalls \in Nat /\ MaxSeals \in Nat
    /\ WINDOW \in Nat \ {0} /\ MAX_SEEN \in Nat /\ KEEP \in Nat /\ KEEP <= MAX_SEEN

VARIABLES lock,     \* _lock: its holder
          cur,      \* _session: the session in use, 0 for None
          rep,      \* _replay, known by the handshake that made it
          seen,     \* the counters in each _ReplayClient
          sent,     \* c2s_counter of each _SessionState
          call,     \* the calls
          begun,    \* how many there have been
          srv       \* the server's sessions

vars == <<lock, cur, rep, seen, sent, call, begun, srv>>

(* Sessions are numbered as opened; a call makes two handshakes at most. *)
MaxSessions == 2 * MaxCalls
Sids == 1 .. MaxSessions
Replays == {0} \cup Sids

Results == {"none", "ok", "failed", "unknown", "stale", "duplicate", "unreadable", "replay"}
Answers == [kind : {"sealed", "zeroed", "unknown", "stale", "duplicate", "done"}, n : Nat]

Calls == [pc : {"idle", "session", "handshake", "count", "send", "run", "answer"},
          stream : BOOLEAN, retry : BOOLEAN, sid : {0} \cup Sids, ctr : Nat,
          inbox : Seq(Answers), ran : Nat, since : Nat, result : Results]

NoCall == [pc |-> "idle", stream |-> FALSE, retry |-> FALSE, sid |-> 0, ctr |-> 0,
           inbox |-> <<>>, ran |-> 0, since |-> 0, result |-> "none"]

ServerSessions == [state : {"unborn", "open", "expired", "deleted"},
                   taken : SUBSET Nat, s2c : Nat]

Init == /\ lock = NoThread
        /\ cur = 0
        /\ rep = 0
        /\ seen = [r \in Replays |-> {}]
        /\ sent = [s \in Sids |-> 0]
        /\ call = [t \in Threads |-> NoCall]
        /\ begun = 0
        /\ srv = [s \in Sids |-> [state |-> "unborn", taken |-> {}, s2c |-> 0]]

Opened == Cardinality({s \in Sids : srv[s].state # "unborn"})

Becomes(t, c) == call' = [call EXCEPT ![t] = c]

(* The call returns or raises. *)
Ended(result) == [NoCall EXCEPT !.result = result]
Ends(t, result) == Becomes(t, Ended(result))

-----------------------------------------------------------------------------
(* _session_state *)

Begin(t, stream) ==
    /\ call[t].pc = "idle"
    /\ begun < MaxCalls
    /\ begun' = begun + 1
    /\ Becomes(t, [NoCall EXCEPT !.pc = "session", !.stream = stream,
                                 !.retry = ~stream, !.since = Opened])
    /\ UNCHANGED <<lock, cur, rep, seen, sent, srv>>

UseSession(t) ==
    /\ call[t].pc = "session"
    /\ lock = NoThread
    /\ cur # 0
    /\ Becomes(t, [call[t] EXCEPT !.pc = "count", !.sid = cur])
    /\ UNCHANGED <<lock, cur, rep, seen, sent, begun, srv>>

BeginHandshake(t) ==
    /\ call[t].pc = "session"
    /\ lock = NoThread
    /\ cur = 0
    /\ lock' = t
    /\ Becomes(t, [call[t] EXCEPT !.pc = "handshake"])
    /\ UNCHANGED <<cur, rep, seen, sent, begun, srv>>

Opens(s) == [srv EXCEPT ![s].state = "open"]

(* _do_handshake returns: a new replay check, then the new session. *)
HandshakeDone(t) ==
    LET s == Opened + 1 IN
    /\ call[t].pc = "handshake"
    /\ srv' = Opens(s)
    /\ rep' = s
    /\ cur' = s
    /\ lock' = NoThread
    /\ Becomes(t, [call[t] EXCEPT !.pc = "count", !.sid = s])
    /\ UNCHANGED <<seen, sent, begun>>

(* ... or raises: refused by the server, lost, or lost on the way back. *)
HandshakeFails(t) ==
    /\ call[t].pc = "handshake"
    /\ srv' = srv \/ srv' = Opens(Opened + 1)
    /\ lock' = NoThread
    /\ Ends(t, "failed")
    /\ UNCHANGED <<cur, rep, seen, sent, begun>>

-----------------------------------------------------------------------------
(* request and stream_request: number, seal, send *)

(* Mutant: the increment is made on a copy of the session state. *)
CountUnstored(t) ==
    /\ call[t].pc = "count"
    /\ lock = NoThread
    /\ Becomes(t, [call[t] EXCEPT !.pc = "send", !.ctr = sent[call[t].sid] + 1])
    /\ UNCHANGED <<lock, cur, rep, seen, sent, begun, srv>>

(* seal: the envelope is bound to its counter and goes out. *)
Seal(c, counter) == [c EXCEPT !.pc = "send", !.ctr = counter]

Count(t) ==
    /\ call[t].pc = "count"
    /\ lock = NoThread
    /\ sent' = [sent EXCEPT ![call[t].sid] = @ + 1]
    /\ Becomes(t, Seal(call[t], sent[call[t].sid] + 1))
    /\ UNCHANGED <<lock, cur, rep, seen, begun, srv>>

Got(c, pc, kind, n) == [c EXCEPT !.pc = pc, !.inbox = Append(@, [kind |-> kind, n |-> n])]
Gets(t, kind, n) == Becomes(t, Got(call[t], "answer", kind, n))

(* check_and_advance on the server: a counter that newer ones have left     *)
(* WINDOW or more behind is refused before the bitmap is looked at.         *)
Behind(s, n) == \E m \in srv[s].taken : m >= n + WINDOW

(* decrypt_request on the server *)
ServerRefuses(t) ==
    LET s == call[t].sid
        n == call[t].ctr IN
    /\ call[t].pc = "send"
    /\ \/ /\ srv[s].state # "open"
          /\ Gets(t, "unknown", 0)
       \/ /\ srv[s].state = "open" /\ Behind(s, n)
          /\ Gets(t, "stale", 0)
       \/ /\ srv[s].state = "open" /\ ~Behind(s, n) /\ n \in srv[s].taken
          /\ Gets(t, "duplicate", 0)
    /\ UNCHANGED <<lock, cur, rep, seen, sent, begun, srv>>

ServerRuns(t) ==
    LET s == call[t].sid IN
    /\ call[t].pc = "send"
    /\ srv[s].state = "open" /\ ~Behind(s, call[t].ctr)
    /\ call[t].ctr \notin srv[s].taken
    /\ srv' = [srv EXCEPT ![s].taken = @ \cup {call[t].ctr}]
    /\ Becomes(t, [call[t] EXCEPT !.pc = "run", !.ran = @ + 1])
    /\ UNCHANGED <<lock, cur, rep, seen, sent, begun>>

(* encrypt_response and _seal_chunk: a session this client has deleted      *)
(* seals with the zeroed key.                                               *)
SealKind(s) == IF srv[s].state = "deleted" THEN "zeroed" ELSE "sealed"

Sealed(s) == [srv EXCEPT ![s].s2c = @ + 1]

ServerSeals(t) ==
    LET s == call[t].sid IN
    /\ call[t].pc = "run"
    /\ srv' = Sealed(s)
    /\ IF call[t].stream
       THEN /\ srv[s].s2c < MaxSeals
            /\ Becomes(t, Got(call[t], "run", SealKind(s), srv[s].s2c + 1))
       ELSE Gets(t, SealKind(s), srv[s].s2c + 1)
    /\ UNCHANGED <<lock, cur, rep, seen, sent, begun>>

(* data: [DONE] *)
StreamDone(t) ==
    /\ call[t].pc = "run" /\ call[t].stream
    /\ Gets(t, "done", 0)
    /\ UNCHANGED <<lock, cur, rep, seen, sent, begun, srv>>

(* The HTTP library raises: the request was lost, or its answer was, in     *)
(* which case the server may or may not have sealed it; or the caller drops *)
(* the generator of its stream.                                             *)
NetworkFails(t) ==
    /\ call[t].pc \in {"send", "run"}
    /\ \/ UNCHANGED srv
       \/ call[t].pc = "run" /\ srv' = Sealed(call[t].sid)
    /\ Ends(t, "failed")
    /\ UNCHANGED <<lock, cur, rep, seen, sent, begun>>

-----------------------------------------------------------------------------
(* request: the rehandshake; _decode_response; the loop of stream_request *)

Arrived(t) == call[t].pc \in {"answer", "run"} /\ call[t].inbox # <<>>
First(t) == Head(call[t].inbox)

(* Mutant: the session is kept for the second attempt. *)
SessionKept == cur

SessionDropped == 0

(* Mutant: the recursive call is made with the lock held. *)
LockKept(t) == t

LockAfterDrop(t) == NoThread

(* Mutant: a lost answer is retried as well. *)
RetriableLost(t) == /\ call[t].retry
                    /\ \/ call[t].pc = "run"
                       \/ Arrived(t) /\ First(t).kind = "unknown"

(* The one automatic retry of request *)
Retriable(t) == call[t].retry /\ Arrived(t) /\ First(t).kind = "unknown"

(* Mutant: the second attempt may be retried as well. *)
RetryAgain == TRUE

RetryOnce == FALSE

Rehandshake(t) ==
    /\ Retriable(t)
    /\ lock = NoThread
    /\ cur' = SessionDropped
    /\ lock' = LockAfterDrop(t)
    /\ Becomes(t, [call[t] EXCEPT !.pc = "session", !.retry = RetryOnce, !.inbox = <<>>])
    /\ UNCHANGED <<rep, seen, sent, begun, srv>>

(* An error in plain JSON *)
Raise(t) ==
    /\ Arrived(t) /\ ~Retriable(t)
    /\ \E kind \in {"unknown", "stale", "duplicate"} : First(t).kind = kind /\ Ends(t, kind)
    /\ UNCHANGED <<lock, cur, rep, seen, sent, begun, srv>>

(* open_envelope: the session's key does not open it. *)
Unreadable(t) ==
    /\ Arrived(t)
    /\ First(t).kind = "zeroed"
    /\ Ends(t, "unreadable")
    /\ UNCHANGED <<lock, cur, rep, seen, sent, begun, srv>>

(* _ReplayClient.check: forget the oldest when there are too many. *)
Newest(ns) == {n \in ns : Cardinality({m \in ns : m > n}) < KEEP}
Remember(ns, n) == LET all == ns \cup {n} IN
                   IF Cardinality(all) > MAX_SEEN THEN Newest(all) ELSE all

(* The check is made against whatever _replay is by then.  It is not under  *)
(* the lock; two checks of one number at the same moment, which could both  *)
(* pass, are taken one after the other here.                                *)
Accept(t) ==
    /\ Arrived(t)
    /\ First(t).kind = "sealed"
    /\ First(t).n \notin seen[rep]
    /\ seen' = [seen EXCEPT ![rep] = Remember(@, First(t).n)]
    /\ Becomes(t, IF call[t].stream THEN [call[t] EXCEPT !.inbox = Tail(@)] ELSE Ended("ok"))
    /\ UNCHANGED <<lock, cur, rep, sent, begun, srv>>

RaiseReplay(t) ==
    /\ Arrived(t)
    /\ First(t).kind = "sealed"
    /\ First(t).n \in seen[rep]
    /\ Ends(t, "replay")
    /\ UNCHANGED <<lock, cur, rep, seen, sent, begun, srv>>

EndOfStream(t) ==
    /\ Arrived(t)
    /\ First(t).kind = "done"
    /\ Ends(t, "ok")
    /\ UNCHANGED <<lock, cur, rep, seen, sent, begun, srv>>

-----------------------------------------------------------------------------
(* reset_session, by close or by the user: DELETE while holding the lock;   *)
(* it may be lost, or the session may have ended before.                    *)
ResetSession ==
    /\ MayReset
    /\ lock = NoThread
    /\ cur # 0
    /\ cur' = 0
    /\ \/ UNCHANGED srv
       \/ srv[cur].state = "open" /\ srv' = [srv EXCEPT ![cur].state = "deleted"]
    /\ UNCHANGED <<lock, rep, seen, sent, call, begun>>

(* The server lets a session expire, or is restarted. *)
Expire(s) ==
    /\ srv[s].state = "open"
    /\ srv' = [srv EXCEPT ![s].state = "expired"]
    /\ UNCHANGED <<lock, cur, rep, seen, sent, call, begun>>

Client(t) == \/ UseSession(t) \/ BeginHandshake(t) \/ Count(t)
             \/ Rehandshake(t) \/ Raise(t) \/ Unreadable(t) \/ Accept(t) \/ RaiseReplay(t) \/ EndOfStream(t)

Network(t) == \/ HandshakeDone(t) \/ HandshakeFails(t)
              \/ ServerRefuses(t) \/ ServerRuns(t) \/ ServerSeals(t) \/ StreamDone(t)
              \/ NetworkFails(t)

Next == \/ \E t \in Threads, stream \in BOOLEAN : Begin(t, stream)
        \/ \E t \in Threads : Client(t) \/ Network(t)
        \/ ResetSession
        \/ \E s \in Sids : Expire(s)

Spec == Init /\ [][Next]_vars

(* Threads run, and the HTTP library gives every exchange an end: an        *)
(* answer, the end of the stream, or its timeout.                           *)
Fairness == \A t \in Threads : WF_vars(Client(t)) /\ WF_vars(Network(t))

FairSpec == Spec /\ Fairness

-----------------------------------------------------------------------------
TypeOK ==
    /\ lock \in Threads \cup {NoThread}
    /\ cur \in {0} \cup Sids
    /\ rep \in Replays
    /\ seen \in [Replays -> SUBSET Nat]
    /\ sent \in [Sids -> Nat]
    /\ call \in [Threads -> Calls]
    /\ begun \in 0 .. MaxCalls
    /\ srv \in [Sids -> ServerSessions]

(* A call's endpoint runs at most once, although the call may be sent a     *)
(* second time: only UNKNOWN_SESSION, which says that nothing has run, is   *)
(* retried (request, transport.py:191-200).                                 *)
RanAtMostOnce == \A t \in Threads : call[t].ran <= 1

(* No request is refused as a duplicate: no two calls that share a session, *)
(* whatever sessions come and go meanwhile, send the same counter.  One is  *)
(* refused for its age only if WINDOW newer numbers of its session were     *)
(* given out while it was on its way (request and stream_request,           *)
(* c2s_counter; check_and_advance, replay.py:34-39).                        *)
CountersFresh ==
    \A t \in Threads :
       /\ call[t].result # "duplicate"
       /\ \A i \in 1 .. Len(call[t].inbox) :
             call[t].inbox[i].kind = "stale" => sent[call[t].sid] >= call[t].ctr + WINDOW

(* The user of request sees UNKNOWN_SESSION only if a session that was      *)
(* opened during the call has ended again: an old session, however many     *)
(* calls find out at once that it is gone, is replaced unnoticed            *)
(* (transport.py:191-200).                                                  *)
ExpiryHidden ==
    [][\A t \in Threads :
          call'[t].result = "unknown" /\ call[t].pc = "answer" /\ ~call[t].stream
             => call[t].sid > call[t].since]_vars

(* Every call returns or raises: no call waits for ever for the lock or for *)
(* another one (request, stream_request, _session_state).                   *)
CallsEnd == \A t \in Threads : call[t].pc # "idle" ~> call[t].pc = "idle"

(* "The client's own watch on s2c counters must reset too, otherwise the    *)
(* next response's counter=1 collides with the previous session's           *)
(* counter=1 and gets rejected as a (false) replay" (transport.py:136-139): *)
(* the server never repeats a number, so no answer is rejected as a replay. *)
NoFalseReplay == \A t \in Threads : call[t].result # "replay"
=============================================================================
