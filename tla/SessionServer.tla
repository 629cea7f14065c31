--------------------------- MODULE SessionServer ----------------------------
(***************************************************************************)
(* One server process with the in-memory session store: the handshake that *)
(* opens a session, the allowlist behind it, the decrypt_request /         *)
(* encrypt_response pair around every endpoint, termination by DELETE or   *)
(* by an administrator, expiry and the reaper.                             *)
(*                                                                         *)
(* Everything between two awaits that really suspend is one step: with the *)
(* in-memory store, decrypt_request runs from the lookup to persist without*)
(* giving up the event loop, so it is one step with the endpoint's first   *)
(* part.  The endpoints that wait for a model answer in a later step.      *)
(*                                                                         *)
(* Envelopes travel on a network that may lose, delay, duplicate, reorder  *)
(* or damage them, and a client numbers its envelopes as fast as it likes: *)
(* any counter can arrive at any time.  A refusal that changes no state    *)
(* (malformed envelope, unknown session, replayed counter, rejected        *)
(* handshake) is a stuttering step.                                        *)
(***************************************************************************)
EXTENDS Replay

CONSTANTS Clients,       \* entries of authorized_clients.toml
          Sids,          \* session ids
          Reqs,          \* concurrently running request handlers
          NoClient,      \* owner of a session id not handed out yet
          NoSid,         \* session of a handler that is not running
          Tenant,        \* [Clients -> tenant names]
          Scope,         \* [Clients -> {"user", "admin", "super_admin"}]
          NotBefore, NotAfter,   \* [Clients -> time], validity of the entries
          TTL,           \* session_ttl_seconds
          MAX_LIFETIME,  \* session_max_lifetime_seconds
          SKEW,          \* handshake_skew_seconds
          MaxTime, MaxCounter, MaxSeals   \* bounds of the model

ASSUME ClientsAssumption ==
    /\ NoClient \notin Clients
    /\ NoSid \notin Sids
    /\ Scope \in [Clients -> {"user", "admin", "super_admin"}]
    /\ NotBefore \in [Clients -> Nat] /\ NotAfter \in [Clients -> Nat]

ASSUME TimesAssumption ==
    /\ TTL \in Nat /\ MAX_LIFETIME \in Nat /\ SKEW \in Nat
    /\ MaxTime \in Nat /\ MaxCounter \in Nat /\ MaxSeals \in Nat

VARIABLES now,       \* time.time()
          file,      \* the allowlist file: [Clients -> "ok" | "revoked"]
          allow,     \* Keystore.allowlist, read from the file at (re)load
          revokedAt, \* history: when the allowlist last turned a client away
          sess,      \* the Session objects, also the ones out of the table
          table,     \* ids in InMemorySessionStore._by_id
          busy,      \* [Reqs -> session whose request the handler serves]
          handled,   \* history: how often an endpoint ran for a counter
          sealed     \* history: how often a key sealed under a counter

vars == <<now, file, allow, revokedAt, sess, table, busy, handled, sealed>>

Counters == 1 .. MaxCounter
Keys == {"live", "zero"}
Standing == {"ok", "revoked"}

Sessions == [owner : Clients \cup {NoClient}, created : Nat, last : Nat,
             window : ReplayWindows, s2c : Nat, closed : BOOLEAN, key : Keys]

Unborn == [owner |-> NoClient, created |-> 0, last |-> 0, window |-> FreshWindow,
           s2c |-> 0, closed |-> FALSE, key |-> "live"]

Made(sid) == sess[sid].owner # NoClient

Init == /\ now = 0
        /\ file = [c \in Clients |-> "ok"]
        /\ allow = file                      \* load_or_init_keystore
        /\ revokedAt = [c \in Clients |-> 0]
        /\ sess = [sid \in Sids |-> Unborn]
        /\ table = {}
        /\ busy = [r \in Reqs |-> NoSid]
        /\ handled = [sid \in Sids |-> [c \in Counters |-> 0]]
        /\ sealed = [sid \in Sids |-> [k \in Keys |-> [n \in 1 .. MaxSeals |-> 0]]]

-----------------------------------------------------------------------------
(* Sessions and the table *)

Expired(s) == \/ s.closed
              \/ now - s.last > TTL
              \/ now - s.created > MAX_LIFETIME

(* Mutant: the store returns whatever is in its dict. *)
FoundEvenIfExpired(sid) == sid \in table

(* SessionManager.lookup_async over the in-memory store: the store already  *)
(* hides expired entries, so the zeroize-and-delete branch is never taken.  *)
Found(sid) == sid \in table /\ ~Expired(sess[sid])

(* Mutant: the keys are dropped instead of overwritten. *)
ZeroizedToNone(s) == [s EXCEPT !.closed = TRUE, !.key = "none"]

(* The keys and the flag after SessionManager._zeroize *)
Zeroized(s) == [s EXCEPT !.closed = TRUE, !.key = "zero"]

(* SessionManager.terminate applied to the objects ss: an expired entry is  *)
(* not found, neither zeroized nor removed.                                 *)
Terminated(ss, sid) == IF Found(sid) THEN [ss EXCEPT ![sid] = Zeroized(@)] ELSE ss
TableWithout(tab, sid) == IF Found(sid) THEN tab \ {sid} ELSE tab

Reapable(sid) == Expired(sess[sid])

-----------------------------------------------------------------------------
(* Clock, operator and handshake *)

Tick == /\ now < MaxTime
        /\ now' = now + 1
        /\ UNCHANGED <<file, allow, revokedAt, sess, table, busy, handled, sealed>>

(* The operator edits authorized_clients.toml; nothing reads it yet. *)
EditFile(c, s) ==
    /\ file[c] # s
    /\ file' = [file EXCEPT ![c] = s]
    /\ UNCHANGED <<now, allow, revokedAt, sess, table, busy, handled, sealed>>

Abs(n) == IF n < 0 THEN -n ELSE n

(* Mutant: the revoked flag is not looked at. *)
HandshakeOKRevokedToo(c, ts) ==
    /\ Abs(now - ts) <= SKEW
    /\ NotBefore[c] <= now /\ now <= NotAfter[c]

(* perform_handshake gets to its end *)
HandshakeOK(c, ts) ==
    /\ Abs(now - ts) <= SKEW
    /\ allow[c] = "ok"
    /\ NotBefore[c] <= now /\ now <= NotAfter[c]

(* POST /v1/session: every accepted arrival of a hello signed at ts, by     *)
(* whatever clock and however late or often it arrives, opens a session     *)
(* with an id and keys of its own.                                          *)
CreateSession(c, ts, sid) ==
    /\ HandshakeOK(c, ts)
    /\ ~Made(sid)
    /\ sess' = [sess EXCEPT ![sid] = [Unborn EXCEPT !.owner = c, !.created = now, !.last = now]]
    /\ table' = table \cup {sid}
    /\ UNCHANGED <<now, file, allow, revokedAt, busy, handled, sealed>>

-----------------------------------------------------------------------------
(* decrypt_request *)

(* The counter of an arriving envelope passes check_and_advance. *)
Passes(sid, c) == /\ Found(sid)
                  /\ ~Rejects(sess[sid].window, c)

(* The session after the replay check alone *)
Consumed(sid, c) == [sess[sid] EXCEPT !.window = Advance(@, c)]

(* Mutant: the window is checked and not advanced. *)
AdmittedUnadvanced(sid, c) == [sess[sid] EXCEPT !.last = now]

(* ... and after touch() *)
Admitted(sid, c) == [Consumed(sid, c) EXCEPT !.last = now]

Ran(sid, c) == [handled EXCEPT ![sid][c] = @ + 1]

(* DECRYPT_FAILED or BAD_REQUEST: the envelope was damaged on the way, was  *)
(* sealed for another path, or its body does not fit the schema.  The       *)
(* counter is used up all the same; the session is not touched.             *)
RefuseBody(sid, c) ==
    /\ Passes(sid, c)
    /\ sess' = [sess EXCEPT ![sid] = Consumed(sid, c)]
    /\ UNCHANGED <<now, file, allow, revokedAt, table, busy, handled, sealed>>

-----------------------------------------------------------------------------
(* Sealing: encrypt_response and _seal_chunk *)

CanSeal(s) == s.s2c < MaxSeals

(* Mutant: "=+ 1" for "+= 1". *)
WithCounterOne(s) == [s EXCEPT !.s2c = 1]

WithNextCounter(s) == [s EXCEPT !.s2c = @ + 1]

Logged(sid, key, n) == [sealed EXCEPT ![sid][key][n] = @ + 1]

Privileged(sid) == Scope[sess[sid].owner] \in {"admin", "super_admin"}
Super(sid) == Scope[sess[sid].owner] = "super_admin"
TenantOf(sid) == Tenant[sess[sid].owner]

(* The endpoints that answer without waiting: the admin lists, denials,     *)
(* and errors of the model manager.                                         *)
AnswerAtOnce(sid, c) ==
    /\ Passes(sid, c)
    /\ CanSeal(sess[sid])
    /\ sess' = [sess EXCEPT ![sid] = WithNextCounter(Admitted(sid, c))]
    /\ table' = table \cup {sid}
    /\ handled' = Ran(sid, c)
    /\ sealed' = Logged(sid, sess[sid].key, sess'[sid].s2c)
    /\ UNCHANGED <<now, file, allow, revokedAt, busy>>

(* chat, completions, embeddings, and the model endpoints that load, unload *)
(* or download: decrypt_request, then a long await.                         *)
StartInference(r, sid, c) ==
    /\ busy[r] = NoSid
    /\ Passes(sid, c)
    /\ sess' = [sess EXCEPT ![sid] = Admitted(sid, c)]
    /\ table' = table \cup {sid}                     \* persist
    /\ handled' = Ran(sid, c)
    /\ busy' = [busy EXCEPT ![r] = sid]
    /\ UNCHANGED <<now, file, allow, revokedAt, sealed>>

(* Mutant: the answer persists the session so that s2c_counter is stored. *)
TablePersistedBy(sid) == table \cup {sid}

(* encrypt_response stores nothing *)
TableAfterSeal(sid) == table

(* _seal_chunk or encrypt_response with the session's present s2c key. *)
Emit(r) ==
    LET sid == busy[r] IN
    /\ sid # NoSid
    /\ CanSeal(sess[sid])
    /\ sess' = [sess EXCEPT ![sid] = WithNextCounter(@)]
    /\ sealed' = Logged(sid, sess[sid].key, sess'[sid].s2c)
    /\ table' = TableAfterSeal(sid)

(* One sealed chunk of a streamed answer *)
StreamChunk(r) ==
    /\ Emit(r)
    /\ UNCHANGED <<now, file, allow, revokedAt, busy, handled>>

(* The sealed answer of a request that waited *)
Respond(r) ==
    /\ Emit(r)
    /\ busy' = [busy EXCEPT ![r] = NoSid]
    /\ UNCHANGED <<now, file, allow, revokedAt, handled>>

(* A stream ends with an unsealed [DONE], or its client hangs up; or the    *)
(* model has raised and the handler ends in a plain 500.                    *)
EndStream(r) ==
    /\ busy[r] # NoSid
    /\ busy' = [busy EXCEPT ![r] = NoSid]
    /\ UNCHANGED <<now, file, allow, revokedAt, sess, table, handled, sealed>>

-----------------------------------------------------------------------------
(* Termination, reload, reaper *)

(* DELETE /v1/session/{id}: no envelope, the id is all it takes. *)
DeleteSession(sid) ==
    /\ Found(sid)
    /\ sess' = Terminated(sess, sid)
    /\ table' = TableWithout(table, sid)
    /\ UNCHANGED <<now, file, allow, revokedAt, busy, handled, sealed>>

(* Mutant: the goodbye is sealed with whatever key the session has left. *)
GoodbyeKeyUnsaved(sid, target) == Terminated(sess, target)[sid].key

(* saved_direction, read before terminate zeroes it; None if the target is  *)
(* another session, whose termination leaves this session's key alone.      *)
GoodbyeKey(sid, target) ==
    IF sid = target THEN sess[sid].key ELSE Terminated(sess, target)[sid].key

MayTerminate(sid, target) ==
    Found(target) => Super(sid) \/ TenantOf(target) = TenantOf(sid)

(* POST /v1/admin/sessions/terminate past both denials. *)
AdminTerminate(sid, c, target) ==
    /\ Passes(sid, c)
    /\ Privileged(sid)
    /\ MayTerminate(sid, target)
    /\ CanSeal(sess[sid])
    /\ LET after == Terminated([sess EXCEPT ![sid] = Admitted(sid, c)], target) IN
       sess' = [after EXCEPT ![sid] = WithNextCounter(@)]
    /\ table' = TableWithout(table \cup {sid}, target)
    /\ handled' = Ran(sid, c)
    /\ sealed' = Logged(sid, GoodbyeKey(sid, target), sess'[sid].s2c)
    /\ UNCHANGED <<now, file, allow, revokedAt, busy>>

(* POST /v1/admin/clients/reload: Keystore.reload_allowlist. *)
ReloadClients(sid, c) ==
    /\ Passes(sid, c)
    /\ Privileged(sid)
    /\ CanSeal(sess[sid])
    /\ allow' = file
    /\ revokedAt' = [cl \in Clients |-> IF file[cl] = "revoked" /\ allow[cl] = "ok"
                                        THEN now ELSE revokedAt[cl]]
    /\ sess' = [sess EXCEPT ![sid] = WithNextCounter(Admitted(sid, c))]
    /\ table' = table \cup {sid}
    /\ handled' = Ran(sid, c)
    /\ sealed' = Logged(sid, sess[sid].key, sess'[sid].s2c)
    /\ UNCHANGED <<now, file, busy>>

(* _reap_sessions, once a minute: InMemorySessionStore.reap_expired.  The   *)
(* objects are dropped as they are.                                         *)
Reap ==
    /\ \E sid \in table : Reapable(sid)
    /\ table' = {sid \in table : ~Reapable(sid)}
    /\ UNCHANGED <<now, file, allow, revokedAt, sess, busy, handled, sealed>>

Arrive(sid, c) ==
    \/ RefuseBody(sid, c)
    \/ AnswerAtOnce(sid, c)
    \/ \E r \in Reqs : StartInference(r, sid, c)
    \/ \E target \in Sids : AdminTerminate(sid, c, target)
    \/ ReloadClients(sid, c)

Next ==
    \/ Tick
    \/ \E c \in Clients, s \in Standing : EditFile(c, s)
    \/ \E c \in Clients, ts \in 0 .. MaxTime, sid \in Sids : CreateSession(c, ts, sid)
    \/ \E sid \in Sids, c \in Counters : Arrive(sid, c)
    \/ \E r \in Reqs : StreamChunk(r)
    \/ \E r \in Reqs : Respond(r)
    \/ \E r \in Reqs : EndStream(r)
    \/ \E sid \in Sids : DeleteSession(sid)
    \/ Reap

Spec == Init /\ [][Next]_vars

-----------------------------------------------------------------------------
TypeOK ==
    /\ now \in Nat
    /\ file \in [Clients -> Standing]
    /\ allow \in [Clients -> Standing]
    /\ revokedAt \in [Clients -> Nat]
    /\ sess \in [Sids -> Sessions]
    /\ table \subseteq Sids
    /\ busy \in [Reqs -> Sids \cup {NoSid}]
    /\ handled \in [Sids -> [Counters -> Nat]]
    /\ sealed \in [Sids -> [Keys -> [1 .. MaxSeals -> Nat]]]

(* However often and in whatever order the network delivers an envelope, an *)
(* endpoint runs at most once for it (decrypt_request's replay check).      *)
HandledAtMostOnce ==
    \A sid \in Sids : \A c \in Counters : handled[sid][c] <= 1

(* No key seals two payloads under one counter, whatever handlers, streams  *)
(* and goodbyes of the session interleave (encrypt_response, _seal_chunk).  *)
NonceNeverReused ==
    \A sid \in Sids : \A k \in Keys : \A n \in 1 .. MaxSeals : sealed[sid][k][n] <= 1

(* A terminated session is out of the table for good: neither a handler     *)
(* that was running when it was terminated nor a late envelope brings it    *)
(* back (terminate, persist).                                               *)
ClosedIsGone == \A sid \in Sids : sess[sid].closed => sid \notin table

(* A session that has ended, by termination or by time, never comes back to *)
(* life and no endpoint runs for it again (is_expired, lookup).             *)
EndIsFinal ==
    [][\A sid \in Sids : Made(sid) /\ Expired(sess[sid]) =>
          handled'[sid] = handled[sid] /\ Expired(sess[sid])']_vars

(* Revoking a client and reloading the allowlist leaves its open sessions   *)
(* alone, but they cannot outlive the reload by more than MAX_LIFETIME:     *)
(* after that no endpoint runs for the client (perform_handshake,           *)
(* is_expired, reload_allowlist).                                           *)
RevocationTakesEffect ==
    [][\A sid \in Sids :
          /\ handled'[sid] # handled[sid]
          /\ allow[sess[sid].owner] = "revoked"
          => now - revokedAt[sess[sid].owner] <= MAX_LIFETIME]_vars

(* The zeroed key seals only for handlers whose session was terminated      *)
(* under them: the step that terminates a session, the administrator's own  *)
(* goodbye included, never seals under the key it has just zeroed           *)
(* (admin.py:154-171).                                                      *)
GoodbyeIsReadable ==
    [][\A sid \in Sids :
          sealed'[sid]["zero"] # sealed[sid]["zero"] => sess[sid].closed]_vars
=============================================================================
