-------------------------- MODULE FederatedSessions --------------------------
(***************************************************************************)
(* One session served by a fleet of instances that share a Redis           *)
(* (RedisSessionStore).  Every instance has a cache of Session objects; a  *)
(* cache miss reads the record of the session, an admitted request writes  *)
(* it back, a termination deletes it.  Redis is external: it executes each *)
(* command at some moment between the await that sends it and the moment   *)
(* the handler continues, and commands of different handlers overtake each *)
(* other.  A write or a delete brings nothing back, so its execution and   *)
(* the continuation of its handler are one step; a read is executed in one *)
(* step and continued in another.                                          *)
(*                                                                         *)
(* Instances crash (and come back empty), Redis commands fail, envelopes   *)
(* are lost, delayed, duplicated, damaged and routed to any instance.      *)
(***************************************************************************)
EXTENDS Replay

CONSTANTS Instances,     \* server processes behind the load balancer
          Handlers,      \* concurrently running request handlers of the fleet
          NoObj,         \* "no Session object"
          TTL,           \* session_ttl_seconds
          MAX_LIFETIME,  \* session_max_lifetime_seconds
          FLOOR,         \* key_ttl_floor_seconds
          Objs,          \* names for the Session objects in use
          MaxTime, MaxCounter     \* bounds of the model

ASSUME FederatedAssumption ==
    /\ TTL \in Nat /\ MAX_LIFETIME \in Nat /\ FLOOR \in Nat \ {0}
    /\ MaxTime \in Nat /\ MaxCounter \in Nat
    /\ NoObj \notin Objs

VARIABLES now,       \* time.time(), the same on every instance
          obj,       \* the Session objects that a cache or a handler holds
          cache,     \* [Instances -> RedisSessionStore._cache entry or NoObj]
          redis,     \* the record under the session's key: {} or one record
          h,         \* the handlers
          spent,     \* history: counters that passed a replay check
          lastTouch, \* history: time of the last touch() on any instance
          ended      \* history: a termination has been completed

history == <<spent, lastTouch, ended>>
vars == <<now, obj, cache, redis, h, history>>

Counters == 1 .. MaxCounter

Idle == [phase |-> "idle", obj |-> NoObj, rec |-> {}]
Garbage == [created |-> 0, last |-> 0, window |-> FreshWindow, closed |-> TRUE]

Held(o) == o \in {cache[i] : i \in Instances} \cup {h[r].obj : r \in Handlers}
Free == {o \in Objs : ~Held(o)}

(* The Session objects ss without those that nothing refers to any more *)
Kept(ss) == [o \in Objs |-> IF Held(o)' THEN ss[o] ELSE Garbage]

-----------------------------------------------------------------------------
(* Session objects and records *)

Smaller(a, b) == IF a < b THEN a ELSE b
Larger(a, b) == IF a < b THEN b ELSE a

(* Session.is_expired, of an object or a record *)
Expired(s) == \/ s.closed
              \/ now - s.last > TTL
              \/ now - s.created > MAX_LIFETIME

(* SessionManager.create *)
NewSession == [created |-> now, last |-> now, window |-> FreshWindow,
               closed |-> FALSE]

(* The expiry that put gives the key *)
KeyLife(s) == Larger(FLOOR, Smaller(Larger(0, s.last + TTL - now),
                                    Larger(0, s.created + MAX_LIFETIME - now)))

(* Mutant: the head is stored as the last counter before the window. *)
SerializedBefore(s) == [created |-> s.created, last |-> s.last, high |-> s.window.high - 1,
                        closed |-> s.closed, dies |-> KeyLife(s)]

(* _serialize: of the replay window only `high'; and the expiry, which      *)
(* counts from the moment when Redis executes the SET                       *)
Serialized(s) == [created |-> s.created, last |-> s.last, high |-> s.window.high,
                  closed |-> s.closed, dies |-> KeyLife(s)]
Set(rec) == [rec EXCEPT !.dies = now + @]
Read(rec) == [rec EXCEPT !.dies = 0]

(* Mutant: reading a record counts as a use. *)
DeserializedTouched(rec) ==
    [created |-> rec.created, last |-> now,
     window |-> [high |-> rec.high, bitmap |-> {}],
     closed |-> rec.closed]

(* Mutant: every counter up to the head is taken for used. *)
DeserializedFull(rec) ==
    [created |-> rec.created, last |-> rec.last,
     window |-> [high |-> rec.high, bitmap |-> Offsets],
     closed |-> rec.closed]

(* _deserialize: the window starts at the persisted head with no bit set *)
Deserialized(rec) ==
    [created |-> rec.created, last |-> rec.last,
     window |-> [high |-> rec.high, bitmap |-> {}],
     closed |-> rec.closed]

(* lookup: the cached object, unless it has expired *)
Hit(i) == cache[i] # NoObj /\ ~Expired(obj[cache[i]])

(* GET *)
Stored == {Read(rec) : rec \in redis}

(* SessionManager._lock, held by terminate and the reaper *)
Locked(i) == \E r \in Handlers : /\ h[r].phase # "idle"
                                 /\ h[r].inst = i
                                 /\ h[r].job = "terminate"

Task(phase, i, job, c) ==
    [phase |-> phase, inst |-> i, job |-> job, c |-> c, obj |-> NoObj, rec |-> {}]

Goes(r, task) == h' = [h EXCEPT ![r] = task]
Caches(i, o) == cache' = [cache EXCEPT ![i] = o]

(* POST /v1/session has been answered, by any instance, at time 0. *)
Init == /\ now = 0
        /\ \E i \in Instances, o \in Objs :
              /\ cache = [j \in Instances |-> IF j = i THEN o ELSE NoObj]
              /\ obj = [p \in Objs |-> IF p = o THEN NewSession ELSE Garbage]
        /\ redis = {Set(Serialized(NewSession))}
        /\ h = [r \in Handlers |-> Idle]
        /\ spent = {} /\ lastTouch = 0 /\ ended = FALSE

-----------------------------------------------------------------------------
(* decrypt_request from the replay check to the write of persist, on the    *)
(* Session object o of ss: no await comes between the two.                  *)

Consumed(ss, o, c) == [ss EXCEPT ![o].window = Advance(@, c)]

Touched(ss, o, c) ==
    [Consumed(ss, o, c) EXCEPT ![o].last = now]

(* The write of put, with the record as it is when put is called *)
Persists(r, i, ss, o) ==
    Goes(r, [Task("set", i, "request", 0) EXCEPT !.obj = o, !.rec = {Serialized(ss[o])}])

Replayed(r, ss, o, c) ==
    /\ Rejects(ss[o].window, c)
    /\ Goes(r, Idle)
    /\ obj' = Kept(ss)
    /\ UNCHANGED history

(* The envelope does not open, or its body does not fit the schema. *)
Refused(r, ss, o, c) ==
    /\ ~Rejects(ss[o].window, c)
    /\ Goes(r, Idle)
    /\ obj' = Kept(Consumed(ss, o, c))
    /\ spent' = spent \cup {c}
    /\ UNCHANGED <<lastTouch, ended>>

Admitted(r, i, ss, o, c) ==
    /\ ~Rejects(ss[o].window, c)
    /\ Persists(r, i, Touched(ss, o, c), o)
    /\ obj' = Kept(Touched(ss, o, c))
    /\ spent' = spent \cup {c}
    /\ lastTouch' = now
    /\ UNCHANGED ended

Checked(r, i, ss, o, c) ==
    \/ Replayed(r, ss, o, c)
    \/ Refused(r, ss, o, c)
    \/ Admitted(r, i, ss, o, c)

-----------------------------------------------------------------------------
(* The handlers up to their first await *)

(* Redis drops the record when its key expires. *)
Tick == /\ now < MaxTime
        /\ now' = now + 1
        /\ redis' = {rec \in redis : now' < rec.dies}
        /\ UNCHANGED <<obj, cache, h, history>>

(* An envelope with counter c reaches instance i and finds the session.     *)
ArriveHit(r, i, c) ==
    /\ h[r] = Idle
    /\ Hit(i)
    /\ UNCHANGED <<now, cache, redis>>
    /\ Checked(r, i, obj, cache[i], c)

(* lookup drops an expired object from the cache, hydrate sends the GET. *)
ReadRecord(r, i, job, c) ==
    /\ h[r] = Idle
    /\ ~Hit(i)
    /\ Caches(i, NoObj)
    /\ Goes(r, Task("get", i, job, c))
    /\ obj' = Kept(obj)
    /\ UNCHANGED <<now, redis, history>>

ArriveMiss(r, i, c) == ReadRecord(r, i, "request", c)

(* lookup_async for an administrator who is about to terminate the session *)
AdminLookup(r, i) == ReadRecord(r, i, "lookup", 0)

(* terminate of a session that is in the cache: _zeroize, then delete       *)
TerminateHit(r, i) ==
    /\ h[r] = Idle
    /\ ~Locked(i) /\ Hit(i)
    /\ Caches(i, NoObj)
    /\ Goes(r, Task("del", i, "terminate", 0))
    /\ obj' = Kept([obj EXCEPT ![cache[i]].closed = TRUE])
    /\ UNCHANGED <<now, redis, history>>

TerminateMiss(r, i) == ~Locked(i) /\ ReadRecord(r, i, "terminate", 0)

(* _reap_sessions *)
Reap(i) ==
    /\ cache[i] # NoObj /\ ~Hit(i) /\ ~Locked(i)
    /\ Caches(i, NoObj)
    /\ UNCHANGED h
    /\ obj' = Kept(obj)
    /\ UNCHANGED <<now, redis, history>>

-----------------------------------------------------------------------------
(* Redis executes the command of a handler *)

DoGet(r) ==
    /\ h[r].phase = "get"
    /\ Goes(r, [h[r] EXCEPT !.phase = "got", !.rec = Stored])
    /\ UNCHANGED <<now, obj, cache, redis, history>>

(* Mutant: the record is put together when it is sent. *)
WrittenLate(r) == {Serialized(obj[h[r].obj])}

Written(r) == h[r].rec

DoSet(r) ==
    /\ h[r].phase = "set"
    /\ redis' = {Set(rec) : rec \in Written(r)}
    /\ Goes(r, Idle)
    /\ UNCHANGED <<now, cache, history>>
    /\ obj' = Kept(obj)

(* A termination that has found only an expired record is none: it has the  *)
(* record still, and is answered with 404.                                  *)
DoDelete(r) ==
    /\ h[r].phase = "del"
    /\ redis' = {}
    /\ Goes(r, Idle)
    /\ ended' = (ended \/ (h[r].job = "terminate" /\ h[r].rec = {}))
    /\ UNCHANGED <<now, obj, cache, spent, lastTouch>>

-----------------------------------------------------------------------------
(* hydrate continues: without a record; with an expired one, to be deleted  *)

GotNothing(r) ==
    /\ h[r].phase = "got"
    /\ h[r].rec = {}
    /\ Goes(r, Idle)
    /\ UNCHANGED <<now, obj, cache, redis, history>>

GotExpired(r) ==
    /\ h[r].phase = "got"
    /\ \E rec \in h[r].rec : Expired(rec)
    /\ Goes(r, [h[r] EXCEPT !.phase = "del", !.c = 0])
    /\ UNCHANGED <<now, obj, cache, redis, history>>

(* ... with a live one, which becomes a new Session object, whatever the    *)
(* cache holds by now                                                       *)
Hydrated(r, o, rec) == [obj EXCEPT ![o] = Deserialized(rec)]

GotForRequest(r, o) ==
    /\ h[r].phase = "got" /\ h[r].job = "request"
    /\ Caches(h[r].inst, o)
    /\ \E rec \in h[r].rec :
          ~Expired(rec) /\ Checked(r, h[r].inst, Hydrated(r, o, rec), o, h[r].c)
    /\ UNCHANGED <<now, redis>>

GotForLookup(r, o) ==
    /\ h[r].phase = "got" /\ h[r].job = "lookup"
    /\ Caches(h[r].inst, o)
    /\ Goes(r, Idle)
    /\ \E rec \in h[r].rec : ~Expired(rec) /\ obj' = Kept(Hydrated(r, o, rec))
    /\ UNCHANGED <<now, redis, history>>

(* terminate closes the object it has just made and empties the cache *)
GotForTerminate(r) ==
    /\ h[r].phase = "got" /\ h[r].job = "terminate"
    /\ \E rec \in h[r].rec : ~Expired(rec)
    /\ Caches(h[r].inst, NoObj)
    /\ Goes(r, Task("del", h[r].inst, "terminate", 0))
    /\ obj' = Kept(obj)
    /\ UNCHANGED <<now, redis, history>>

-----------------------------------------------------------------------------
(* The Redis command raises: a plain 500. *)
Fail(r) ==
    /\ h[r].phase # "idle"
    /\ Goes(r, Idle)
    /\ UNCHANGED <<now, cache, redis, history>>
    /\ obj' = Kept(obj)

(* The process dies and is started again. *)
Crash(i) ==
    /\ Caches(i, NoObj)
    /\ h' = [r \in Handlers |-> IF h[r] # Idle /\ h[r].inst = i THEN Idle ELSE h[r]]
    /\ <<cache, h>>' # <<cache, h>>
    /\ obj' = Kept(obj)
    /\ UNCHANGED <<now, redis, history>>

Next ==
    \/ Tick
    \/ \E r \in Handlers, i \in Instances :
          \/ \E c \in Counters : ArriveHit(r, i, c) \/ ArriveMiss(r, i, c)
          \/ AdminLookup(r, i)
          \/ TerminateHit(r, i) \/ TerminateMiss(r, i)
    \/ \E r \in Handlers :
          \/ DoGet(r) \/ DoSet(r) \/ DoDelete(r)
          \/ GotNothing(r) \/ GotExpired(r)
          \/ \E o \in Free : GotForRequest(r, o) \/ GotForLookup(r, o)
          \/ GotForTerminate(r)
          \/ Fail(r)
    \/ \E i \in Instances : Reap(i) \/ Crash(i)

Spec == Init /\ [][Next]_vars

-----------------------------------------------------------------------------
SessionObjects == [created : Nat, last : Nat, window : ReplayWindows, closed : BOOLEAN]
Records == [created : Nat, last : Nat, high : Nat, closed : BOOLEAN, dies : Nat]
Tasks == [phase : {"get", "got", "set", "del"}, inst : Instances,
          job : {"request", "lookup", "terminate"}, c : {0} \cup Counters,
          obj : Objs \cup {NoObj}, rec : SUBSET Records]
Running == {x \in Tasks : x.phase \in {"get", "got"} /\ x.job = "request" => x.c \in Counters}

TypeOK ==
    /\ now \in Nat /\ lastTouch \in Nat
    /\ obj \in [Objs -> SessionObjects]
    /\ cache \in [Instances -> Objs \cup {NoObj}]
    /\ redis \subseteq Records
    /\ h \in [Handlers -> {Idle} \cup Running]
    /\ spent \subseteq Counters /\ ended \in BOOLEAN

(* A request is admitted in this step *)
AdmitsIn(r) == h[r].phase # "set" /\ h'[r].phase = "set"
Admits == \E r \in Handlers : AdmitsIn(r)

(* A closed session, whose keys are zeros, is in no cache and reaches Redis *)
(* by no write, however its termination interleaves with requests that are  *)
(* being persisted: no instance will ever hydrate zeroed keys as a session  *)
(* (_zeroize, put, delete).                                                 *)
NoDeadKeys ==
    /\ \A i \in Instances : cache[i] # NoObj => ~obj[cache[i]].closed
    /\ \A rec \in redis \cup UNION {h[r].rec : r \in Handlers} : ~rec.closed

(* The half of the replay promise that survives a failover: whichever       *)
(* instance a request reaches, from whatever record that instance took the  *)
(* session, a counter that nobody has used and that is recent is not        *)
(* refused as a replay (_deserialize, check_and_advance).                   *)
NoFalseRefusal ==
    \A i \in Instances, c \in Counters \ spent :
       /\ cache[i] # NoObj
       /\ \A d \in spent : d - c < WINDOW_BITS
       => ~Rejects(obj[cache[i]].window, c)

(* Once nobody has used the session for TTL, or MAX_LIFETIME after its      *)
(* creation, no instance admits a request for it, although every instance   *)
(* has a copy of its own with a last_used_at of its own and late writes put *)
(* old copies back into Redis (is_expired, hydrate, put).                   *)
EndIsFinalEverywhere ==
    [][Admits => now - lastTouch <= TTL /\ now <= MAX_LIFETIME]_vars

(* "Use lookup_async so cross-instance terminations work in a federated     *)
(* deployment" (admin.py:139-140): after a completed termination no request *)
(* is admitted.                                                             *)
TerminatedStaysDown == [][Admits => ~ended]_vars
=============================================================================
