----------------------- MODULE FederatedSessionsProofs -----------------------
(***************************************************************************)
(* One session on any number of instances, with any number of handlers     *)
(* under way: what a cache or a record says of the session is old, never   *)
(* wrong.  Every copy was made of the session that was created at time 0,  *)
(* was used last no later than the session was, is not closed, and takes   *)
(* for used only counters that were.                                       *)
(***************************************************************************)
EXTENDS FederatedSessions, TLAPS

(* The lemmas about check_and_advance are those of the window on its own,   *)
(* which say nothing of its variables.                                      *)
W == INSTANCE ReplayWindowProofs
         WITH Counters <- {}, window <- FreshWindow, accepted <- {}, verdict <- <<0, "none">>

(* Its operators are the ones this module has from Replay. *)
LEMMA SameWindow ==
    /\ W!ReplayWindows = ReplayWindows
    /\ \A w, c : /\ W!Rejects(w, c) = Rejects(w, c) /\ W!Advance(w, c) = Advance(w, c)
                 /\ W!Marked(w, c) = Marked(w, c)
                 /\ W!Ahead(w, c) = Ahead(w, c)
<1>1. W!Offsets = Offsets
  BY DEF W!Offsets, Offsets
<1>2. \A bitmap, shift : W!Shift(bitmap, shift) = Shift(bitmap, shift)
  BY <1>1 DEF W!Shift, Shift
<1>3. \A w, c : W!Ahead(w, c) = Ahead(w, c)
  BY DEF W!Ahead, Ahead
<1>4. QED
  BY <1>1, <1>2, <1>3, Zenon
     DEF W!ReplayWindows, W!Rejects, W!Advance, W!Marked, W!TooOld,
         ReplayWindows, Rejects, Advance, Marked, TooOld

(* A counter that passes leaves a well-formed window. *)
LEMMA AdvanceType ==
    ASSUME NEW w \in ReplayWindows, NEW c \in Int, ~Rejects(w, c)
    PROVE  Advance(w, c) \in ReplayWindows
BY W!AdvanceType, WindowAssumption, SameWindow

(* It marks that counter and no other. *)
LEMMA AdvanceMarks ==
    ASSUME NEW w \in ReplayWindows, NEW c \in Int, ~Rejects(w, c)
    PROVE  /\ Advance(w, c).high = IF Ahead(w, c) THEN c ELSE w.high
           /\ \A d \in Int : Marked(Advance(w, c), d) => d = c \/ Marked(w, d)
BY W!AdvanceMarks, WindowAssumption, SameWindow

(* A window that takes for used only counters in sp *)
Known(w, sp) == /\ w.high = 0 \/ w.high \in sp
                /\ \A c \in Int : Marked(w, c) => c \in sp

(* Copies of a session that used sp and was touched last at lt: an object   *)
(* in a cache, a record in Redis or on its way                              *)
Alive(s, sp, lt) == ~s.closed /\ s.created = 0 /\ s.last <= lt /\ Known(s.window, sp)
Faithful(rec, sp, lt) ==
    ~rec.closed /\ rec.created = 0 /\ rec.last <= lt /\ (rec.high = 0 \/ rec.high \in sp)

(* No two caches share an object. *)
OneOwner(ca) == \A i, j \in Instances : ca[i] # NoObj /\ ca[i] = ca[j] => i = j

CachesAlive(ca, ss, sp, lt) ==
    \A i \in Instances : ca[i] # NoObj => Alive(ss[ca[i]], sp, lt)
RecordsFaithful(re, hs, sp, lt) ==
    /\ \A rec \in re : Faithful(rec, sp, lt)
    /\ \A r \in Handlers : \A rec \in hs[r].rec : Faithful(rec, sp, lt)

IInv == /\ TypeOK /\ lastTouch <= now /\ OneOwner(cache)
        /\ CachesAlive(cache, obj, spent, lastTouch)
        /\ RecordsFaithful(redis, h, spent, lastTouch)

Objects == [Objs -> SessionObjects]
CacheMaps == [Instances -> Objs \cup {NoObj}]
HandlerMaps == [Handlers -> {Idle} \cup Running]

-----------------------------------------------------------------------------
(* Objects and records *)

(* An object nobody refers to is typed like the others. *)
LEMMA GarbageType == Garbage \in SessionObjects /\ FreshWindow \in ReplayWindows
BY DEF Garbage, SessionObjects, FreshWindow, ReplayWindows

(* Forgetting what nobody refers to changes no object in a cache. *)
LEMMA KeptType ==
    ASSUME NEW ss \in Objects
    PROVE  /\ Kept(ss) \in Objects
           /\ \A i \in Instances, p \in Objs : cache'[i] = p => Kept(ss)[p] = ss[p]
<1>1. Kept(ss) \in Objects
  BY GarbageType DEF Kept, Objects
<1>2. ASSUME NEW i \in Instances, NEW p \in Objs, cache'[i] = p PROVE Kept(ss)[p] = ss[p]
  <2>1. Held(p)'
    BY <1>2 DEF Held
  <2>2. QED
    BY <2>1 DEF Kept
<1>3. QED
  BY <1>1, <1>2

(* The record that put makes of an object that is alive *)
LEMMA SerializedFaithful ==
    ASSUME now \in Nat, NEW s \in SessionObjects
    PROVE  /\ Serialized(s) \in Records
           /\ \A sp, lt : Alive(s, sp, lt) => Faithful(Serialized(s), sp, lt)
<1>1. s.created \in Nat /\ s.last \in Nat /\ s.window.high \in Nat /\ s.closed \in BOOLEAN
  BY DEF SessionObjects, ReplayWindows
<1>2. KeyLife(s) \in Nat
  BY <1>1, FederatedAssumption DEF KeyLife, Larger, Smaller
<1>3. Serialized(s) \in Records
  BY <1>1, <1>2 DEF Serialized, Records
<1>4. QED
  BY <1>3 DEF Serialized, Alive, Faithful, Known

(* The expiry that Redis gives a record changes nothing else of it. *)
LEMMA SetFaithful ==
    ASSUME now \in Nat, NEW rec \in Records
    PROVE  /\ Set(rec) \in Records
           /\ \A sp, lt : Faithful(rec, sp, lt) => Faithful(Set(rec), sp, lt)
<1>1. now + rec.dies \in Nat
  BY DEF Records
<1>2. Set(rec) \in Records
  BY <1>1 DEF Set, Records
<1>3. /\ Set(rec).created = rec.created /\ Set(rec).last = rec.last
      /\ Set(rec).high = rec.high /\ Set(rec).closed = rec.closed
  BY DEF Set, Records
<1>4. QED
  BY <1>2, <1>3 DEF Faithful

(* A reader does not get the expiry, and everything else. *)
LEMMA ReadFaithful ==
    ASSUME NEW rec \in Records
    PROVE  /\ Read(rec) \in Records
           /\ \A sp, lt : Faithful(rec, sp, lt) => Faithful(Read(rec), sp, lt)
<1>1. Read(rec) \in Records
  BY DEF Read, Records
<1>2. /\ Read(rec).created = rec.created /\ Read(rec).last = rec.last
      /\ Read(rec).high = rec.high /\ Read(rec).closed = rec.closed
  BY DEF Read, Records
<1>3. QED
  BY <1>1, <1>2 DEF Faithful

(* The object that _deserialize makes of a faithful record *)
LEMMA DeserializedAlive ==
    ASSUME NEW rec \in Records
    PROVE  /\ Deserialized(rec) \in SessionObjects
           /\ \A sp, lt : Faithful(rec, sp, lt) => Alive(Deserialized(rec), sp, lt)
<1>1. Deserialized(rec) \in SessionObjects
  BY DEF Deserialized, Records, SessionObjects, ReplayWindows
<1>2. QED
  BY <1>1 DEF Deserialized, Alive, Faithful, Known, Marked

(* What has been used stays used: a copy that was right stays right.        *)
LEMMA AliveLonger ==
    ASSUME NEW sp, NEW lt \in Nat, NEW sp2, NEW lt2 \in Nat, sp \subseteq sp2, lt <= lt2
    PROVE  /\ \A s \in SessionObjects : Alive(s, sp, lt) => Alive(s, sp2, lt2)
           /\ \A rec \in Records : Faithful(rec, sp, lt) => Faithful(rec, sp2, lt2)
<1>1. \A s \in SessionObjects : s.last \in Nat
  BY DEF SessionObjects
<1>2. \A rec \in Records : rec.last \in Nat
  BY DEF Records
<1>3. QED
  BY <1>1, <1>2 DEF Alive, Faithful, Known

(* check_and_advance on a known window *)
LEMMA AdvanceKnown ==
    ASSUME NEW w \in ReplayWindows, NEW c \in Nat, ~Rejects(w, c), NEW sp, Known(w, sp)
    PROVE  Known(Advance(w, c), sp \cup {c})
BY AdvanceMarks DEF Known

(* The replay check changes one object, which stays alive. *)
LEMMA ConsumedObject ==
    ASSUME NEW ss \in Objects, NEW o \in Objs, NEW c \in Nat, ~Rejects(ss[o].window, c)
    PROVE  /\ Consumed(ss, o, c) \in Objects
           /\ \A p \in Objs : p # o => Consumed(ss, o, c)[p] = ss[p]
           /\ \A sp, lt : Alive(ss[o], sp, lt) => Alive(Consumed(ss, o, c)[o], sp \cup {c}, lt)
<1> DEFINE s == [ss[o] EXCEPT !.window = Advance(@, c)]
<1>1. ss[o] \in SessionObjects /\ ss[o].window \in ReplayWindows
  BY DEF Objects, SessionObjects
<1>2. Advance(ss[o].window, c) \in ReplayWindows
  BY <1>1, AdvanceType
<1>3. /\ s \in SessionObjects /\ s.window = Advance(ss[o].window, c) /\ s.last = ss[o].last
      /\ s.created = ss[o].created /\ s.closed = ss[o].closed
  BY <1>1, <1>2 DEF SessionObjects
<1>4. Consumed(ss, o, c) = [ss EXCEPT ![o] = s]
  BY DEF Consumed
<1> HIDE DEF s
<1>5. \A sp, lt : Alive(ss[o], sp, lt) => Alive(s, sp \cup {c}, lt)
  BY <1>1, <1>3, AdvanceKnown DEF Alive
<1>6. QED
  BY <1>3, <1>4, <1>5 DEF Objects

(* So does the touch, which makes it as young as can be. *)
LEMMA TouchedObject ==
    ASSUME now \in Nat, NEW ss \in Objects, NEW o \in Objs, NEW c \in Nat,
           ~Rejects(ss[o].window, c)
    PROVE  /\ Touched(ss, o, c) \in Objects
           /\ \A p \in Objs : p # o => Touched(ss, o, c)[p] = ss[p]
           /\ \A sp, lt : Alive(ss[o], sp, lt) => Alive(Touched(ss, o, c)[o], sp \cup {c}, now)
<1> DEFINE cs == Consumed(ss, o, c)
           s == [cs[o] EXCEPT !.last = now]
<1>1. /\ cs \in Objects /\ \A p \in Objs : p # o => cs[p] = ss[p]
      /\ \A sp, lt : Alive(ss[o], sp, lt) => Alive(cs[o], sp \cup {c}, lt)
  BY ConsumedObject
<1>2. Touched(ss, o, c) = [cs EXCEPT ![o] = s]
  BY DEF Touched
<1> HIDE DEF cs
<1>3. cs[o] \in SessionObjects
  BY <1>1 DEF Objects
<1>4. /\ s \in SessionObjects /\ s.window = cs[o].window /\ s.last = now
      /\ s.created = cs[o].created /\ s.closed = cs[o].closed
  BY <1>3 DEF SessionObjects
<1> HIDE DEF s
<1>5. \A sp, lt : Alive(cs[o], sp, lt) => Alive(s, sp, now)
  BY <1>4 DEF Alive
<1>6. QED
  BY <1>1, <1>2, <1>4, <1>5 DEF Objects

-----------------------------------------------------------------------------
(* The invariant holds at the start, *)

(* One instance has the new session, nobody else has anything. *)
LEMMA InitIInv == Init => IInv
<1> SUFFICES ASSUME Init PROVE IInv
  OBVIOUS
<1>1. PICK i \in Instances, o \in Objs :
         /\ cache = [j \in Instances |-> IF j = i THEN o ELSE NoObj]
         /\ obj = [p \in Objs |-> IF p = o THEN NewSession ELSE Garbage]
  BY DEF Init
<1>2. /\ now = 0 /\ redis = {Set(Serialized(NewSession))} /\ h = [r \in Handlers |-> Idle]
      /\ spent = {} /\ lastTouch = 0 /\ ended = FALSE
  BY DEF Init
<1>3. NewSession \in SessionObjects /\ Alive(NewSession, {}, 0)
  <2>1. NewSession \in SessionObjects
    BY <1>2, GarbageType DEF NewSession, SessionObjects
  <2>2. Known(FreshWindow, {})
    BY DEF Known, FreshWindow, Marked
  <2>3. QED
    BY <1>2, <2>1, <2>2 DEF NewSession, Alive
<1>4. Set(Serialized(NewSession)) \in Records /\ Faithful(Set(Serialized(NewSession)), {}, 0)
  <2>1. now \in Nat
    BY <1>2
  <2>2. Serialized(NewSession) \in Records /\ Faithful(Serialized(NewSession), {}, 0)
    BY <1>3, <2>1, SerializedFaithful
  <2>3. QED
    BY <2>1, <2>2, SetFaithful
<1>5. TypeOK
  <2>1. obj \in [Objs -> SessionObjects]
    BY <1>1, <1>3, GarbageType
  <2>2. cache \in [Instances -> Objs \cup {NoObj}]
    BY <1>1
  <2>3. h \in [Handlers -> {Idle} \cup Running]
    BY <1>2
  <2>4. QED
    BY <1>2, <1>4, <2>1, <2>2, <2>3 DEF TypeOK
<1>6. OneOwner(cache)
  BY <1>1 DEF OneOwner
<1>7. CachesAlive(cache, obj, spent, lastTouch)
  BY <1>1, <1>2, <1>3 DEF CachesAlive
<1>8. RecordsFaithful(redis, h, spent, lastTouch)
  BY <1>2, <1>4 DEF RecordsFaithful, Idle
<1>9. QED
  BY <1>2, <1>5, <1>6, <1>7, <1>8 DEF IInv

-----------------------------------------------------------------------------
(* and every step keeps it.  First what the steps have in common: the       *)
(* objects ss, of which those in use are kept, a cache, a record in Redis   *)
(* and the handlers.                                                        *)

(* The types, by the names used below. *)
LEMMA Parts ==
    ASSUME IInv
    PROVE  /\ now \in Nat /\ lastTouch \in Nat /\ lastTouch <= now
           /\ obj \in Objects /\ cache \in CacheMaps /\ h \in HandlerMaps
           /\ redis \subseteq Records /\ spent \subseteq Counters /\ ended \in BOOLEAN
BY DEF IInv, TypeOK, Objects, CacheMaps, HandlerMaps

(* A step keeps the invariant if it keeps its parts. *)
LEMMA StepLemma ==
    ASSUME now' \in Nat, lastTouch' \in Nat, lastTouch' <= now',
           NEW ss \in Objects, obj' = Kept(ss),
           cache' \in CacheMaps, h' \in HandlerMaps, redis' \subseteq Records,
           spent' \subseteq Counters, ended' \in BOOLEAN,
           OneOwner(cache'), CachesAlive(cache', ss, spent', lastTouch'),
           RecordsFaithful(redis', h', spent', lastTouch')
    PROVE  IInv'
<1>1. obj' \in Objects
  BY KeptType
<1>2. TypeOK'
  BY <1>1 DEF TypeOK, Objects, CacheMaps, HandlerMaps, Running, Tasks, Counters, Records, SessionObjects,
              Idle, ReplayWindows
<1>3. CachesAlive(cache', obj', spent', lastTouch')
  <2> SUFFICES ASSUME NEW i \in Instances, cache'[i] # NoObj
               PROVE  Alive(obj'[cache'[i]], spent', lastTouch')
    BY DEF CachesAlive
  <2>1. cache'[i] \in Objs
    BY DEF CacheMaps
  <2>2. PICK p \in Objs : p = cache'[i]
    BY <2>1
  <2>3. obj'[p] = ss[p]
    BY <2>2, KeptType
  <2>4. Alive(ss[p], spent', lastTouch')
    BY <2>2 DEF CachesAlive
  <2>5. QED
    BY <2>2, <2>3, <2>4
<1>4. OneOwner(cache)' /\ CachesAlive(cache, obj, spent, lastTouch)'
      /\ RecordsFaithful(redis, h, spent, lastTouch)'
  BY <1>3 DEF OneOwner, CachesAlive, RecordsFaithful, Alive, Faithful, Known
<1>5. QED
  BY <1>2, <1>4 DEF IInv

(* A handler goes on with records that are faithful. *)
LEMMA HandlerStep ==
    ASSUME IInv, NEW r \in Handlers, NEW task \in {Idle} \cup Running, Goes(r, task),
           \A rec \in task.rec : Faithful(rec, spent, lastTouch)
    PROVE  h' \in HandlerMaps /\ RecordsFaithful(redis, h', spent, lastTouch)
<1>1. h' = [h EXCEPT ![r] = task] /\ h \in HandlerMaps
  BY Parts DEF Goes
<1>2. h' \in HandlerMaps /\ \A q \in Handlers : h'[q] = IF q = r THEN task ELSE h[q]
  BY <1>1 DEF HandlerMaps
<1>3. QED
  BY <1>2 DEF IInv, RecordsFaithful

(* A cache loses its object. *)
LEMMA CacheDrops ==
    ASSUME IInv, NEW i, Caches(i, NoObj)
    PROVE  /\ cache' \in CacheMaps /\ OneOwner(cache')
           /\ CachesAlive(cache', obj, spent, lastTouch)
           /\ \A j \in Instances : cache'[j] # NoObj => j # i /\ cache'[j] = cache[j]
<1>1. cache \in CacheMaps /\ cache' = [cache EXCEPT ![i] = NoObj]
  BY Parts DEF Caches
<1>2. /\ cache' \in CacheMaps
      /\ \A j \in Instances : cache'[j] # NoObj => j # i /\ cache'[j] = cache[j]
  BY <1>1 DEF CacheMaps
<1>3. QED
  BY <1>2 DEF IInv, OneOwner, CachesAlive

(* A cache gets a new object: one that nothing else refers to.              *)
LEMMA CacheGets ==
    ASSUME IInv, NEW i \in Instances, NEW o \in Free, Caches(i, o),
           NEW rec \in Records, Faithful(rec, spent, lastTouch),
           NEW ss, ss = [obj EXCEPT ![o] = Deserialized(rec)]
    PROVE  /\ cache' \in CacheMaps /\ OneOwner(cache') /\ cache'[i] = o
           /\ ss \in Objects /\ CachesAlive(cache', ss, spent, lastTouch)
<1>1. cache \in CacheMaps /\ cache' = [cache EXCEPT ![i] = o] /\ obj \in Objects
  BY Parts DEF Caches
<1>2. o \in Objs /\ o # NoObj /\ \A j \in Instances : cache[j] # o
  BY FederatedAssumption DEF Free, Held
<1>3. /\ cache' \in CacheMaps
      /\ \A j \in Instances : cache'[j] = IF j = i THEN o ELSE cache[j]
  BY <1>1, <1>2 DEF CacheMaps
<1>4. /\ ss \in Objects /\ ss[o] = Deserialized(rec)
      /\ \A p \in Objs : p # o => ss[p] = obj[p]
  BY <1>1, <1>2, DeserializedAlive DEF Objects
<1>5. Alive(ss[o], spent, lastTouch)
  BY <1>4, DeserializedAlive
<1>6. OneOwner(cache')
  BY <1>2, <1>3 DEF IInv, OneOwner
<1>7. ASSUME NEW j \in Instances, cache'[j] # NoObj PROVE Alive(ss[cache'[j]], spent, lastTouch)
  <2>1. CASE j = i
    BY <1>3, <1>5, <2>1
  <2>2. CASE j # i
    <3>1. cache'[j] = cache[j] /\ cache[j] \in Objs /\ cache[j] # o /\ cache[j] # NoObj
      BY <1>1, <1>2, <1>3, <1>7, <2>2 DEF CacheMaps
    <3>2. Alive(obj[cache[j]], spent, lastTouch)
      BY <3>1 DEF IInv, CachesAlive
    <3>3. QED
      BY <1>4, <3>1, <3>2
  <2>3. QED
    BY <2>1, <2>2
<1>8. QED
  BY <1>3, <1>4, <1>6, <1>7 DEF CachesAlive

(* decrypt_request on the objects ss, with the session in object o of the   *)
(* cache of instance i                                                      *)
LEMMA CheckedStep ==
    ASSUME IInv, NEW r \in Handlers, NEW i \in Instances, NEW ss \in Objects, NEW o \in Objs,
           NEW c \in Counters, Checked(r, i, ss, o, c), UNCHANGED <<now, redis>>,
           cache' \in CacheMaps, OneOwner(cache'), cache'[i] = o,
           CachesAlive(cache', ss, spent, lastTouch)
    PROVE  IInv'
<1>1. /\ now \in Nat /\ lastTouch \in Nat /\ lastTouch <= now /\ redis \subseteq Records
      /\ spent \subseteq Counters /\ ended \in BOOLEAN /\ c \in Nat /\ o # NoObj
  BY Parts, FederatedAssumption DEF Counters
<1>2. Idle \in {Idle} \cup Running /\ \A rec \in Idle.rec : Faithful(rec, spent, lastTouch)
  BY DEF Idle
<1>3. Alive(ss[o], spent, lastTouch)
  BY <1>1 DEF CachesAlive
<1>4. CASE Replayed(r, ss, o, c)
  <2>1. Goes(r, Idle) /\ obj' = Kept(ss) /\ UNCHANGED <<spent, lastTouch, ended>>
    BY <1>4 DEF Replayed, history
  <2>2. h' \in HandlerMaps /\ RecordsFaithful(redis, h', spent, lastTouch)
    BY <1>2, <2>1, HandlerStep
  <2>3. QED
    BY <1>1, <2>1, <2>2, StepLemma
<1>5. ASSUME NEW ts \in Objects, obj' = Kept(ts), NEW lt \in Nat, lt >= lastTouch,
             lt <= now, lastTouch' = lt, spent' = spent \cup {c}, ended' = ended,
             \A p \in Objs : p # o => ts[p] = ss[p],
             Alive(ts[o], spent \cup {c}, lt),
             NEW task \in {Idle} \cup Running, Goes(r, task),
             \A rec \in task.rec : Faithful(rec, spent \cup {c}, lt)
      PROVE  IInv'
  <2>1. CachesAlive(cache', ts, spent', lastTouch')
    <3> SUFFICES ASSUME NEW j \in Instances, cache'[j] # NoObj
                 PROVE  Alive(ts[cache'[j]], spent \cup {c}, lt)
      BY <1>5 DEF CachesAlive
    <3>1. cache'[j] \in Objs
      BY DEF CacheMaps
    <3>2. CASE cache'[j] = o
      BY <1>5, <3>2
    <3>3. CASE cache'[j] # o
      <4>1. ts[cache'[j]] = ss[cache'[j]] /\ ss[cache'[j]] \in SessionObjects
        BY <1>5, <3>1, <3>3 DEF Objects
      <4>2. Alive(ss[cache'[j]], spent, lastTouch)
        BY DEF CachesAlive
      <4>3. QED
        BY <1>1, <1>5, <4>1, <4>2, AliveLonger
    <3>4. QED
      BY <3>2, <3>3
  <2>2. h' \in HandlerMaps /\ \A q \in Handlers : h'[q] = IF q = r THEN task ELSE h[q]
    BY <1>5, Parts DEF Goes, HandlerMaps
  <2>3. \A rec \in redis : Faithful(rec, spent \cup {c}, lt)
    BY <1>1, <1>5, AliveLonger DEF IInv, RecordsFaithful
  <2>4. ASSUME NEW q \in Handlers, NEW rec \in h'[q].rec PROVE Faithful(rec, spent \cup {c}, lt)
    <3>1. CASE q = r
      BY <1>5, <2>2, <2>4, <3>1
    <3>2. CASE q # r
      <4>1. h'[q] = h[q] /\ h[q] \in {Idle} \cup Running
        BY <2>2, <3>2, Parts DEF HandlerMaps
      <4>2. rec \in Records /\ Faithful(rec, spent, lastTouch)
        BY <2>4, <4>1 DEF IInv, RecordsFaithful, Idle, Running, Tasks
      <4>3. QED
        BY <1>1, <1>5, <4>2, AliveLonger
    <3>3. QED
      BY <3>1, <3>2
  <2>5. RecordsFaithful(redis', h', spent', lastTouch')
    BY <1>5, <2>3, <2>4 DEF RecordsFaithful
  <2>6. spent' \subseteq Counters
    BY <1>1, <1>5
  <2>7. QED
    BY <1>1, <1>5, <2>1, <2>2, <2>5, <2>6, StepLemma
<1>6. CASE Refused(r, ss, o, c)
  <2>1. /\ ~Rejects(ss[o].window, c) /\ Goes(r, Idle) /\ obj' = Kept(Consumed(ss, o, c))
        /\ spent' = spent \cup {c} /\ UNCHANGED <<lastTouch, ended>>
    BY <1>6 DEF Refused
  <2> DEFINE ts == Consumed(ss, o, c)
             task == Idle
  <2>2. /\ ts \in Objects /\ \A p \in Objs : p # o => ts[p] = ss[p]
        /\ Alive(ts[o], spent \cup {c}, lastTouch)
    BY <1>1, <1>3, <2>1, ConsumedObject
  <2>3. task \in {Idle} \cup Running /\ \A rec \in task.rec : Faithful(rec, spent \cup {c}, lastTouch)
    BY DEF Idle
  <2>4. Goes(r, task) /\ obj' = Kept(ts) /\ lastTouch >= lastTouch
    BY <1>1, <2>1
  <2> HIDE DEF ts, task
  <2>5. QED
    BY <1>1, <1>5, <2>1, <2>2, <2>3, <2>4
<1>7. CASE Admitted(r, i, ss, o, c)
  <2> DEFINE ts == Touched(ss, o, c)
             task == [Task("set", i, "request", 0) EXCEPT !.obj = o, !.rec = {Serialized(ts[o])}]
  <2>1. /\ ~Rejects(ss[o].window, c) /\ Goes(r, task) /\ obj' = Kept(ts)
        /\ spent' = spent \cup {c} /\ lastTouch' = now /\ ended' = ended
    BY <1>7 DEF Admitted, Persists
  <2>2. /\ ts \in Objects /\ \A p \in Objs : p # o => ts[p] = ss[p]
        /\ Alive(ts[o], spent \cup {c}, now)
    BY <1>1, <1>3, <2>1, TouchedObject
  <2> HIDE DEF ts
  <2>3. ts[o] \in SessionObjects
    BY <2>2 DEF Objects
  <2>4. Serialized(ts[o]) \in Records /\ Faithful(Serialized(ts[o]), spent \cup {c}, now)
    BY <1>1, <2>2, <2>3, SerializedFaithful
  <2>5. task \in Running /\ task.rec = {Serialized(ts[o])}
    BY <2>4 DEF Task, Running, Tasks
  <2> HIDE DEF task
  <2>6. \A rec \in task.rec : Faithful(rec, spent \cup {c}, now)
    BY <2>4, <2>5
  <2>7. now \in Nat /\ now >= lastTouch /\ now <= now /\ task \in {Idle} \cup Running
    BY <1>1, <2>5
  <2>8. QED
    BY ONLY <1>5, <2>1, <2>2, <2>5, <2>6, <2>7
<1>8. QED
  BY <1>4, <1>6, <1>7 DEF Checked

-----------------------------------------------------------------------------
(* The handlers up to their first await *)

(* Time goes on. *)
LEMMA TickStep == ASSUME IInv, Tick PROVE IInv'
<1>1. /\ now' = now + 1
      /\ redis' \subseteq redis /\ UNCHANGED <<obj, cache, h, spent, lastTouch, ended>>
  BY DEF Tick, history
<1>2. TypeOK' /\ lastTouch' <= now'
  BY <1>1, Parts DEF IInv, TypeOK, Running, Tasks, Counters
<1>3. QED
  BY <1>1, <1>2 DEF IInv, OneOwner, CachesAlive, RecordsFaithful

(* A request for a session in the cache. *)
LEMMA ArriveHitStep ==
    ASSUME IInv, NEW r \in Handlers, NEW i \in Instances, NEW c \in Counters, ArriveHit(r, i, c)
    PROVE  IInv'
<1>1. cache[i] \in Objs /\ Checked(r, i, obj, cache[i], c) /\ UNCHANGED <<now, cache, redis>>
  BY Parts DEF ArriveHit, Hit, CacheMaps
<1>2. PICK o \in Objs : o = cache[i]
  BY <1>1
<1>3. cache' \in CacheMaps /\ OneOwner(cache') /\ CachesAlive(cache', obj, spent, lastTouch)
  BY <1>1, Parts DEF IInv, OneOwner, CachesAlive
<1>4. Checked(r, i, obj, o, c) /\ cache'[i] = o
  BY <1>1, <1>2
<1>5. QED
  BY <1>1, <1>3, <1>4, CheckedStep, Parts

(* A handler starts with no record, and its instance's cache is emptied.    *)
LEMMA TaskType ==
    ASSUME NEW phase \in {"get", "got", "set", "del"}, NEW i \in Instances,
           NEW job \in {"request", "lookup", "terminate"}, NEW c \in {0} \cup Counters,
           phase \in {"get", "got"} /\ job = "request" => c \in Counters
    PROVE  Task(phase, i, job, c) \in {Idle} \cup Running /\ Task(phase, i, job, c).rec = {}
BY DEF Task, Running, Tasks

(* A step that drops what a cache held and sends handler r on *)
LEMMA DropStep ==
    ASSUME IInv, NEW i, Caches(i, NoObj), obj' = Kept(obj), h' \in HandlerMaps,
           RecordsFaithful(redis, h', spent, lastTouch), UNCHANGED <<now, redis, history>>
    PROVE  IInv'
<1>1. cache' \in CacheMaps /\ OneOwner(cache') /\ CachesAlive(cache', obj, spent, lastTouch)
  BY CacheDrops
<1>2. UNCHANGED <<now, redis, spent, lastTouch, ended>>
  BY DEF history
<1>3. QED
  BY <1>1, <1>2, Parts, StepLemma

(* A handler that has to ask Redis. *)
LEMMA ReadRecordStep ==
    ASSUME IInv, NEW r \in Handlers, NEW i \in Instances, NEW c \in {0} \cup Counters,
           NEW job \in {"request", "lookup", "terminate"}, ReadRecord(r, i, job, c),
           job = "request" => c \in Counters
    PROVE  IInv'
<1>1. h' \in HandlerMaps /\ RecordsFaithful(redis, h', spent, lastTouch)
  BY TaskType, HandlerStep DEF ReadRecord
<1>2. QED
  BY <1>1, DropStep DEF ReadRecord

(* A termination where the session is in the cache. *)
LEMMA TerminateHitStep ==
    ASSUME IInv, NEW r \in Handlers, NEW i \in Instances, TerminateHit(r, i)
    PROVE  IInv'
<1>1. /\ Caches(i, NoObj) /\ cache[i] \in Objs /\ obj \in Objects /\ cache \in CacheMaps
      /\ Goes(r, Task("del", i, "terminate", 0))
      /\ UNCHANGED <<now, redis, spent, lastTouch, ended>>
  BY Parts DEF TerminateHit, Hit, history, CacheMaps
<1>2. h' \in HandlerMaps /\ RecordsFaithful(redis, h', spent, lastTouch)
  BY <1>1, TaskType, HandlerStep
<1> DEFINE s == [obj[cache[i]] EXCEPT !.closed = TRUE]
           ss == [obj EXCEPT ![cache[i]] = s]
<1>3. obj' = Kept(ss)
  BY DEF TerminateHit
<1>4. s \in SessionObjects
  BY <1>1 DEF Objects, SessionObjects
<1> HIDE DEF s
<1>5. ss \in Objects /\ \A p \in Objs : p # cache[i] => ss[p] = obj[p]
  BY <1>1, <1>4 DEF Objects
<1> HIDE DEF ss
<1>6. /\ cache' \in CacheMaps /\ OneOwner(cache') /\ CachesAlive(cache', obj, spent, lastTouch)
      /\ \A j \in Instances : cache'[j] # NoObj => j # i /\ cache'[j] = cache[j]
  BY <1>1, CacheDrops
<1>7. CachesAlive(cache', ss, spent, lastTouch)
  <2> SUFFICES ASSUME NEW j \in Instances, cache'[j] # NoObj
               PROVE  Alive(ss[cache'[j]], spent, lastTouch)
    BY DEF CachesAlive
  <2>1. j # i /\ cache'[j] = cache[j] /\ cache[j] # NoObj /\ cache[j] \in Objs
    BY <1>1, <1>6 DEF CacheMaps
  <2>2. cache[j] # cache[i]
    BY <1>1, <2>1 DEF IInv, OneOwner
  <2>3. ss[cache'[j]] = obj[cache'[j]]
    BY <1>5, <2>1, <2>2
  <2>4. QED
    BY <1>6, <2>3 DEF CachesAlive
<1>8. QED
  BY <1>1, <1>2, <1>3, <1>5, <1>6, <1>7, Parts, StepLemma

(* The reaper drops an expired copy. *)
LEMMA ReapStep == ASSUME IInv, NEW i \in Instances, Reap(i) PROVE IInv'
<1>1. h' \in HandlerMaps /\ RecordsFaithful(redis, h', spent, lastTouch)
  BY Parts DEF Reap, IInv
<1>2. QED
  BY <1>1, DropStep DEF Reap

-----------------------------------------------------------------------------
(* The commands, their results and failures *)

(* A step that changes neither objects nor caches *)
LEMMA SameObjectsStep ==
    ASSUME IInv, UNCHANGED <<now, cache, spent, lastTouch>>, obj' = obj \/ obj' = Kept(obj),
           h' \in HandlerMaps, redis' \subseteq Records, ended' \in BOOLEAN,
           RecordsFaithful(redis', h', spent, lastTouch)
    PROVE  IInv'
<1>1. cache' \in CacheMaps /\ OneOwner(cache') /\ CachesAlive(cache', obj, spent, lastTouch)
  BY Parts DEF IInv, OneOwner, CachesAlive
<1>2. CASE obj' = Kept(obj)
  BY <1>1, <1>2, Parts, StepLemma
<1>3. CASE obj' = obj
  <2>1. TypeOK'
    BY <1>3, Parts DEF TypeOK, Objects, CacheMaps, HandlerMaps, Running, Tasks, Counters, Records
  <2>2. OneOwner(cache)' /\ CachesAlive(cache, obj, spent, lastTouch)'
        /\ RecordsFaithful(redis, h, spent, lastTouch)'
    BY <1>1, <1>3 DEF OneOwner, CachesAlive, RecordsFaithful, Alive, Faithful, Known
  <2>3. QED
    BY <2>1, <2>2, Parts DEF IInv
<1>4. QED
  BY <1>2, <1>3

(* A handler that is not idle *)
LEMMA RunningHandler ==
    ASSUME IInv, NEW r \in Handlers, h[r].phase # "idle"
    PROVE  h[r] \in Running /\ \A rec \in h[r].rec : Faithful(rec, spent, lastTouch)
BY Parts DEF IInv, HandlerMaps, Idle, RecordsFaithful

(* GET: the handler gets what Redis holds, or nothing. *)
LEMMA DoGetStep == ASSUME IInv, NEW r \in Handlers, DoGet(r) PROVE IInv'
<1>1. h[r] \in Running /\ h[r].phase = "get"
  BY RunningHandler DEF DoGet
<1> DEFINE task == [h[r] EXCEPT !.phase = "got", !.rec = Stored]
<1>2. Stored \subseteq Records /\ \A rec \in Stored : Faithful(rec, spent, lastTouch)
  <2>1. redis \subseteq Records /\ \A rec \in redis : Faithful(rec, spent, lastTouch)
    BY Parts DEF IInv, RecordsFaithful
  <2>2. QED
    BY <2>1, ReadFaithful DEF Stored
<1>3. task \in Running /\ task.rec = Stored
  BY <1>1, <1>2 DEF Running, Tasks
<1> HIDE DEF task
<1>4. \A rec \in task.rec : Faithful(rec, spent, lastTouch)
  BY <1>2, <1>3
<1>5. Goes(r, task) /\ UNCHANGED <<now, obj, cache, redis, spent, lastTouch, ended>>
  BY DEF DoGet, task, history
<1>6. h' \in HandlerMaps /\ RecordsFaithful(redis, h', spent, lastTouch)
  BY <1>3, <1>4, <1>5, HandlerStep
<1>7. QED
  BY <1>5, <1>6, Parts, SameObjectsStep

(* The handler is done, and Redis holds what it held or what the handler    *)
(* brought.                                                                 *)
LEMMA IdleStep ==
    ASSUME IInv, NEW r \in Handlers, Goes(r, Idle), UNCHANGED <<now, cache, spent, lastTouch>>,
           obj' = obj \/ obj' = Kept(obj), ended' \in BOOLEAN,
           redis' \subseteq Records, \A rec \in redis' : Faithful(rec, spent, lastTouch)
    PROVE  IInv'
<1>1. Idle \in {Idle} \cup Running /\ \A rec \in Idle.rec : Faithful(rec, spent, lastTouch)
  BY DEF Idle
<1>2. h' \in HandlerMaps /\ RecordsFaithful(redis, h', spent, lastTouch)
  BY <1>1, HandlerStep
<1>3. RecordsFaithful(redis', h', spent, lastTouch)
  BY <1>2 DEF RecordsFaithful
<1>4. QED
  BY <1>2, <1>3, SameObjectsStep

(* SET, DEL, a GET that found nothing, and a command that fails. *)
LEMMA CommandStep ==
    ASSUME IInv, NEW r \in Handlers, DoSet(r) \/ DoDelete(r) \/ GotNothing(r) \/ Fail(r)
    PROVE  IInv'
<1>1. redis \subseteq Records /\ ended \in BOOLEAN
      /\ \A rec \in redis : Faithful(rec, spent, lastTouch)
  BY Parts DEF IInv, RecordsFaithful
<1>2. CASE DoSet(r)
  <2>1. h[r] \in Running /\ \A rec \in h[r].rec : Faithful(rec, spent, lastTouch)
    BY <1>2, RunningHandler DEF DoSet
  <2>2. redis' \subseteq Records /\ \A rec \in redis' : Faithful(rec, spent, lastTouch)
    <3>1. h[r].rec \subseteq Records /\ now \in Nat
      BY <2>1, Parts DEF Running, Tasks
    <3>2. redis' = {Set(rec) : rec \in h[r].rec}
      BY <1>2 DEF DoSet, Written
    <3>3. QED
      BY <2>1, <3>1, <3>2, SetFaithful
  <2>3. QED
    BY <1>1, <1>2, <2>2, IdleStep DEF DoSet, history
<1>3. CASE DoDelete(r)
  <2>1. ended' \in BOOLEAN
    BY <1>1, <1>3, Zenon DEF DoDelete
  <2>2. redis' = {}
    BY <1>3 DEF DoDelete
  <2>3. QED
    BY <1>3, <2>1, <2>2, IdleStep DEF DoDelete
<1>4. CASE GotNothing(r) \/ Fail(r)
  BY <1>1, <1>4, IdleStep DEF GotNothing, Fail, history
<1>5. QED
  BY <1>2, <1>3, <1>4

(* A record that has expired is dropped. *)
LEMMA GotExpiredStep == ASSUME IInv, NEW r \in Handlers, GotExpired(r) PROVE IInv'
<1> DEFINE task == [h[r] EXCEPT !.phase = "del", !.c = 0]
<1>1. h[r] \in Running /\ \A rec \in h[r].rec : Faithful(rec, spent, lastTouch)
  BY RunningHandler DEF GotExpired
<1>2. task \in Running /\ task.rec = h[r].rec
  BY <1>1 DEF Running, Tasks
<1>3. /\ Goes(r, task)
      /\ UNCHANGED <<now, obj, cache, redis, spent, lastTouch, ended>>
  BY DEF GotExpired, history
<1> HIDE DEF task
<1>4. h' \in HandlerMaps /\ RecordsFaithful(redis, h', spent, lastTouch)
  BY <1>1, <1>2, <1>3, HandlerStep
<1>5. QED
  BY <1>3, <1>4, Parts, SameObjectsStep

(* A request goes on with the record. *)
LEMMA GotForRequestStep ==
    ASSUME IInv, NEW r \in Handlers, NEW o \in Free, GotForRequest(r, o)
    PROVE  IInv'
<1>1. h[r] \in Running /\ \A rec \in h[r].rec : Faithful(rec, spent, lastTouch)
  BY RunningHandler DEF GotForRequest
<1>2. h[r].inst \in Instances /\ h[r].rec \subseteq Records
  BY <1>1 DEF Running, Tasks
<1>3. PICK rec \in h[r].rec : Checked(r, h[r].inst, Hydrated(r, o, rec), o, h[r].c)
  BY DEF GotForRequest
<1>4. Caches(h[r].inst, o) /\ UNCHANGED <<now, redis>> /\ o \in Objs
  BY DEF GotForRequest, Free
<1> DEFINE i == h[r].inst
           ss == Hydrated(r, o, rec)
<1>5. /\ cache' \in CacheMaps /\ OneOwner(cache') /\ cache'[i] = o
      /\ ss \in Objects /\ CachesAlive(cache', ss, spent, lastTouch)
  BY <1>1, <1>2, <1>4, CacheGets DEF Hydrated
<1>6. h[r].c \in Counters
  BY <1>1 DEF GotForRequest, Running, Tasks
<1> HIDE DEF i, ss
<1>7. QED
  BY <1>2, <1>3, <1>4, <1>5, <1>6, CheckedStep DEF i, ss

(* A lookup caches the record. *)
LEMMA GotForLookupStep ==
    ASSUME IInv, NEW r \in Handlers, NEW o \in Free, GotForLookup(r, o)
    PROVE  IInv'
<1>1. h[r] \in Running /\ \A rec \in h[r].rec : Faithful(rec, spent, lastTouch)
  BY RunningHandler DEF GotForLookup
<1>2. h[r].inst \in Instances /\ h[r].rec \subseteq Records
  BY <1>1 DEF Running, Tasks
<1>3. PICK rec \in h[r].rec : obj' = Kept(Hydrated(r, o, rec))
  BY DEF GotForLookup
<1>4. /\ Caches(h[r].inst, o) /\ Goes(r, Idle) /\ o \in Objs
      /\ UNCHANGED <<now, redis, spent, lastTouch, ended>>
  BY DEF GotForLookup, Free, history
<1> DEFINE ss == Hydrated(r, o, rec)
<1>5. /\ cache' \in CacheMaps /\ OneOwner(cache')
      /\ ss \in Objects /\ CachesAlive(cache', ss, spent, lastTouch)
  BY <1>1, <1>2, <1>4, CacheGets DEF Hydrated
<1> HIDE DEF ss
<1>6. Idle \in {Idle} \cup Running /\ \A x \in Idle.rec : Faithful(x, spent, lastTouch)
  BY DEF Idle
<1>7. h' \in HandlerMaps /\ RecordsFaithful(redis, h', spent, lastTouch)
  BY <1>4, <1>6, HandlerStep
<1>8. obj' = Kept(ss)
  BY <1>3 DEF ss
<1>9. QED
  BY <1>4, <1>5, <1>7, <1>8, Parts, StepLemma

(* A termination goes on with the record. *)
LEMMA GotForTerminateStep == ASSUME IInv, NEW r \in Handlers, GotForTerminate(r) PROVE IInv'
<1>1. h[r] \in Running
  BY RunningHandler DEF GotForTerminate
<1>2. h[r].inst \in Instances
  BY <1>1 DEF Running, Tasks
<1>3. h' \in HandlerMaps /\ RecordsFaithful(redis, h', spent, lastTouch)
  BY <1>2, TaskType, HandlerStep DEF GotForTerminate
<1>4. QED
  BY <1>3, DropStep DEF GotForTerminate

(* An instance loses its cache and its handlers. *)
LEMMA CrashStep == ASSUME IInv, NEW i \in Instances, Crash(i) PROVE IInv'
<1>1. h' \in HandlerMaps /\ \A r \in Handlers : h'[r] = Idle \/ h'[r] = h[r]
  BY Parts DEF Crash, HandlerMaps
<1>2. RecordsFaithful(redis, h', spent, lastTouch)
  BY <1>1 DEF IInv, RecordsFaithful, Idle
<1>3. QED
  BY <1>1, <1>2, DropStep DEF Crash

(* The invariant is inductive. *)
LEMMA NextIInv == IInv /\ [Next]_vars => IInv'
<1> SUFFICES ASSUME IInv, [Next]_vars PROVE IInv'
  OBVIOUS
<1>1. CASE UNCHANGED vars
  <2>1. UNCHANGED <<now, obj, cache, redis, h, spent, lastTouch, ended>>
    BY <1>1 DEF vars, history
  <2>2. h' \in HandlerMaps /\ RecordsFaithful(redis', h', spent, lastTouch)
    BY <2>1, Parts DEF IInv, RecordsFaithful
  <2>3. QED
    BY <2>1, <2>2, Parts, SameObjectsStep
<1>2. ASSUME NEW r \in Handlers, NEW i \in Instances,
             \/ \E c \in Counters : ArriveMiss(r, i, c)
             \/ AdminLookup(r, i) \/ TerminateMiss(r, i)
      PROVE  IInv'
  BY <1>2, ReadRecordStep DEF ArriveMiss, AdminLookup, TerminateMiss
<1>3. QED
  BY <1>1, <1>2, TickStep, ArriveHitStep, TerminateHitStep, DoGetStep, CommandStep,
     GotExpiredStep, GotForRequestStep, GotForLookupStep, GotForTerminateStep, ReapStep, CrashStep
     DEF Next

(* The inductive invariant holds throughout. *)
LEMMA Invariance == Spec => []IInv
BY InitIInv, NextIInv, PTL DEF Spec

-----------------------------------------------------------------------------
(* The results *)

(* The caches, the records of Redis and the handlers keep their types, and  *)
(* a request that waits for its record still has its counter (hydrate).     *)
THEOREM TypesHold == Spec => []TypeOK
<1>1. IInv => TypeOK
  BY DEF IInv
<1>2. QED
  BY <1>1, Invariance, PTL

(* A closed session, whose keys are zeros, is in no cache, in no record and *)
(* in no write under way, on any number of instances (_zeroize, put).       *)
THEOREM ZerosAreNeverServed == Spec => []NoDeadKeys
<1>1. IInv => NoDeadKeys
  BY DEF IInv, NoDeadKeys, CachesAlive, RecordsFaithful, Alive, Faithful
<1>2. QED
  BY <1>1, Invariance, PTL

(* Whatever record an instance took the session from, it refuses no recent  *)
(* counter that nobody has used (_deserialize, check_and_advance).          *)
THEOREM FailoverRefusesNothingNew == Spec => []NoFalseRefusal
<1>1. IInv => NoFalseRefusal
  <2> SUFFICES ASSUME IInv, NEW i \in Instances, NEW c \in Counters \ spent,
                      cache[i] # NoObj, \A d \in spent : d - c < WINDOW_BITS
               PROVE  ~Rejects(obj[cache[i]].window, c)
    BY DEF NoFalseRefusal
  <2> DEFINE w == obj[cache[i]].window
  <2>1. cache[i] \in Objs /\ obj[cache[i]] \in SessionObjects
    BY Parts DEF CacheMaps, Objects
  <2>2. w.high \in Nat
    BY <2>1 DEF SessionObjects, ReplayWindows
  <2>3. Known(w, spent)
    BY DEF IInv, CachesAlive, Alive
  <2> HIDE DEF w
  <2>4. c \in Nat /\ c > 0 /\ c \notin spent
    BY FederatedAssumption DEF Counters
  <2>5. ~Marked(w, c)
    BY <2>3, <2>4 DEF Known
  <2>6. ~Ahead(w, c) => ~TooOld(w, c)
    <3>1. CASE w.high = 0
      BY <2>2, <2>4, <3>1 DEF Ahead
    <3>2. CASE w.high \in spent
      BY <2>2, <2>4, <3>2, WindowAssumption DEF TooOld
    <3>3. QED
      BY <2>3, <3>1, <3>2 DEF Known
  <2>7. QED
    BY <2>4, <2>5, <2>6 DEF Rejects, w
<1>2. QED
  BY <1>1, Invariance, PTL

(* Who admits a request has a copy of the session that is not expired.      *)
LEMMA AdmitsFromLiveCopy ==
    ASSUME IInv, Next, NEW r \in Handlers, AdmitsIn(r)
    PROVE  \E created, last \in Nat :
              /\ created = 0 /\ last <= lastTouch
              /\ now - last <= TTL /\ now - created <= MAX_LIFETIME
<1>0. h \in HandlerMaps /\ Idle.phase = "idle" /\ h[r].phase # "set" /\ h'[r].phase = "set"
  BY Parts DEF Idle, AdmitsIn
<1>1. ASSUME NEW q \in Handlers, NEW task, Goes(q, task), task.phase # "set" PROVE FALSE
  BY <1>0, <1>1 DEF Goes, HandlerMaps
<1>2. ASSUME NEW q \in Handlers, Goes(q, Idle) PROVE FALSE
  BY <1>0, <1>1, <1>2
<1>3. ASSUME NEW q \in Handlers, NEW phase, NEW i, NEW job, NEW c,
             Goes(q, Task(phase, i, job, c)), phase # "set"
      PROVE  FALSE
  <2>1. Task(phase, i, job, c).phase = phase
    BY DEF Task
  <2>2. QED
    BY <1>1, <1>3, <2>1
<1>4. ASSUME NEW s, s.created \in Nat, s.last \in Nat, ~Expired(s), s.created = 0,
             s.last <= lastTouch
      PROVE  \E created, last \in Nat :
                /\ created = 0 /\ last <= lastTouch
                /\ now - last <= TTL /\ now - created <= MAX_LIFETIME
  BY <1>4, Parts, FederatedAssumption DEF Expired
<1>5. ASSUME NEW q \in Handlers, NEW i \in Instances, NEW c \in Counters, ArriveHit(q, i, c)
      PROVE  \E s : /\ s.created \in Nat /\ s.last \in Nat /\ ~Expired(s) /\ s.created = 0
                    /\ s.last <= lastTouch
  <2>1. cache[i] # NoObj /\ ~Expired(obj[cache[i]])
    BY <1>5 DEF ArriveHit, Hit
  <2>2. obj[cache[i]] \in SessionObjects
    BY <2>1, Parts DEF CacheMaps, Objects
  <2>3. Alive(obj[cache[i]], spent, lastTouch)
    BY <2>1 DEF IInv, CachesAlive
  <2>4. QED
    BY <2>1, <2>2, <2>3 DEF Alive, SessionObjects
<1>6. ASSUME NEW q \in Handlers, NEW o \in Free, GotForRequest(q, o)
      PROVE  \E s : /\ s.created \in Nat /\ s.last \in Nat /\ ~Expired(s) /\ s.created = 0
                    /\ s.last <= lastTouch
  <2>1. h[q] \in Running /\ \A rec \in h[q].rec : Faithful(rec, spent, lastTouch)
    BY <1>6, RunningHandler DEF GotForRequest
  <2>2. PICK rec \in h[q].rec : ~Expired(rec)
    BY <1>6 DEF GotForRequest
  <2>3. rec \in Records
    BY <2>1 DEF Running, Tasks
  <2>4. QED
    BY <2>1, <2>2, <2>3 DEF Faithful, Records
<1>7. ASSUME h' = h PROVE FALSE
  BY <1>0, <1>7
<1>8. ASSUME NEW q \in Handlers, DoGet(q) PROVE FALSE
  <2>1. h[q] \in Running
    BY <1>8, RunningHandler DEF DoGet
  <2> DEFINE task == [h[q] EXCEPT !.phase = "got", !.rec = Stored]
  <2>2. task.phase = "got"
    BY <2>1 DEF Running, Tasks
  <2>3. Goes(q, task)
    BY <1>8 DEF DoGet
  <2> HIDE DEF task
  <2>4. QED
    BY <1>1, <2>2, <2>3
<1>9. ASSUME NEW i \in Instances, Crash(i) PROVE FALSE
  BY <1>0, <1>9 DEF Crash
<1>10. ASSUME NEW q \in Handlers, NEW i \in Instances,
              \/ \E c \in Counters : ArriveMiss(q, i, c)
              \/ AdminLookup(q, i) \/ TerminateHit(q, i) \/ TerminateMiss(q, i)
       PROVE  FALSE
  BY <1>3, <1>10 DEF ArriveMiss, AdminLookup, TerminateHit, TerminateMiss, ReadRecord
<1>11. ASSUME NEW q \in Handlers,
              \/ DoSet(q) \/ DoDelete(q) \/ GotNothing(q) \/ Fail(q)
              \/ \E o \in Free : GotForLookup(q, o)
       PROVE  FALSE
  BY <1>2, <1>11 DEF DoSet, DoDelete, GotNothing, Fail, GotForLookup
<1>12. ASSUME NEW q \in Handlers, GotExpired(q) \/ GotForTerminate(q) PROVE FALSE
  <2>1. CASE GotForTerminate(q)
    BY <1>3, <1>12, <2>1 DEF GotForTerminate
  <2>2. CASE GotExpired(q)
    <3> DEFINE task == [h[q] EXCEPT !.phase = "del", !.c = 0]
    <3>1. h[q] \in Running
      BY <2>2, RunningHandler DEF GotExpired
    <3>2. task.phase = "del"
      BY <3>1 DEF Running, Tasks
    <3>3. Goes(q, task)
      BY <2>2 DEF GotExpired
    <3> HIDE DEF task
    <3>4. QED
      BY <1>1, <3>2, <3>3
  <2>3. QED
    BY <1>12, <2>1, <2>2
<1>13. ASSUME Tick \/ \E i \in Instances : Reap(i) PROVE FALSE
  BY <1>7, <1>13 DEF Tick, Reap
<1>14. QED
  BY <1>4, <1>5, <1>6, <1>8, <1>9, <1>10, <1>11, <1>12, <1>13 DEF Next

(* Once the session is out of use or out of its life everywhere, no copy of *)
(* it, however old, lets a request in (is_expired, hydrate, put).           *)
THEOREM EndIsFinal == Spec => EndIsFinalEverywhere
<1>1. IInv /\ [Next]_vars
        => [Admits => now - lastTouch <= TTL /\ now <= MAX_LIFETIME]_vars
  <2> SUFFICES ASSUME IInv, Next, Admits PROVE now - lastTouch <= TTL /\ now <= MAX_LIFETIME
    OBVIOUS
  <2>1. PICK r \in Handlers : AdmitsIn(r)
    BY DEF Admits
  <2>2. PICK created, last \in Nat :
           /\ created = 0 /\ last <= lastTouch
           /\ now - last <= TTL /\ now - created <= MAX_LIFETIME
    BY <2>1, AdmitsFromLiveCopy
  <2>3. QED
    BY <2>2, Parts, FederatedAssumption
<1>2. QED
  BY <1>1, Invariance, PTL DEF Spec, EndIsFinalEverywhere
=============================================================================
