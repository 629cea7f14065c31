---------------------------- MODULE ModelManager ----------------------------
(***************************************************************************)
(* ModelManager: the LRU table of loaded models, the per-key load locks,   *)
(* one inference worker per loaded model, eviction, idle offload, forced   *)
(* unload and shutdown.                                                    *)
(*                                                                         *)
(* A step is what a coroutine does between two awaits that suspend it.     *)
(* _load never suspends (decryption and the Llama constructor are plain    *)
(* calls), so the eviction loop's last check, the load, the insertion and  *)
(* the release of the lock are one step.  queue.put suspends only on a     *)
(* full queue, and _submit has just seen that the queue is not full.       *)
(* Taking a free lock does not suspend either; here others may run between *)
(* the fast path's miss and the locked part, which checks everything anew. *)
(*                                                                         *)
(* Abstracted: what is loaded and inferred; the clock (the idle timer and  *)
(* the 30 s of _unload may elapse at any moment they are running); the     *)
(* chunks of a stream, of which only "the handle's queue has no room" is   *)
(* left.  Requests for unknown models or adapters change nothing.          *)
(***************************************************************************)
EXTENDS Naturals, Sequences, FiniteSets

CONSTANTS Tasks,        \* request handlers calling chat, complete or embed
          Preloaders,   \* ... and those calling preload, which submit no job
          MayHangUp,    \* handlers whose client may leave during a stream
          Keys,         \* cache keys: tenant, model, mode, adapters
          Models,       \* what force_unload selects by
          ModelOf,      \* [Keys -> Models]
          CtxRequests,  \* the n_ctx of requests, 0 for None
          DEFAULT_CTX,  \* n_ctx_default
          MAX_LOADED,   \* max_loaded
          QUEUE_DEPTH,  \* queue_depth
          Slots,        \* _Loaded objects: bounds the loads of a behaviour
          NoKey, NoSlot, NoTask, STOP

ASSUME ManagerAssumption ==
    /\ IsFiniteSet(Keys)
    /\ MAX_LOADED \in Nat \ {0}
    /\ QUEUE_DEPTH \in Nat \ {0}
    /\ CtxRequests \subseteq Nat /\ DEFAULT_CTX \in Nat
    /\ ModelOf \in [Keys -> Models]
    /\ NoKey \notin Keys /\ NoSlot \notin Slots
    /\ NoTask \notin Tasks /\ STOP \notin Tasks
    /\ Tasks \cap Slots = {} /\ {"admin", "closer"} \cap (Tasks \cup Slots) = {}

VARIABLES loaded,   \* _loaded: [Keys -> slot or NoSlot]
          order,    \* ... and its order, least recently used first
          slot,     \* the _Loaded objects, with their worker
          lockq,    \* _load_locks: holder first, then the waiters in turn
          task,     \* the handlers
          unl,      \* the running _unload of every coroutine that has one
          closing   \* _closing

vars == <<loaded, order, slot, lockq, task, unl, closing>>

(* Who runs _unload: an evicting handler, the idle task of a slot, a        *)
(* force_unload, shutdown.                                                  *)
Unloaders == Tasks \cup Slots \cup {"admin", "closer"}

(* "get": at queue.get.  "pump": waiting for the generator's next chunk.    *)
(* "put": waiting to hand a chunk over.  "fin": waiting to hand over the    *)
(* end mark; "cut": the same in a worker that has been cancelled.  A worker *)
(* at "pump" has a thread inside next(generator); stray is the thread that  *)
(* stays there when the worker is cancelled.                                *)
Workers == {"get", "pump", "put", "fin", "cut", "returned", "cancelled"}
WorkerEnded == {"returned", "cancelled"}

SlotRecords ==
    [key : Keys \cup {NoKey}, ctx : Nat, state : {"none", "loaded", "unloading"},
     queue : Seq(Tasks \cup {STOP}), worker : Workers,
     reader : Tasks \cup {NoTask}, open : BOOLEAN, stray : BOOLEAN]

TaskRecords ==
    [pc : {"idle", "lock", "evict", "wait", "stream"},
     key : Keys \cup {NoKey}, ctx : Nat, slot : Slots \cup {NoSlot}]

Frames == [pc : {"off", "put", "join", "late"}, slot : Slots \cup {NoSlot},
           todo : Seq(Slots)]

Idle == [pc |-> "idle", key |-> NoKey, ctx |-> 0, slot |-> NoSlot]
Off == [pc |-> "off", slot |-> NoSlot, todo |-> <<>>]
Unused == [key |-> NoKey, ctx |-> 0, state |-> "none", queue |-> <<>>,
           worker |-> "returned", reader |-> NoTask, open |-> FALSE, stray |-> FALSE]

Init == /\ loaded = [k \in Keys |-> NoSlot]
        /\ order = <<>>
        /\ slot = [s \in Slots |-> Unused]
        /\ lockq = [k \in Keys |-> <<>>]
        /\ task = [t \in Tasks |-> Idle]
        /\ unl = [u \in Unloaders |-> Off]
        /\ closing = FALSE

-----------------------------------------------------------------------------
(* The table *)

LoadedKeys(tab) == {k \in Keys : tab[k] # NoSlot}

(* The order q when the key k is taken out: pop, or half of move_to_end *)
Without(q, i) == [j \in 1 .. Len(q) - 1 |-> IF j < i THEN q[j] ELSE q[j + 1]]
Others(q, k) == IF \E i \in 1 .. Len(q) : q[i] = k
                THEN Without(q, CHOOSE i \in 1 .. Len(q) : q[i] = k) ELSE q

(* Mutant: one model too many. *)
AtLimitByOne(tab) == Cardinality(LoadedKeys(tab)) > MAX_LOADED

(* The condition of the eviction loop *)
AtLimit(tab) == Cardinality(LoadedKeys(tab)) >= MAX_LOADED

Usable(k, x) == /\ loaded[k] # NoSlot
                /\ x = 0 \/ x <= slot[loaded[k]].ctx

HasRoom(sl, s) == Len(sl[s].queue) < QUEUE_DEPTH

Holds(t) == /\ task[t].pc \in {"lock", "evict"}
            /\ lockq[task[t].key] # <<>>
            /\ Head(lockq[task[t].key]) = t

Release(k) == [lockq EXCEPT ![k] = Tail(@)]

-----------------------------------------------------------------------------
(* _submit, up to "await fut": the job of handler t is known by t.  A full  *)
(* queue is QUEUE_FULL, which ends the handler; preload submits nothing.    *)

Submits(sl, t, s) == t \notin Preloaders /\ HasRoom(sl, s)

(* Mutant: the job is created and the put forgotten. *)
SlotsWithoutJob(sl, t, s) == sl

SlotsWithJob(sl, t, s) ==
    IF Submits(sl, t, s) THEN [sl EXCEPT ![s].queue = Append(@, t)] ELSE sl

TasksAfterSubmit(sl, t, s) ==
    [task EXCEPT ![t] = IF Submits(sl, t, s)
                        THEN [Idle EXCEPT !.pc = "wait", !.slot = s] ELSE Idle]

-----------------------------------------------------------------------------
(* _unload: until the STOP is in the queue *)

SlotsStopping(sl, s) ==
    [sl EXCEPT ![s].state = "unloading",
               ![s].queue = IF HasRoom(sl, s) THEN Append(@, STOP) ELSE @]

Stopping(sl, s, rest) ==
    [pc |-> IF HasRoom(sl, s) THEN "join" ELSE "put", slot |-> s, todo |-> rest]

PutStop(u) ==
    /\ unl[u].pc = "put"
    /\ HasRoom(slot, unl[u].slot)
    /\ slot' = [slot EXCEPT ![unl[u].slot].queue = Append(@, STOP)]
    /\ unl' = [unl EXCEPT ![u].pc = "join"]
    /\ UNCHANGED <<loaded, order, lockq, task, closing>>

(* The 30 s are over: wait_for cancels the worker and waits for it to end.  *)
(* A worker that waits for a chunk, or to hand one over, leaves only after  *)
(* the end mark; one that is handing over the end mark drops it.  The task  *)
(* ends; the thread it had sent into next(generator) does not.              *)
AfterCancel(w) == CASE w = "pump" -> {"cut", "cancelled"}
                    [] w = "put"  -> {"cut"}
                    [] w \in {"fin", "cut"} -> {"cancelled"}
                    [] OTHER -> {}

(* The reader of the stream of slot s has been given the end mark. *)
ReaderDone(s) == IF slot[s].reader = NoTask THEN task
                 ELSE [task EXCEPT ![slot[s].reader] = Idle]

WaitTimesOut(u) ==
    /\ unl[u].pc = "join"
    /\ LET s == unl[u].slot IN
       \E w \in AfterCancel(slot[s].worker) :
          /\ slot' = [slot EXCEPT ![s].worker = w,
                                  ![s].stray = @ \/ slot[s].worker = "pump",
                                  ![s].reader = IF w = "cut" THEN @ ELSE NoTask]
          /\ task' = IF w = "cancelled" /\ slot[s].worker = "pump"
                     THEN ReaderDone(s) ELSE task
    /\ unl' = [unl EXCEPT ![u].pc = "late"]
    /\ UNCHANGED <<loaded, order, lockq, closing>>

(* Mutant: after the timeout the worker is not waited for. *)
JoinedOrLate(u) == \/ unl[u].pc = "join" /\ slot[unl[u].slot].worker = "returned"
                   \/ unl[u].pc = "late"

(* _unload: the worker has ended, the backend is closed, and whatever is in *)
(* the table under the key is taken out.                                    *)
Joined(u) == \/ unl[u].pc = "join" /\ slot[unl[u].slot].worker = "returned"
             \/ unl[u].pc = "late" /\ slot[unl[u].slot].worker \in WorkerEnded

(* Mutant: the backend is set to None. *)
SlotsClosedToNone(u) == [slot EXCEPT ![unl[u].slot].open = NoSlot]

KeyOf(u) == slot[unl[u].slot].key
SlotsClosed(u) == [slot EXCEPT ![unl[u].slot].open = FALSE]

(* Mutant: the key is taken out only while its object is in service. *)
TableWithoutLoaded(k) ==
    [loaded EXCEPT ![k] = IF @ # NoSlot /\ slot[@].state = "loaded" THEN NoSlot ELSE @]

TableWithout(k) == [loaded EXCEPT ![k] = NoSlot]

(* Mutant: the unloader's own timeout is not caught either. *)
AbortOnTimeout(u) ==
    /\ unl[u].pc \in {"join", "late"}
    /\ slot[unl[u].slot].worker = "cancelled"
    /\ unl' = [unl EXCEPT ![u] = Off]
    /\ IF u \in Tasks
       THEN /\ lockq' = Release(task[u].key)
            /\ task' = [task EXCEPT ![u] = Idle]
       ELSE UNCHANGED <<lockq, task>>
    /\ UNCHANGED <<loaded, order, slot, closing>>

(* Another unloader's timeout cancelled the worker under this one:          *)
(* CancelledError goes through _unload into its caller, which gives up.     *)
Abort(u) ==
    /\ unl[u].pc = "join"
    /\ slot[unl[u].slot].worker = "cancelled"
    /\ unl' = [unl EXCEPT ![u] = Off]
    /\ IF u \in Tasks
       THEN /\ lockq' = Release(task[u].key)
            /\ task' = [task EXCEPT ![u] = Idle]
       ELSE UNCHANGED <<lockq, task>>
    /\ UNCHANGED <<loaded, order, slot, closing>>

-----------------------------------------------------------------------------
(* ensure_loaded, then _submit.  shutdown is called when the server has     *)
(* stopped taking requests (lifespan), so no handler starts after it; those *)
(* that are under way go on.                                                *)

FastPath(t, k, x) ==
    /\ task[t].pc = "idle" /\ ~closing
    /\ Usable(k, x)
    /\ order' = Append(Others(order, k), k)
    /\ slot' = SlotsWithJob(slot, t, loaded[k])
    /\ task' = TasksAfterSubmit(slot, t, loaded[k])
    /\ UNCHANGED <<loaded, lockq, unl, closing>>

WaitForLock(t, k, x) ==
    /\ task[t].pc = "idle" /\ ~closing
    /\ ~Usable(k, x)
    /\ lockq' = [lockq EXCEPT ![k] = Append(@, t)]
    /\ task' = [task EXCEPT ![t] = [Idle EXCEPT !.pc = "lock", !.key = k, !.ctx = x]]
    /\ UNCHANGED <<loaded, order, slot, unl, closing>>

(* Someone else has loaded it meanwhile; the entry keeps its place. *)
LockedHit(t) ==
    LET k == task[t].key IN
    /\ task[t].pc = "lock" /\ Holds(t)
    /\ Usable(k, task[t].ctx)
    /\ slot' = SlotsWithJob(slot, t, loaded[k])
    /\ task' = TasksAfterSubmit(slot, t, loaded[k])
    /\ lockq' = Release(k)
    /\ UNCHANGED <<loaded, order, unl, closing>>

Fresh(t) == [Unused EXCEPT !.key = task[t].key, !.state = "loaded",
                           !.worker = "get", !.open = TRUE,
                           !.ctx = IF task[t].ctx = 0 THEN DEFAULT_CTX ELSE task[t].ctx]

(* The eviction loop of t from its test on, on the table tab with order ord *)
(* and objects sl: evict the next victim, or load, insert, release and      *)
(* submit, or fail to load.                                                 *)
EvictNext(t, tab, ord, sl) ==
    /\ AtLimit(tab)
    /\ loaded' = tab /\ order' = ord
    /\ \E victim \in Slots :
          /\ victim = tab[Head(ord)]
          /\ slot' = SlotsStopping(sl, victim)
          /\ unl' = [unl EXCEPT ![t] = Stopping(sl, victim, <<>>)]
    /\ task' = [task EXCEPT ![t].pc = "evict"]
    /\ UNCHANGED lockq

LoadInto(t, s, tab, ord, sl) ==
    LET k == task[t].key
        new == [sl EXCEPT ![s] = Fresh(t)] IN
    /\ ~AtLimit(tab)
    /\ sl[s].state = "none"
    /\ loaded' = [tab EXCEPT ![k] = s]
    /\ order' = IF tab[k] = NoSlot THEN Append(ord, k) ELSE ord
    /\ slot' = SlotsWithJob(new, t, s)
    /\ task' = TasksAfterSubmit(new, t, s)
    /\ lockq' = Release(k)
    /\ unl' = [unl EXCEPT ![t] = Off]

LoadFails(t, tab, ord, sl) ==
    /\ ~AtLimit(tab)
    /\ loaded' = tab /\ order' = ord /\ slot' = sl
    /\ task' = [task EXCEPT ![t] = Idle]
    /\ lockq' = Release(task[t].key)
    /\ unl' = [unl EXCEPT ![t] = Off]

MakeRoomAndLoad(t, tab, ord, sl) ==
    /\ \/ EvictNext(t, tab, ord, sl)
       \/ \E s \in Slots : LoadInto(t, s, tab, ord, sl)
       \/ LoadFails(t, tab, ord, sl)
    /\ UNCHANGED closing

LockedMiss(t) ==
    /\ task[t].pc = "lock" /\ Holds(t)
    /\ ~Usable(task[t].key, task[t].ctx)
    /\ MakeRoomAndLoad(t, loaded, order, slot)

Evicted(t) ==
    /\ Joined(t)
    /\ MakeRoomAndLoad(t, TableWithout(KeyOf(t)), Others(order, KeyOf(t)), SlotsClosed(t))

-----------------------------------------------------------------------------
(* _idle_offload, force_unload, shutdown *)

StartUnload(u, s, rest) ==
    /\ unl[u].pc = "off"
    /\ slot' = SlotsStopping(slot, s)
    /\ unl' = [unl EXCEPT ![u] = Stopping(slot, s, rest)]
    /\ UNCHANGED <<loaded, order, lockq, task>>

(* The timer is restarted by ensure_loaded and at the end of a job, so it   *)
(* may well fire while a job is running or waiting.                         *)
IdleOffload(s) ==
    /\ ~closing
    /\ slot[s].state = "loaded"
    /\ StartUnload(s, s, <<>>)
    /\ UNCHANGED closing

(* The entries of the models ms, in the order of the table *)
Targets(ms) ==
    LET upTo[n \in 0 .. Len(order)] ==
            IF n = 0 THEN <<>>
            ELSE IF ModelOf[order[n]] \in ms THEN Append(upTo[n - 1], loaded[order[n]])
                 ELSE upTo[n - 1]
    IN  upTo[Len(order)]

ForceUnload(m) ==
    LET targets == Targets({m}) IN
    /\ targets # <<>>
    /\ \E s \in Slots : s = Head(targets) /\ StartUnload("admin", s, Tail(targets))
    /\ UNCHANGED closing

Shutdown ==
    LET targets == Targets(Models) IN
    /\ ~closing
    /\ closing' = TRUE
    /\ IF targets = <<>>
       THEN UNCHANGED <<loaded, order, slot, lockq, task, unl>>
       ELSE \E s \in Slots : s = Head(targets) /\ StartUnload("closer", s, Tail(targets))

(* An unload that is not an eviction ends; its caller goes on with the next *)
(* of its targets.                                                          *)
Unloaded(u) ==
    /\ u \notin Tasks
    /\ Joined(u)
    /\ loaded' = TableWithout(KeyOf(u))
    /\ order' = Others(order, KeyOf(u))
    /\ IF unl[u].todo = <<>>
       THEN slot' = SlotsClosed(u) /\ unl' = [unl EXCEPT ![u] = Off]
       ELSE \E s \in Slots :
            /\ s = Head(unl[u].todo)
            /\ slot' = SlotsStopping(SlotsClosed(u), s)
            /\ unl' = [unl EXCEPT ![u] = Stopping(SlotsClosed(u), s, Tail(unl[u].todo))]
    /\ UNCHANGED <<lockq, task, closing>>

-----------------------------------------------------------------------------
(* _worker_loop *)

Job(s) == Head(slot[s].queue)
AtGet(s) == slot[s].worker = "get" /\ slot[s].queue # <<>>

TakeStop(s) ==
    /\ AtGet(s)
    /\ Job(s) = STOP
    /\ slot' = [slot EXCEPT ![s].queue = Tail(@), ![s].worker = "returned"]
    /\ UNCHANGED <<loaded, order, lockq, task, unl, closing>>

(* A job that does not stream: result or exception, in one go. *)
Answer(s) ==
    /\ AtGet(s)
    /\ Job(s) # STOP
    /\ slot' = [slot EXCEPT ![s].queue = Tail(@)]
    /\ task' = [task EXCEPT ![Job(s)] = Idle]
    /\ UNCHANGED <<loaded, order, lockq, unl, closing>>

StartStream(s) ==
    /\ AtGet(s)
    /\ Job(s) # STOP
    /\ slot' = [slot EXCEPT ![s].queue = Tail(@), ![s].worker = "pump",
                            ![s].reader = Job(s)]
    /\ task' = [task EXCEPT ![Job(s)].pc = "stream"]
    /\ UNCHANGED <<loaded, order, lockq, unl, closing>>

(* The handle's queue has no room for the chunk. *)
ChunkBlocks(s) ==
    /\ slot[s].worker = "pump"
    /\ slot' = [slot EXCEPT ![s].worker = "put"]
    /\ UNCHANGED <<loaded, order, lockq, task, unl, closing>>

(* The generator is exhausted or raises, or the reader has cancelled.       *)
GeneratorEnds(s) ==
    /\ slot[s].worker = "pump"
    /\ \/ /\ slot' = [slot EXCEPT ![s].worker = "get", ![s].reader = NoTask]
          /\ task' = ReaderDone(s)
       \/ /\ slot' = [slot EXCEPT ![s].worker = "fin"]
          /\ UNCHANGED task
    /\ UNCHANGED <<loaded, order, lockq, unl, closing>>

(* The reader takes a chunk, which makes room for what the worker holds.    *)
ReaderReads(s) ==
    /\ slot[s].reader # NoTask
    /\ \/ /\ slot[s].worker = "put"
          /\ slot' = [slot EXCEPT ![s].worker = "pump"]
          /\ UNCHANGED task
       \/ /\ slot[s].worker \in {"fin", "cut"}
          /\ slot' = [slot EXCEPT ![s].reader = NoTask,
                        ![s].worker = IF @ = "fin" THEN "get" ELSE "cancelled"]
          /\ task' = ReaderDone(s)
    /\ UNCHANGED <<loaded, order, lockq, unl, closing>>

(* The client leaves: the router cancels the handle and stops reading it.   *)
HangUp(t) ==
    /\ t \in MayHangUp
    /\ task[t].pc = "stream"
    /\ task' = [task EXCEPT ![t] = Idle]
    /\ slot' = [slot EXCEPT ![task[t].slot].reader = IF @ = t THEN NoTask ELSE @]
    /\ UNCHANGED <<loaded, order, lockq, unl, closing>>

(* The thread a cancelled worker left behind comes out of next(generator);  *)
(* nobody takes its chunk.                                                  *)
ThreadReturns(s) ==
    /\ slot[s].stray
    /\ slot' = [slot EXCEPT ![s].stray = FALSE]
    /\ UNCHANGED <<loaded, order, lockq, task, unl, closing>>

Worker(s) == TakeStop(s) \/ Answer(s) \/ StartStream(s) \/ ChunkBlocks(s)

Next ==
    \/ \E t \in Tasks, k \in Keys, x \in CtxRequests : FastPath(t, k, x)
    \/ \E t \in Tasks, k \in Keys, x \in CtxRequests : WaitForLock(t, k, x)
    \/ \E t \in Tasks : LockedHit(t) \/ LockedMiss(t) \/ Evicted(t) \/ HangUp(t)
    \/ \E u \in Unloaders : PutStop(u) \/ WaitTimesOut(u) \/ Abort(u) \/ Unloaded(u)
    \/ \E s \in Slots : IdleOffload(s)
    \/ \E m \in Models : ForceUnload(m)
    \/ Shutdown
    \/ \E s \in Slots : Worker(s) \/ GeneratorEnds(s) \/ ReaderReads(s) \/ ThreadReturns(s)

Spec == Init /\ [][Next]_vars

(* The event loop runs every coroutine that can go on; a generator produces *)
(* finitely many chunks, whatever waits there are between two of them.      *)
Fairness == \A s \in Slots : /\ WF_vars(Worker(s))
                             /\ SF_vars(GeneratorEnds(s))
                             /\ WF_vars(ReaderReads(s))

FairSpec == Spec /\ Fairness

-----------------------------------------------------------------------------
TypeOK ==
    /\ loaded \in [Keys -> Slots \cup {NoSlot}]
    /\ order \in Seq(Keys)
    /\ slot \in [Slots -> SlotRecords]
    /\ lockq \in [Keys -> Seq(Tasks)]
    /\ task \in [Tasks -> TaskRecords]
    /\ unl \in [Unloaders -> Frames]
    /\ closing \in BOOLEAN

(* _loaded never holds more than max_loaded models, whatever loads,         *)
(* evictions and offloads of different keys overlap (ensure_loaded).        *)
LoadedBound == Cardinality(LoadedKeys(loaded)) <= MAX_LOADED

(* A backend is closed only when its worker has ended, and a worker that    *)
(* ended by taking its STOP left no thread in it: only the timeout of an    *)
(* _unload, which cancels the worker, can (_unload, _worker_loop).          *)
ClosedIsQuiet ==
    \A s \in Slots : ~slot[s].open =>
        slot[s].worker \in WorkerEnded /\ (slot[s].stray => slot[s].worker = "cancelled")

(* What ensure_loaded finds under a key is open, though several unloaders   *)
(* may close one object and pop the key when another object is under it     *)
(* (ensure_loaded, _unload).                                                *)
LoadedIsOpen == \A k \in Keys : loaded[k] # NoSlot => slot[loaded[k]].open

(* A model that is being unloaded and is still in _loaded has a coroutine   *)
(* in _unload for it: timeouts, cancellations and several unloaders of one  *)
(* model never leave it without one (_unload).                              *)
UnloadingIsTended ==
    \A k \in Keys : loaded[k] # NoSlot /\ slot[loaded[k]].state = "unloading"
        => \E u \in Unloaders : unl[u].pc # "off" /\ unl[u].slot = loaded[k]

(* A handler that awaits its future has its job in the queue of the slot it *)
(* was given, and no job is queued twice or for a handler that has gone on  *)
(* (_submit, _worker_loop).                                                 *)
WaiterIsQueued ==
    /\ \A t \in Tasks : task[t].pc = "wait" =>
          \E i \in 1 .. Len(slot[task[t].slot].queue) : slot[task[t].slot].queue[i] = t
    /\ \A s \in Slots : \A i \in 1 .. Len(slot[s].queue) : slot[s].queue[i] # STOP =>
          /\ task[slot[s].queue[i]].pc = "wait"
          /\ task[slot[s].queue[i]].slot = s
          /\ \A j \in 1 .. Len(slot[s].queue) : slot[s].queue[j] = slot[s].queue[i] => j = i

(* No job put before the STOP waits for ever, whatever streams are ahead of *)
(* it (_worker_loop, StreamHandle), unless an unload's timeout cancels the  *)
(* worker or it hands a chunk to a client that has left, whose handle       *)
(* nobody reads again (manager.py:488, :493).                               *)
AheadOfStop(t, s) == \E i \in 1 .. Len(slot[s].queue) :
                        /\ slot[s].queue[i] = t
                        /\ \A j \in 1 .. i : slot[s].queue[j] # STOP
ReaderGone(s) == slot[s].worker \in {"put", "fin", "cut"} /\ slot[s].reader = NoTask
AheadOfStopIsServed ==
    \A t \in Tasks : []<>~\E s \in Slots :
        AheadOfStop(t, s) /\ slot[s].worker \notin WorkerEnded /\ ~ReaderGone(s)

(* "the worker is the sole task touching this Llama instance"               *)
(* (manager.py:475): nobody is inside a backend that _unload has closed.    *)
NotClosedInUse == \A s \in Slots : slot[s].stray => slot[s].open

(* "signal worker to stop after draining" (manager.py:402): a worker that   *)
(* has ended leaves no job in its queue.                                    *)
NoJobStranded ==
    \A s \in Slots : slot[s].worker \in WorkerEnded =>
        \A i \in 1 .. Len(slot[s].queue) : slot[s].queue[i] = STOP
=============================================================================
