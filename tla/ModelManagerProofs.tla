------------------------- MODULE ModelManagerProofs -------------------------
(***************************************************************************)
(* Proofs about ModelManager for any handlers, keys, limits and depths.    *)
(* The order of _loaded plays no part in the bounds and in the unloads:    *)
(* these facts hold whichever entry is chosen as the victim.               *)
(***************************************************************************)
EXTENDS ModelManager, FiniteSetTheorems, WellFoundedInduction, TLAPS

Tables == [Keys -> Slots \cup {NoSlot}]
Objects == [Slots -> SlotRecords]

TasksFit(ts) ==
    /\ ts \in [Tasks -> TaskRecords]
    /\ \A t \in Tasks : ts[t].pc \in {"lock", "evict"} => ts[t].key \in Keys

Types == loaded \in Tables /\ slot \in Objects /\ TasksFit(task)

(* A frame is a record with a pc, a slot and a todo, and works on a slot    *)
(* while it is on.                                                          *)
FrameShape ==
    /\ unl = [u \in Unloaders |->
                 [pc |-> unl[u].pc, slot |-> unl[u].slot, todo |-> unl[u].todo]]
    /\ \A u \in Unloaders : unl[u].pc # "off" => unl[u].slot \in Slots

(* WaiterIsQueued for handlers ts and objects sl, and the like for readers: *)
(* who waits has its job queued; a queued job is its handler's only one; a  *)
(* stream that is being read belongs to the handler that reads it.          *)
Waits(ts, sl) == \A t \in Tasks : ts[t].pc = "wait" =>
    /\ ts[t].slot \in Slots
    /\ \E i \in 1 .. Len(sl[ts[t].slot].queue) : sl[ts[t].slot].queue[i] = t

QueuedFor(ts, sl, s, i) ==
    LET j == sl[s].queue[i] IN
    j # STOP => /\ ts[j].pc = "wait" /\ ts[j].slot = s /\ sl[s].state # "none"
                /\ \A m \in 1 .. Len(sl[s].queue) : sl[s].queue[m] = j => m = i

ReadBy(ts, sl, s) ==
    LET r == sl[s].reader IN
    r # NoTask => ts[r].pc = "stream" /\ ts[r].slot = s /\ sl[s].state # "none"

Jobs(ts, sl) == /\ Waits(ts, sl)
                /\ \A s \in Slots : \A i \in 1 .. Len(sl[s].queue) : QueuedFor(ts, sl, s, i)
                /\ \A s \in Slots : ReadBy(ts, sl, s)

(* A handler runs _unload only inside the eviction loop. *)
EvictorOnly == \A t \in Tasks : task[t].pc # "evict" => unl[t].pc = "off"

(* An entry of _loaded sits under its own key; who cancelled its worker is  *)
(* still waiting for it; and UnloadingIsTended, for a table, objects and    *)
(* frames.                                                                  *)
Fits(tab, sl) == \A k \in Keys : tab[k] # NoSlot =>
                     sl[tab[k]].key = k /\ sl[tab[k]].state # "none"

Tended(tab, sl, un) == \A k \in Keys : tab[k] # NoSlot =>
    /\ sl[tab[k]].worker \in {"cut", "cancelled"} =>
          \E u \in Unloaders : un[u].pc = "late" /\ un[u].slot = tab[k]
    /\ sl[tab[k]].state = "unloading" =>
          \E u \in Unloaders : un[u].pc # "off" /\ un[u].slot = tab[k]

(* The order of _loaded lists the entries of the table, each once. *)
Lists(ord, tab) ==
    /\ ord \in Seq(Keys)
    /\ \A i, j \in 1 .. Len(ord) : ord[i] = ord[j] => i = j
    /\ \A k \in Keys : tab[k] # NoSlot <=> \E i \in 1 .. Len(ord) : ord[i] = k

(* A closed backend's worker has ended; a thread is left behind only by a   *)
(* worker that has been cancelled.                                          *)
Quiet(sl) == \A s \in Slots : /\ ~sl[s].open => sl[s].worker \in WorkerEnded
                              /\ sl[s].stray => sl[s].worker \in {"cut", "cancelled"}

IInv == /\ Types /\ FrameShape /\ EvictorOnly /\ Lists(order, loaded)
        /\ Jobs(task, slot)
        /\ Fits(loaded, slot) /\ Tended(loaded, slot, unl)
        /\ LoadedBound /\ Quiet(slot) /\ LoadedIsOpen

-----------------------------------------------------------------------------
(* Types *)

(* The updates of the objects keep their type: _submit's put, the STOP of   *)
(* _unload, backend.close.                                                  *)
LEMMA ObjectUpdates ==
    ASSUME NEW sl \in Objects
    PROVE  /\ \A t \in Tasks, s \in Slots : SlotsWithJob(sl, t, s) \in Objects
           /\ \A s : SlotsStopping(sl, s) \in Objects
           /\ \A s : [sl EXCEPT ![s].open = FALSE] \in Objects
<1> USE DEF Objects, SlotRecords
<1>1. ASSUME NEW t \in Tasks, NEW s \in Slots PROVE SlotsWithJob(sl, t, s) \in Objects
  <2>1. Append(sl[s].queue, t) \in Seq(Tasks \cup {STOP})
    OBVIOUS
  <2> QED BY <2>1, ZenonT(60) DEF SlotsWithJob
<1>2. ASSUME NEW s PROVE SlotsStopping(sl, s) \in Objects
  <2>1. CASE s \in Slots
    <3>1. Append(sl[s].queue, STOP) \in Seq(Tasks \cup {STOP})
      BY <2>1
    <3> DEFINE q == IF HasRoom(sl, s) THEN Append(sl[s].queue, STOP) ELSE sl[s].queue
               r == [sl[s] EXCEPT !.state = "unloading", !.queue = q]
    <3>2. q \in Seq(Tasks \cup {STOP})
      BY <2>1, <3>1
    <3>3. SlotsStopping(sl, s) = [sl EXCEPT ![s] = r]
      BY <2>1 DEF SlotsStopping
    <3> HIDE DEF q
    <3>4. r \in SlotRecords
      BY <2>1, <3>2
    <3> QED BY <3>3, <3>4
  <2>2. CASE s \notin Slots
    BY <2>2 DEF SlotsStopping
  <2> QED BY <2>1, <2>2
<1>3. ASSUME NEW s PROVE [sl EXCEPT ![s].open = FALSE] \in Objects
  OBVIOUS
<1> QED BY <1>1, <1>2, <1>3

(* A handler goes back to its start, or waits for its job in a slot. *)
LEMMA TaskUpdates ==
    ASSUME TasksFit(task)
    PROVE  /\ \A t : TasksFit([task EXCEPT ![t] = Idle])
           /\ \A sl, t : \A s \in Slots : TasksFit(TasksAfterSubmit(sl, t, s))
<1> USE DEF TasksFit, TaskRecords, Idle
<1>1. ASSUME NEW t PROVE TasksFit([task EXCEPT ![t] = Idle])
  OBVIOUS
<1>2. ASSUME NEW sl, NEW t, NEW s \in Slots PROVE TasksFit(TasksAfterSubmit(sl, t, s))
  BY DEF TasksAfterSubmit
<1> QED BY <1>1, <1>2

(* A model just loaded *)
LEMMA FreshObject ==
    ASSUME TasksFit(task), NEW t \in Tasks
    PROVE  /\ Fresh(t) \in SlotRecords
           /\ Fresh(t).key = task[t].key /\ Fresh(t).state = "loaded"
           /\ Fresh(t).worker = "get" /\ Fresh(t).reader = NoTask
           /\ Fresh(t).queue = <<>> /\ Fresh(t).open = TRUE
           /\ Fresh(t).stray = FALSE
<1>1. Unused \in SlotRecords
  BY ManagerAssumption DEF Unused, SlotRecords, Workers
<1>2. (IF task[t].ctx = 0 THEN DEFAULT_CTX ELSE task[t].ctx) \in Nat
  BY ManagerAssumption DEF TasksFit, TaskRecords
<1>3. task[t].key \in Keys \cup {NoKey}
  BY DEF TasksFit, TaskRecords
<1>4. Fresh(t) \in SlotRecords
  BY <1>1, <1>2, <1>3 DEF Fresh, SlotRecords, Workers
<1> QED BY <1>4 DEF Fresh, Unused

(* The eviction loop, on whatever table and objects it is entered with *)
LEMMA RoomTypes ==
    ASSUME TasksFit(task), NEW t \in Tasks, task[t].key \in Keys,
           NEW tab \in Tables, NEW ord, NEW sl \in Objects,
           MakeRoomAndLoad(t, tab, ord, sl)
    PROVE  Types'
<1>1. CASE EvictNext(t, tab, ord, sl)
  <2>1. slot' \in Objects
    BY <1>1, ObjectUpdates DEF EvictNext
  <2>2. TasksFit(task')
    BY <1>1 DEF EvictNext, TasksFit, TaskRecords
  <2> QED BY <1>1, <2>1, <2>2 DEF EvictNext, Types, TasksFit
<1>2. ASSUME NEW s \in Slots, LoadInto(t, s, tab, ord, sl) PROVE Types'
  <2>1. Fresh(t) \in SlotRecords
    BY FreshObject
  <2>2. [sl EXCEPT ![s] = Fresh(t)] \in Objects
    BY <2>1 DEF Objects
  <2>3. slot' \in Objects
    BY <1>2, <2>2, ObjectUpdates DEF LoadInto
  <2>4. TasksFit(task')
    BY <1>2, TaskUpdates DEF LoadInto
  <2>5. loaded' \in Tables
    BY <1>2 DEF LoadInto, Tables
  <2> QED BY <2>3, <2>4, <2>5 DEF Types, TasksFit
<1>3. CASE LoadFails(t, tab, ord, sl)
  <2>1. TasksFit(task')
    BY <1>3, TaskUpdates DEF LoadFails
  <2> QED BY <1>3, <2>1 DEF LoadFails, Types, TasksFit
<1> QED BY <1>1, <1>2, <1>3 DEF MakeRoomAndLoad

(* What pop and close leave *)
LEMMA AfterUnload ==
    ASSUME Types, NEW u
    PROVE  TableWithout(KeyOf(u)) \in Tables /\ SlotsClosed(u) \in Objects
<1>1. TableWithout(KeyOf(u)) \in Tables
  BY DEF Types, Tables, TableWithout
<1>2. SlotsClosed(u) \in Objects
  BY ObjectUpdates DEF Types, SlotsClosed
<1> QED BY <1>1, <1>2

(* An entry the fast path accepts is an object.                             *)
LEMMA UsableSlot ==
    ASSUME Types, NEW k \in Keys, NEW x, Usable(k, x)
    PROVE  loaded[k] \in Slots
BY DEF Types, Tables, Usable

(* The job at the head of a queue *)
LEMMA JobType ==
    ASSUME Types, NEW s \in Slots, AtGet(s)
    PROVE  /\ Job(s) \in Tasks \cup {STOP}
           /\ Tail(slot[s].queue) \in Seq(Tasks \cup {STOP})
           /\ Len(slot[s].queue) \in Nat \ {0}
           /\ Job(s) = slot[s].queue[1]
<1>1. slot[s].queue \in Seq(Tasks \cup {STOP})
  BY DEF Types, Objects, SlotRecords
<1> QED BY <1>1 DEF AtGet, Job

(* The thread that returns after its worker was cancelled changes nothing   *)
(* else.                                                                    *)
LEMMA ThreadKeeps ==
    ASSUME slot \in Objects, NEW s \in Slots, ThreadReturns(s)
    PROVE  /\ slot' \in Objects
           /\ \A x \in Slots :
                 /\ slot'[x].key = slot[x].key /\ slot'[x].state = slot[x].state
                 /\ slot'[x].queue = slot[x].queue /\ slot'[x].worker = slot[x].worker
                 /\ slot'[x].reader = slot[x].reader /\ slot'[x].open = slot[x].open
                 /\ slot'[x].stray => slot[x].stray
           /\ loaded' = loaded /\ order' = order /\ lockq' = lockq /\ task' = task
           /\ unl' = unl /\ closing' = closing
<1>1. slot' = [slot EXCEPT ![s].stray = FALSE]
  BY DEF ThreadReturns
<1>2. slot[s] \in SlotRecords
  BY DEF Objects
<1>3. [slot[s] EXCEPT !.stray = FALSE] \in SlotRecords
  BY <1>2 DEF SlotRecords
<1>4. slot' \in Objects
  BY <1>1, <1>3 DEF Objects
<1>5. \A x \in Slots : x # s => slot'[x] = slot[x]
  BY <1>1 DEF Objects
<1>6. /\ slot'[s].key = slot[s].key /\ slot'[s].state = slot[s].state
      /\ slot'[s].queue = slot[s].queue /\ slot'[s].worker = slot[s].worker
      /\ slot'[s].reader = slot[s].reader /\ slot'[s].open = slot[s].open
      /\ slot'[s].stray = FALSE
  BY <1>1, <1>2 DEF Objects, SlotRecords
<1> QED BY <1>4, <1>5, <1>6 DEF ThreadReturns

(* Every step keeps the types.                                              *)
LEMMA TypesStep ==
    ASSUME Types, EvictorOnly, Next
    PROVE  Types'
<1> SUFFICES ASSUME TRUE PROVE loaded' \in Tables /\ slot' \in Objects /\ TasksFit(task')
  BY DEF Types, TasksFit
<1> USE DEF Types
<1>1. ASSUME NEW t \in Tasks, NEW k \in Keys, NEW x \in CtxRequests, FastPath(t, k, x)
      PROVE  loaded' \in Tables /\ slot' \in Objects /\ TasksFit(task')
  BY <1>1, UsableSlot, ObjectUpdates, TaskUpdates DEF FastPath
<1>2. ASSUME NEW t \in Tasks, NEW k \in Keys, NEW x \in CtxRequests, WaitForLock(t, k, x)
      PROVE  loaded' \in Tables /\ slot' \in Objects /\ TasksFit(task')
  <2>1. TasksFit(task')
    BY <1>2, ManagerAssumption DEF WaitForLock, TasksFit, TaskRecords, Idle
  <2> QED BY <1>2, <2>1 DEF WaitForLock
<1>3. ASSUME NEW t \in Tasks, LockedHit(t)
      PROVE  loaded' \in Tables /\ slot' \in Objects /\ TasksFit(task')
  <2>1. task[t].key \in Keys
    BY <1>3 DEF LockedHit, TasksFit
  <2> QED BY <1>3, <2>1, UsableSlot, ObjectUpdates, TaskUpdates DEF LockedHit
<1>4. ASSUME NEW t \in Tasks, LockedMiss(t)
      PROVE  loaded' \in Tables /\ slot' \in Objects /\ TasksFit(task')
  <2>1. task[t].key \in Keys
    BY <1>4 DEF LockedMiss, TasksFit
  <2>2. Types'
    BY <1>4, <2>1, RoomTypes DEF LockedMiss
  <2> QED BY <2>2 DEF TasksFit
<1>5. ASSUME NEW t \in Tasks, Evicted(t)
      PROVE  loaded' \in Tables /\ slot' \in Objects /\ TasksFit(task')
  <2>1. task[t].key \in Keys
    BY <1>5 DEF Evicted, Joined, EvictorOnly, TasksFit
  <2>2. Types'
    BY <1>5, <2>1, RoomTypes, AfterUnload DEF Evicted
  <2> QED BY <2>2 DEF TasksFit
<1>6. ASSUME NEW t \in Tasks, HangUp(t)
      PROVE  loaded' \in Tables /\ slot' \in Objects /\ TasksFit(task')
  <2> DEFINE s == task[t].slot
             r == [slot[s] EXCEPT !.reader = IF @ = t THEN NoTask ELSE @]
  <2>0. slot' = [slot EXCEPT ![s] = r]
    BY <1>6 DEF HangUp
  <2>1. slot' \in Objects
    <3>1. CASE s \in Slots
      <4>1. slot[s] \in SlotRecords
        BY <3>1 DEF Objects
      <4>2. r \in SlotRecords
        BY <4>1 DEF SlotRecords
      <4> QED BY <2>0, <4>2 DEF Objects
    <3>2. CASE s \notin Slots
      BY <2>0, <3>2 DEF Objects
    <3> QED BY <3>1, <3>2
  <2> QED BY <1>6, <2>1, TaskUpdates DEF HangUp
<1>7. ASSUME NEW u \in Unloaders, PutStop(u)
      PROVE  loaded' \in Tables /\ slot' \in Objects /\ TasksFit(task')
  <2>1. slot' \in Objects
    <3>1. CASE unl[u].slot \in Slots
      <4>1. Append(slot[unl[u].slot].queue, STOP) \in Seq(Tasks \cup {STOP})
        BY <3>1 DEF Objects, SlotRecords
      <4> QED BY <1>7, <3>1, <4>1, ZenonT(60) DEF PutStop, Objects, SlotRecords
    <3>2. CASE unl[u].slot \notin Slots
      BY <1>7, <3>2 DEF PutStop, Objects
    <3> QED BY <3>1, <3>2
  <2> QED BY <1>7, <2>1 DEF PutStop
<1>8. ASSUME NEW u \in Unloaders, WaitTimesOut(u)
      PROVE  loaded' \in Tables /\ slot' \in Objects /\ TasksFit(task')
  <2>1. TasksFit(task')
    BY <1>8, TaskUpdates DEF WaitTimesOut, ReaderDone
  <2>2. slot' \in Objects
    <3> DEFINE s == unl[u].slot
    <3>1. PICK w \in AfterCancel(slot[s].worker) :
             slot' = [slot EXCEPT ![s].worker = w,
                                  ![s].stray = @ \/ slot[s].worker = "pump",
                                  ![s].reader = IF w = "cut" THEN @ ELSE NoTask]
      BY <1>8 DEF WaitTimesOut
    <3>2. w \in Workers
      BY DEF AfterCancel, Workers
    <3> DEFINE r == [slot[s] EXCEPT !.worker = w, !.stray = @ \/ slot[s].worker = "pump",
                                    !.reader = IF w = "cut" THEN @ ELSE NoTask]
    <3>3. slot' = [slot EXCEPT ![s] = r]
      BY <3>1
    <3>4. CASE s \in Slots
      <4>1. slot[s] \in SlotRecords
        BY <3>4 DEF Objects
      <4>2. r \in SlotRecords
        BY <4>1, <3>2 DEF SlotRecords
      <4> QED BY <3>3, <4>2 DEF Objects
    <3>5. CASE s \notin Slots
      BY <3>3, <3>5 DEF Objects
    <3> QED BY <3>4, <3>5
  <2> QED BY <1>8, <2>1, <2>2 DEF WaitTimesOut
<1>9. ASSUME NEW u \in Unloaders, Abort(u)
      PROVE  loaded' \in Tables /\ slot' \in Objects /\ TasksFit(task')
  BY <1>9, TaskUpdates DEF Abort
<1>10. ASSUME NEW u \in Unloaders, Unloaded(u)
      PROVE  loaded' \in Tables /\ slot' \in Objects /\ TasksFit(task')
  BY <1>10, AfterUnload, ObjectUpdates DEF Unloaded
<1>11. ASSUME NEW s \in Slots, IdleOffload(s)
      PROVE  loaded' \in Tables /\ slot' \in Objects /\ TasksFit(task')
  BY <1>11, ObjectUpdates DEF IdleOffload, StartUnload
<1>12. ASSUME NEW m \in Models, ForceUnload(m)
      PROVE  loaded' \in Tables /\ slot' \in Objects /\ TasksFit(task')
  BY <1>12, ObjectUpdates DEF ForceUnload, StartUnload
<1>13. ASSUME Shutdown
      PROVE  loaded' \in Tables /\ slot' \in Objects /\ TasksFit(task')
  BY <1>13, ObjectUpdates DEF Shutdown, StartUnload
<1>14. ASSUME NEW s \in Slots, Worker(s)
      PROVE  loaded' \in Tables /\ slot' \in Objects /\ TasksFit(task')
  <2>0. slot[s] \in SlotRecords
    BY DEF Objects
  <2>1. CASE TakeStop(s)
    <3> DEFINE r == [slot[s] EXCEPT !.queue = Tail(@), !.worker = "returned"]
    <3>1. slot' = [slot EXCEPT ![s] = r]
      BY <2>1 DEF TakeStop
    <3>2. r \in SlotRecords
      BY <2>1, <2>0, JobType DEF TakeStop, SlotRecords, Workers
    <3> QED BY <2>1, <3>1, <3>2 DEF TakeStop, Objects
  <2>2. CASE Answer(s)
    <3>1. slot' \in Objects
      <4> DEFINE r == [slot[s] EXCEPT !.queue = Tail(@)]
      <4>1. slot' = [slot EXCEPT ![s] = r]
        BY <2>2 DEF Answer
      <4>2. r \in SlotRecords
        BY <2>2, <2>0, JobType DEF Answer, SlotRecords
      <4> QED BY <4>1, <4>2 DEF Objects
    <3> QED BY <2>2, <3>1, TaskUpdates DEF Answer
  <2>3. CASE StartStream(s)
    <3>1. slot' \in Objects
      <4> DEFINE r == [slot[s] EXCEPT !.queue = Tail(@), !.worker = "pump", !.reader = Job(s)]
      <4>1. slot' = [slot EXCEPT ![s] = r]
        BY <2>3 DEF StartStream
      <4>2. Job(s) \in Tasks
        BY <2>3, JobType DEF StartStream
      <4>3. r \in SlotRecords
        BY <2>3, <2>0, <4>2, JobType DEF StartStream, SlotRecords, Workers
      <4> QED BY <4>1, <4>3 DEF Objects
    <3>2. TasksFit(task')
      BY <2>3, ZenonT(60) DEF StartStream, TasksFit, TaskRecords
    <3> QED BY <2>3, <3>1, <3>2 DEF StartStream
  <2>4. CASE ChunkBlocks(s)
    BY <2>4, ZenonT(60) DEF ChunkBlocks, Objects, SlotRecords, Workers
  <2> QED BY <1>14, <2>1, <2>2, <2>3, <2>4 DEF Worker
<1>15. ASSUME NEW s \in Slots, GeneratorEnds(s)
      PROVE  loaded' \in Tables /\ slot' \in Objects /\ TasksFit(task')
  <2>1. slot' \in Objects
    <3> DEFINE r == [slot[s] EXCEPT !.worker = "get", !.reader = NoTask]
               f == [slot[s] EXCEPT !.worker = "fin"]
    <3>1. slot' = [slot EXCEPT ![s] = r] \/ slot' = [slot EXCEPT ![s] = f]
      BY <1>15 DEF GeneratorEnds
    <3>2. r \in SlotRecords /\ f \in SlotRecords
      <4>1. slot[s] \in SlotRecords
        BY DEF Objects
      <4> QED BY <4>1 DEF SlotRecords, Workers
    <3> QED BY <3>1, <3>2 DEF Objects
  <2> QED BY <1>15, <2>1, TaskUpdates DEF GeneratorEnds, ReaderDone
<1>16. ASSUME NEW s \in Slots, ReaderReads(s)
      PROVE  loaded' \in Tables /\ slot' \in Objects /\ TasksFit(task')
  <2>1. slot' \in Objects
    <3> DEFINE r == [slot[s] EXCEPT !.worker = "pump"]
               f == [slot[s] EXCEPT !.reader = NoTask,
                                    !.worker = IF @ = "fin" THEN "get" ELSE "cancelled"]
    <3>1. slot' = [slot EXCEPT ![s] = r] \/ slot' = [slot EXCEPT ![s] = f]
      BY <1>16 DEF ReaderReads
    <3>2. r \in SlotRecords /\ f \in SlotRecords
      <4>1. slot[s] \in SlotRecords
        BY DEF Objects
      <4> QED BY <4>1 DEF SlotRecords, Workers
    <3> QED BY <3>1, <3>2 DEF Objects
  <2> QED BY <1>16, <2>1, TaskUpdates DEF ReaderReads, ReaderDone
<1>17. ASSUME NEW s \in Slots, ThreadReturns(s)
      PROVE  loaded' \in Tables /\ slot' \in Objects /\ TasksFit(task')
  BY <1>17, ThreadKeeps
<1> QED BY <1>1, <1>2, <1>3, <1>4, <1>5, <1>6, <1>7, <1>8, <1>9, <1>10, <1>11,
           <1>12, <1>13, <1>14, <1>15, <1>16, <1>17 DEF Next

-----------------------------------------------------------------------------
(* max_loaded *)

(* pop does not add an entry, an insertion adds at most one.                *)
LEMMA KeyCounts ==
    ASSUME NEW tab \in Tables
    PROVE  /\ Cardinality(LoadedKeys(tab)) \in Nat
           /\ \A k : Cardinality(LoadedKeys([tab EXCEPT ![k] = NoSlot]))
                        <= Cardinality(LoadedKeys(tab))
           /\ \A k, s : Cardinality(LoadedKeys([tab EXCEPT ![k] = s]))
                           <= Cardinality(LoadedKeys(tab)) + 1
<1>1. IsFiniteSet(LoadedKeys(tab))
  BY ManagerAssumption, FS_Subset DEF LoadedKeys
<1>2. Cardinality(LoadedKeys(tab)) \in Nat
  BY <1>1, FS_CardinalityType
<1>3. ASSUME NEW k PROVE Cardinality(LoadedKeys([tab EXCEPT ![k] = NoSlot]))
                            <= Cardinality(LoadedKeys(tab))
  <2>1. LoadedKeys([tab EXCEPT ![k] = NoSlot]) \subseteq LoadedKeys(tab)
    BY DEF LoadedKeys, Tables
  <2> QED BY <1>1, <2>1, FS_Subset
<1>4. ASSUME NEW k, NEW s PROVE Cardinality(LoadedKeys([tab EXCEPT ![k] = s]))
                                  <= Cardinality(LoadedKeys(tab)) + 1
  <2>1. LoadedKeys([tab EXCEPT ![k] = s]) \subseteq LoadedKeys(tab) \cup {k}
    BY DEF LoadedKeys, Tables
  <2>2. /\ IsFiniteSet(LoadedKeys(tab) \cup {k})
        /\ Cardinality(LoadedKeys(tab) \cup {k}) <= Cardinality(LoadedKeys(tab)) + 1
    <3>1. /\ IsFiniteSet(LoadedKeys(tab) \cup {k})
          /\ Cardinality(LoadedKeys(tab) \cup {k}) =
                IF k \in LoadedKeys(tab) THEN Cardinality(LoadedKeys(tab))
                ELSE Cardinality(LoadedKeys(tab)) + 1
      BY <1>1, FS_AddElement
    <3> QED BY <1>2, <3>1
  <2>3. /\ IsFiniteSet(LoadedKeys([tab EXCEPT ![k] = s]))
        /\ Cardinality(LoadedKeys([tab EXCEPT ![k] = s]))
              <= Cardinality(LoadedKeys(tab) \cup {k})
    BY <2>1, <2>2, FS_Subset
  <2>4. /\ Cardinality(LoadedKeys([tab EXCEPT ![k] = s])) \in Nat
        /\ Cardinality(LoadedKeys(tab) \cup {k}) \in Nat
    BY <2>2, <2>3, FS_CardinalityType
  <2> QED BY <1>2, <2>2, <2>3, <2>4
<1> QED BY <1>2, <1>3, <1>4

(* The loop's last test, the load and the insertion are one step. *)
LEMMA RoomBound ==
    ASSUME NEW t \in Tasks, NEW tab \in Tables, NEW ord, NEW sl,
           Cardinality(LoadedKeys(tab)) <= MAX_LOADED,
           MakeRoomAndLoad(t, tab, ord, sl)
    PROVE  LoadedBound'
<1>1. CASE loaded' = tab
  BY <1>1 DEF LoadedBound, LoadedKeys
<1>2. ASSUME NEW s \in Slots, LoadInto(t, s, tab, ord, sl) PROVE LoadedBound'
  <2>1. Cardinality(LoadedKeys(tab)) + 1 <= MAX_LOADED
    BY <1>2, KeyCounts, ManagerAssumption DEF LoadInto, AtLimit
  <2>2. loaded' = [tab EXCEPT ![task[t].key] = s]
    BY <1>2 DEF LoadInto
  <2>3. Cardinality(LoadedKeys([tab EXCEPT ![task[t].key] = s])) \in Nat
    <3>1. [tab EXCEPT ![task[t].key] = s] \in Tables
      BY DEF Tables
    <3> QED BY <3>1, KeyCounts
  <2>4. Cardinality(LoadedKeys([tab EXCEPT ![task[t].key] = s])) <= MAX_LOADED
    BY <2>1, <2>3, KeyCounts, ManagerAssumption, SMTT(30)
  <2> QED BY <2>2, <2>4 DEF LoadedBound, LoadedKeys
<1> QED BY <1>1, <1>2 DEF MakeRoomAndLoad, EvictNext, LoadFails

(* Every step keeps the bound: only LoadInto inserts, and it has just seen  *)
(* that there is room.                                                      *)
LEMMA BoundStep ==
    ASSUME Types, LoadedBound, Next
    PROVE  LoadedBound'
<1>1. ASSUME NEW u PROVE /\ TableWithout(KeyOf(u)) \in Tables
                         /\ Cardinality(LoadedKeys(TableWithout(KeyOf(u)))) <= MAX_LOADED
  <2>1. TableWithout(KeyOf(u)) \in Tables
    BY AfterUnload
  <2>2. /\ Cardinality(LoadedKeys(loaded)) \in Nat
        /\ Cardinality(LoadedKeys(TableWithout(KeyOf(u)))) <= Cardinality(LoadedKeys(loaded))
    BY KeyCounts DEF Types, TableWithout
  <2>3. Cardinality(LoadedKeys(TableWithout(KeyOf(u)))) \in Nat
    BY <2>1, KeyCounts
  <2> QED BY <2>1, <2>2, <2>3, ManagerAssumption DEF LoadedBound
<1>2. CASE loaded' = loaded
  BY <1>2 DEF LoadedBound, LoadedKeys
<1>3. ASSUME NEW u \in Unloaders, Unloaded(u) PROVE LoadedBound'
  <2>1. loaded' = TableWithout(KeyOf(u))
    BY <1>3 DEF Unloaded
  <2> QED BY <2>1, <1>1 DEF LoadedBound, LoadedKeys
<1>4. ASSUME NEW t \in Tasks, LockedMiss(t) PROVE LoadedBound'
  BY <1>4, RoomBound DEF LockedMiss, Types, LoadedBound
<1>5. ASSUME NEW t \in Tasks, Evicted(t) PROVE LoadedBound'
  BY <1>1, <1>5, RoomBound DEF Evicted
<1>6. \/ loaded' = loaded
      \/ \E u \in Unloaders : Unloaded(u)
      \/ \E t \in Tasks : LockedMiss(t) \/ Evicted(t)
  BY DEF Next, FastPath, WaitForLock, LockedHit, HangUp, PutStop, WaitTimesOut, Abort,
         IdleOffload, ForceUnload, Shutdown, StartUnload, Worker, TakeStop, Answer,
         StartStream, ChunkBlocks, GeneratorEnds, ReaderReads, ThreadReturns
<1> QED BY <1>2, <1>3, <1>4, <1>5, <1>6

-----------------------------------------------------------------------------
(* What the updates of the objects leave alone *)

(* _submit changes nothing but the queue.                                   *)
LEMMA JobKeeps ==
    ASSUME NEW sl \in Objects, NEW t \in Tasks, NEW s \in Slots, NEW x \in Slots
    PROVE  /\ SlotsWithJob(sl, t, s)[x].key = sl[x].key
           /\ SlotsWithJob(sl, t, s)[x].state = sl[x].state
           /\ SlotsWithJob(sl, t, s)[x].worker = sl[x].worker
           /\ SlotsWithJob(sl, t, s)[x].reader = sl[x].reader
           /\ SlotsWithJob(sl, t, s)[x].open = sl[x].open
           /\ SlotsWithJob(sl, t, s)[x].stray = sl[x].stray
BY DEF SlotsWithJob, Objects, SlotRecords

(* The start of _unload changes the state and the queue of its object.      *)
LEMMA StopKeeps ==
    ASSUME NEW sl \in Objects, NEW s, NEW x \in Slots
    PROVE  /\ SlotsStopping(sl, s)[x].key = sl[x].key
           /\ SlotsStopping(sl, s)[x].state = IF x = s THEN "unloading" ELSE sl[x].state
           /\ SlotsStopping(sl, s)[x].worker = sl[x].worker
           /\ SlotsStopping(sl, s)[x].reader = sl[x].reader
           /\ SlotsStopping(sl, s)[x].open = sl[x].open
           /\ SlotsStopping(sl, s)[x].stray = sl[x].stray
BY DEF SlotsStopping, Objects, SlotRecords

(* backend.close changes nothing but the backend.                           *)
LEMMA CloseKeeps ==
    ASSUME slot \in Objects, NEW u, NEW x \in Slots
    PROVE  /\ SlotsClosed(u)[x].key = slot[x].key
           /\ SlotsClosed(u)[x].state = slot[x].state
           /\ SlotsClosed(u)[x].worker = slot[x].worker
           /\ SlotsClosed(u)[x].reader = slot[x].reader
           /\ SlotsClosed(u)[x].queue = slot[x].queue
           /\ SlotsClosed(u)[x].stray = slot[x].stray
           /\ SlotsClosed(u)[x].open = IF x = unl[u].slot THEN FALSE ELSE slot[x].open
BY DEF SlotsClosed, Objects, SlotRecords

-----------------------------------------------------------------------------
(* No backend is closed under its worker *)

(* The eviction loop closes nothing; a fresh object is open.                *)
LEMMA QuietRoom ==
    ASSUME NEW t \in Tasks, TasksFit(task), NEW tab, NEW ord, NEW sl \in Objects, Quiet(sl),
           MakeRoomAndLoad(t, tab, ord, sl)
    PROVE  Quiet(slot')
<1>1. CASE EvictNext(t, tab, ord, sl)
  BY <1>1, StopKeeps DEF EvictNext, Quiet
<1>2. ASSUME NEW s \in Slots, LoadInto(t, s, tab, ord, sl) PROVE Quiet(slot')
  <2> DEFINE new == [sl EXCEPT ![s] = Fresh(t)]
  <2>1. new \in Objects /\ Quiet(new)
    <3>1. new \in Objects
      BY FreshObject DEF Objects
    <3>2. new[s].open = TRUE /\ new[s].stray = FALSE /\ \A x \in Slots : x # s => new[x] = sl[x]
      BY FreshObject DEF Objects
    <3> HIDE DEF new
    <3>3. ASSUME NEW x \in Slots
          PROVE  /\ ~new[x].open => new[x].worker \in WorkerEnded
                 /\ new[x].stray => new[x].worker \in {"cut", "cancelled"}
      <4>1. CASE x = s
        BY <3>2, <4>1
      <4>2. CASE x # s
        BY <3>2, <4>2 DEF Quiet
      <4> QED BY <4>1, <4>2
    <3> QED BY <3>1, <3>3 DEF Quiet
  <2>2. slot' = SlotsWithJob(new, t, s)
    BY <1>2 DEF LoadInto
  <2> HIDE DEF new
  <2> QED BY <2>1, <2>2, JobKeeps DEF Quiet
<1>3. CASE LoadFails(t, tab, ord, sl)
  BY <1>3 DEF LoadFails
<1> QED BY <1>1, <1>2, <1>3 DEF MakeRoomAndLoad

(* A backend is closed only by an unloader whose worker has ended, and a    *)
(* worker that has ended does nothing any more.                             *)
LEMMA QuietStep ==
    ASSUME Types, Quiet(slot), Next
    PROVE  Quiet(slot')
<1>0. slot \in Objects /\ Quiet(slot)
  BY DEF Types
<1>1. CASE slot' = slot
  BY <1>0, <1>1
<1>2. ASSUME NEW u, Joined(u) PROVE SlotsClosed(u) \in Objects /\ Quiet(SlotsClosed(u))
  <2>1. SlotsClosed(u) \in Objects
    BY AfterUnload
  <2>2. slot[unl[u].slot].worker \in WorkerEnded
    BY <1>2 DEF Joined, WorkerEnded
  <2>3. ASSUME NEW x \in Slots, ~SlotsClosed(u)[x].open
        PROVE  SlotsClosed(u)[x].worker \in WorkerEnded
    <3>1. SlotsClosed(u)[x].worker = slot[x].worker
      BY <1>0, CloseKeeps
    <3>2. x = unl[u].slot \/ ~slot[x].open
      BY <1>0, <2>3, CloseKeeps
    <3> QED BY <1>0, <2>2, <3>1, <3>2 DEF Quiet
  <2>4. ASSUME NEW x \in Slots, SlotsClosed(u)[x].stray
        PROVE  SlotsClosed(u)[x].worker \in {"cut", "cancelled"}
    <3>1. SlotsClosed(u)[x].stray = slot[x].stray /\ SlotsClosed(u)[x].worker = slot[x].worker
      BY <1>0, CloseKeeps
    <3> QED BY <1>0, <2>4, <3>1 DEF Quiet
  <2> QED BY <2>1, <2>3, <2>4 DEF Quiet
<1>3. ASSUME NEW s, slot' = SlotsStopping(slot, s) PROVE Quiet(slot')
  BY <1>0, <1>3, StopKeeps DEF Quiet
<1>4. ASSUME NEW t \in Tasks, NEW s \in Slots, slot' = SlotsWithJob(slot, t, s)
      PROVE  Quiet(slot')
  BY <1>0, <1>4, JobKeeps DEF Quiet
<1>5. ASSUME NEW t \in Tasks, NEW k \in Keys, NEW x \in CtxRequests, FastPath(t, k, x)
      PROVE  Quiet(slot')
  BY <1>4, <1>5, UsableSlot DEF FastPath
<1>6. ASSUME NEW t \in Tasks, LockedHit(t) PROVE Quiet(slot')
  <2>1. task[t].key \in Keys
    BY <1>6 DEF LockedHit, Types, TasksFit
  <2> QED BY <1>4, <1>6, <2>1, UsableSlot DEF LockedHit
<1>7. ASSUME NEW t \in Tasks, LockedMiss(t) PROVE Quiet(slot')
  BY <1>0, <1>7, QuietRoom DEF LockedMiss, Types
<1>8. ASSUME NEW t \in Tasks, Evicted(t) PROVE Quiet(slot')
  BY <1>2, <1>8, QuietRoom DEF Evicted, Types
<1>9. ASSUME NEW t \in Tasks, HangUp(t) PROVE Quiet(slot')
  BY <1>0, <1>9 DEF HangUp, Quiet, Objects, SlotRecords
<1>10. ASSUME NEW u \in Unloaders, PutStop(u) PROVE Quiet(slot')
  BY <1>0, <1>10 DEF PutStop, Quiet, Objects, SlotRecords
<1>11. ASSUME NEW u \in Unloaders, WaitTimesOut(u) PROVE Quiet(slot')
  <2> DEFINE s == unl[u].slot
  <2>1. PICK w \in AfterCancel(slot[s].worker) :
           slot' = [slot EXCEPT ![s].worker = w,
                                ![s].stray = @ \/ slot[s].worker = "pump",
                                ![s].reader = IF w = "cut" THEN @ ELSE NoTask]
    BY <1>11 DEF WaitTimesOut
  <2>2. slot[s].worker \notin WorkerEnded
    BY DEF AfterCancel, WorkerEnded
  <2>3. ASSUME NEW x \in Slots PROVE ~slot'[x].open => slot'[x].worker \in WorkerEnded
    <3>1. slot'[x].open = slot[x].open
      BY <1>0, <2>1 DEF Objects, SlotRecords
    <3>2. x # s => slot'[x].worker = slot[x].worker
      BY <1>0, <2>1 DEF Objects, SlotRecords
    <3> QED BY <1>0, <2>2, <3>1, <3>2 DEF Quiet
  <2>4. w \in {"cut", "cancelled"}
    BY <2>1 DEF AfterCancel
  <2>5. ASSUME NEW x \in Slots, slot'[x].stray PROVE slot'[x].worker \in {"cut", "cancelled"}
    <3>1. CASE x = s
      BY <1>0, <2>1, <2>4, <3>1 DEF Objects, SlotRecords
    <3>2. CASE x # s
      <4>1. slot'[x] = slot[x]
        BY <1>0, <2>1, <3>2 DEF Objects
      <4> QED BY <1>0, <2>5, <4>1 DEF Quiet
    <3> QED BY <3>1, <3>2
  <2> QED BY <2>3, <2>5 DEF Quiet
<1>12. ASSUME NEW u \in Unloaders, Unloaded(u) PROVE Quiet(slot')
  BY <1>2, <1>12, StopKeeps DEF Unloaded, Quiet
<1>13. ASSUME \/ \E s \in Slots : IdleOffload(s)
              \/ \E m \in Models : ForceUnload(m)
              \/ Shutdown
       PROVE  Quiet(slot')
  BY <1>1, <1>3, <1>13 DEF IdleOffload, ForceUnload, Shutdown, StartUnload
<1>14. ASSUME NEW s \in Slots, Worker(s) \/ GeneratorEnds(s) \/ ReaderReads(s)
       PROVE  Quiet(slot')
  <2>1. slot[s].worker \notin WorkerEnded
    BY <1>14 DEF Worker, TakeStop, Answer, StartStream, ChunkBlocks, GeneratorEnds,
                 ReaderReads, AtGet, WorkerEnded
  <2>2. slot[s].open
    BY <1>0, <2>1 DEF Quiet
  <2>3. slot'[s].open /\ \A x \in Slots : x # s => slot'[x] = slot[x]
    <3>1. CASE TakeStop(s) \/ Answer(s)
      BY <1>0, <2>2, <3>1 DEF TakeStop, Answer, Objects, SlotRecords
    <3>2. CASE StartStream(s)
      BY <1>0, <2>2, <3>2 DEF StartStream, Objects, SlotRecords
    <3>3. CASE ChunkBlocks(s)
      BY <1>0, <2>2, <3>3 DEF ChunkBlocks, Objects, SlotRecords
    <3>4. CASE GeneratorEnds(s)
      BY <1>0, <2>2, <3>4 DEF GeneratorEnds, Objects, SlotRecords
    <3>5. CASE ReaderReads(s)
      BY <1>0, <2>2, <3>5 DEF ReaderReads, Objects, SlotRecords
    <3> QED BY <1>14, <3>1, <3>2, <3>3, <3>4, <3>5 DEF Worker
  <2>4. /\ slot'[s].stray = slot[s].stray
        /\ slot[s].worker = "cut" => slot'[s].worker \in {"cut", "cancelled"}
    <3>1. CASE TakeStop(s) \/ Answer(s)
      BY <1>0, <3>1 DEF TakeStop, Answer, AtGet, Objects, SlotRecords
    <3>2. CASE StartStream(s) \/ ChunkBlocks(s)
      BY <1>0, <3>2 DEF StartStream, ChunkBlocks, AtGet, Objects, SlotRecords
    <3>3. CASE GeneratorEnds(s)
      BY <1>0, <3>3 DEF GeneratorEnds, Objects, SlotRecords
    <3>4. CASE ReaderReads(s)
      BY <1>0, <3>4 DEF ReaderReads, Objects, SlotRecords
    <3> QED BY <1>14, <3>1, <3>2, <3>3, <3>4 DEF Worker
  <2>5. slot[s].worker # "cancelled"
    BY <2>1 DEF WorkerEnded
  <2> QED BY <1>0, <2>3, <2>4, <2>5 DEF Quiet
<1>15. ASSUME NEW s \in Slots, ThreadReturns(s) PROVE Quiet(slot')
  BY <1>0, <1>15, ThreadKeeps DEF Quiet
<1> QED BY <1>1, <1>5, <1>6, <1>7, <1>8, <1>9, <1>10, <1>11, <1>12, <1>13, <1>14, <1>15
        DEF Next, WaitForLock, Abort

-----------------------------------------------------------------------------
(* Jobs and streams *)

Busy == {"wait", "stream"}

(* A handler with no job and no stream may do what it likes. *)
LEMMA JobsFree ==
    ASSUME TasksFit(task), NEW sl \in Objects, Jobs(task, sl), NEW t \in Tasks,
           task[t].pc \notin Busy, NEW r, r.pc \notin Busy
    PROVE  Jobs([task EXCEPT ![t] = r], sl)
<1> DEFINE ts == [task EXCEPT ![t] = r]
<1>0. /\ \A x \in Tasks : x # t => ts[x] = task[x]
      /\ ts[t] = r
  BY DEF TasksFit
<1> HIDE DEF ts
<1>1. Waits(ts, sl)
  BY <1>0 DEF Jobs, Waits, Busy
<1>2. ASSUME NEW s \in Slots, NEW i \in 1 .. Len(sl[s].queue) PROVE QueuedFor(ts, sl, s, i)
  <2>1. sl[s].queue[i] \in Tasks \cup {STOP} /\ QueuedFor(task, sl, s, i)
    BY DEF Jobs, Objects, SlotRecords
  <2> QED BY <1>0, <2>1 DEF QueuedFor, Busy
<1>3. ASSUME NEW s \in Slots PROVE ReadBy(ts, sl, s)
  <2>1. sl[s].reader \in Tasks \cup {NoTask} /\ ReadBy(task, sl, s)
    BY DEF Jobs, Objects, SlotRecords
  <2> QED BY <1>0, <2>1 DEF ReadBy, Busy
<1>4. Jobs(ts, sl)
  BY <1>1, <1>2, <1>3 DEF Jobs
<1> QED BY <1>4 DEF ts

(* Objects with the same jobs in their queues, the same readers or fewer,   *)
(* and none of them back to unused                                          *)
SameJobs(sl, new) ==
    \A s \in Slots : /\ new[s].queue \in {sl[s].queue, Append(sl[s].queue, STOP)}
                     /\ new[s].reader \in {sl[s].reader, NoTask}
                     /\ sl[s].state # "none" => new[s].state # "none"

(* What put adds to a queue is its new last element.                        *)
LEMMA QueueEnd ==
    ASSUME NEW q \in Seq(Tasks \cup {STOP}), NEW j \in Tasks \cup {STOP}
    PROVE  /\ Len(Append(q, j)) = Len(q) + 1 /\ Len(q) \in Nat
           /\ \A i \in 1 .. Len(q) : Append(q, j)[i] = q[i] /\ q[i] \in Tasks \cup {STOP}
           /\ Append(q, j)[Len(q) + 1] = j
OBVIOUS

(* Jobs survives a change that keeps the jobs of the queues and the         *)
(* readers.                                                                 *)
LEMMA JobsSame ==
    ASSUME NEW ts, NEW sl \in Objects, NEW new \in Objects, Jobs(ts, sl), SameJobs(sl, new)
    PROVE  Jobs(ts, new)
<1>0. ASSUME NEW s \in Slots
      PROVE  /\ sl[s].queue \in Seq(Tasks \cup {STOP}) /\ Len(sl[s].queue) \in Nat
             /\ Len(new[s].queue) \in {Len(sl[s].queue), Len(sl[s].queue) + 1}
             /\ \A i \in 1 .. Len(sl[s].queue) : new[s].queue[i] = sl[s].queue[i]
             /\ \A i \in 1 .. Len(new[s].queue) : new[s].queue[i] # STOP =>
                   i \in 1 .. Len(sl[s].queue)
  <2>1. sl[s].queue \in Seq(Tasks \cup {STOP})
    BY DEF Objects, SlotRecords
  <2>2. CASE new[s].queue = sl[s].queue
    BY <2>1, <2>2
  <2>3. CASE new[s].queue = Append(sl[s].queue, STOP)
    BY <2>1, <2>3, QueueEnd
  <2> QED BY <2>2, <2>3 DEF SameJobs
<1>1. ASSUME NEW t \in Tasks, ts[t].pc = "wait"
      PROVE  /\ ts[t].slot \in Slots
             /\ \E i \in 1 .. Len(new[ts[t].slot].queue) : new[ts[t].slot].queue[i] = t
  <2>1. PICK i \in 1 .. Len(sl[ts[t].slot].queue) : sl[ts[t].slot].queue[i] = t
    BY <1>1 DEF Jobs, Waits
  <2>2. ts[t].slot \in Slots
    BY <1>1 DEF Jobs, Waits
  <2> QED BY <1>0, <2>1, <2>2, SMTT(30)
<1>2. ASSUME NEW s \in Slots, NEW i \in 1 .. Len(new[s].queue) PROVE QueuedFor(ts, new, s, i)
  <2> SUFFICES ASSUME new[s].queue[i] # STOP PROVE QueuedFor(ts, new, s, i)
    BY DEF QueuedFor
  <2>1. i \in 1 .. Len(sl[s].queue) /\ new[s].queue[i] = sl[s].queue[i]
    BY <1>0
  <2>2. QueuedFor(ts, sl, s, i)
    BY <2>1 DEF Jobs
  <2>3. ASSUME NEW m \in 1 .. Len(new[s].queue), new[s].queue[m] = new[s].queue[i] PROVE m = i
    <3>1. m \in 1 .. Len(sl[s].queue) /\ sl[s].queue[m] = sl[s].queue[i]
      BY <1>0, <2>1, <2>3
    <3> QED BY <2>1, <2>2, <3>1 DEF QueuedFor
  <2>4. new[s].state # "none"
    BY <2>1, <2>2 DEF QueuedFor, SameJobs
  <2> QED BY <2>1, <2>2, <2>3, <2>4 DEF QueuedFor
<1>3. ASSUME NEW s \in Slots PROVE ReadBy(ts, new, s)
  BY DEF Jobs, ReadBy, SameJobs
<1> QED BY <1>1, <1>2, <1>3 DEF Jobs, Waits

(* A handler's stream has ended or is left: it reads no slot any more. *)
LEMMA JobsLeave ==
    ASSUME TasksFit(task), NEW sl \in Objects, NEW new \in Objects, Jobs(task, sl),
           SameJobs(sl, new), NEW t \in Tasks, task[t].pc = "stream",
           \A s \in Slots : new[s].reader # t
    PROVE  Jobs([task EXCEPT ![t] = Idle], new)
<1> DEFINE ts == [task EXCEPT ![t] = Idle]
<1>0. /\ \A x \in Tasks : x # t => ts[x] = task[x]
      /\ ts[t].pc = "idle"
  BY DEF TasksFit, Idle
<1> HIDE DEF ts
<1>1. Jobs(task, new)
  BY JobsSame
<1>2. Waits(ts, new)
  BY <1>0, <1>1 DEF Jobs, Waits
<1>3. ASSUME NEW s \in Slots, NEW i \in 1 .. Len(new[s].queue) PROVE QueuedFor(ts, new, s, i)
  <2>1. new[s].queue[i] \in Tasks \cup {STOP} /\ QueuedFor(task, new, s, i)
    BY <1>1 DEF Jobs, Objects, SlotRecords
  <2> QED BY <1>0, <2>1 DEF QueuedFor
<1>4. ASSUME NEW s \in Slots PROVE ReadBy(ts, new, s)
  <2>1. new[s].reader \in Tasks \cup {NoTask} /\ ReadBy(task, new, s)
    BY <1>1 DEF Jobs, Objects, SlotRecords
  <2> QED BY <1>0, <2>1 DEF ReadBy
<1>5. Jobs(ts, new)
  BY <1>2, <1>3, <1>4 DEF Jobs
<1> QED BY <1>5 DEF ts

(* _submit to a slot in use *)
LEMMA JobsSubmit ==
    ASSUME TasksFit(task), NEW sl \in Objects, Jobs(task, sl), NEW t \in Tasks, NEW s \in Slots,
           task[t].pc \notin Busy, sl[s].state # "none"
    PROVE  Jobs(TasksAfterSubmit(sl, t, s), SlotsWithJob(sl, t, s))
<1>1. CASE ~Submits(sl, t, s)
  <2>1. Idle.pc \notin Busy
    BY DEF Idle, Busy
  <2> QED BY <1>1, <2>1, JobsFree DEF TasksAfterSubmit, SlotsWithJob
<1>2. CASE Submits(sl, t, s)
  <2> DEFINE ts == TasksAfterSubmit(sl, t, s)
             new == SlotsWithJob(sl, t, s)
             q == sl[s].queue
  <2>1. /\ \A x \in Tasks : x # t => ts[x] = task[x]
        /\ ts[t].pc = "wait" /\ ts[t].slot = s
    BY <1>2 DEF TasksAfterSubmit, TasksFit, Idle
  <2>2. /\ new[s].queue = Append(q, t)
        /\ \A x \in Slots : x # s => new[x].queue = sl[x].queue
        /\ \A x \in Slots : new[x].reader = sl[x].reader /\ new[x].state = sl[x].state
    BY <1>2, JobKeeps DEF SlotsWithJob, Objects, SlotRecords
  <2>3. \A x \in Slots : sl[x].queue \in Seq(Tasks \cup {STOP}) /\ sl[x].reader \in Tasks \cup {NoTask}
    BY DEF Objects, SlotRecords
  <2>4. /\ Len(new[s].queue) = Len(q) + 1 /\ Len(q) \in Nat
        /\ \A i \in 1 .. Len(q) : new[s].queue[i] = q[i] /\ q[i] \in Tasks \cup {STOP}
        /\ new[s].queue[Len(q) + 1] = t
    BY <2>2, <2>3, QueueEnd
  <2>5. \A x \in Slots : \A i \in 1 .. Len(sl[x].queue) : sl[x].queue[i] # t
    BY ManagerAssumption DEF Jobs, QueuedFor, Busy
  <2> HIDE DEF ts, new
  <2>6. Waits(ts, new)
    <3> SUFFICES ASSUME NEW x \in Tasks, ts[x].pc = "wait"
                 PROVE  /\ ts[x].slot \in Slots
                        /\ \E i \in 1 .. Len(new[ts[x].slot].queue) : new[ts[x].slot].queue[i] = x
      BY DEF Waits
    <3>1. CASE x = t
      BY <2>1, <2>4, <3>1
    <3>2. CASE x # t
      <4>1. /\ ts[x].slot \in Slots
            /\ \E i \in 1 .. Len(sl[ts[x].slot].queue) : sl[ts[x].slot].queue[i] = x
        BY <2>1, <3>2 DEF Jobs, Waits
      <4>2. CASE ts[x].slot = s
        <5>1. PICK i \in 1 .. Len(q) : q[i] = x
          BY <4>1, <4>2
        <5>2. i \in 1 .. Len(new[s].queue) /\ new[s].queue[i] = x
          BY <2>4, <5>1
        <5> QED BY <4>2, <5>2
      <4>3. CASE ts[x].slot # s
        <5>1. new[ts[x].slot].queue = sl[ts[x].slot].queue
          BY <2>2, <4>1, <4>3
        <5> QED BY <4>1, <5>1
      <4> QED BY <4>2, <4>3
    <3> QED BY <3>1, <3>2
  <2>7. ASSUME NEW x \in Slots, NEW i \in 1 .. Len(new[x].queue) PROVE QueuedFor(ts, new, x, i)
    <3>1. CASE x = s /\ i = Len(q) + 1
      <4>1. \A m \in 1 .. Len(new[s].queue) : new[s].queue[m] = t => m = i
        BY <2>4, <2>5, <3>1, SMTT(30)
      <4> QED BY <2>1, <2>2, <2>4, <3>1, <4>1 DEF QueuedFor
    <3>2. CASE ~(x = s /\ i = Len(q) + 1)
      <4>1. i \in 1 .. Len(sl[x].queue) /\ new[x].queue[i] = sl[x].queue[i]
        BY <2>2, <2>4, <2>7, <3>2, SMTT(30)
      <4>2. QueuedFor(task, sl, x, i) /\ sl[x].queue[i] \in Tasks \cup {STOP} /\ sl[x].queue[i] # t
        BY <2>3, <2>5, <4>1 DEF Jobs
      <4>3. \A m \in 1 .. Len(new[x].queue) : new[x].queue[m] = new[x].queue[i] =>
               m \in 1 .. Len(sl[x].queue) /\ sl[x].queue[m] = sl[x].queue[i]
        <5>1. CASE x = s
          BY <2>4, <4>1, <4>2, <5>1, SMTT(30)
        <5>2. CASE x # s
          <6>1. new[x].queue = sl[x].queue
            BY <2>2, <5>2
          <6> QED BY <6>1
        <5> QED BY <5>1, <5>2
      <4> QED BY <2>1, <2>2, <4>1, <4>2, <4>3 DEF QueuedFor
    <3> QED BY <3>1, <3>2
  <2>8. ASSUME NEW x \in Slots PROVE ReadBy(ts, new, x)
    <3>1. ReadBy(task, sl, x)
      BY DEF Jobs
    <3> QED BY <2>1, <2>2, <2>3, <3>1 DEF ReadBy, Busy
  <2>9. Jobs(ts, new)
    BY <2>6, <2>7, <2>8 DEF Jobs
  <2> QED BY <2>9 DEF ts, new
<1> QED BY <1>1, <1>2

(* The worker takes the head of its queue, a STOP or a job, and the job's   *)
(* handler, if there is one, stops waiting.                                 *)
LEMMA JobsTake ==
    ASSUME Types, Jobs(task, slot), NEW s \in Slots, AtGet(s), NEW new \in Objects, NEW ts,
           new[s].queue = Tail(slot[s].queue), new[s].state = slot[s].state,
           \A x \in Slots : x # s => new[x] = slot[x],
           \A x \in Tasks : x # Job(s) => ts[x] = task[x],
           Job(s) # STOP => ts[Job(s)].pc # "wait",
           \/ new[s].reader = slot[s].reader
           \/ /\ new[s].reader = Job(s) /\ Job(s) \in Tasks
              /\ ts[Job(s)].pc = "stream" /\ ts[Job(s)].slot = s
    PROVE  Jobs(ts, new)
<1> DEFINE q == slot[s].queue
           j == Job(s)
<1>1. /\ q \in Seq(Tasks \cup {STOP}) /\ Len(q) \in Nat \ {0}
      /\ j = q[1] /\ j \in Tasks \cup {STOP}
      /\ Len(new[s].queue) = Len(q) - 1
      /\ \A i \in 1 .. Len(q) - 1 : new[s].queue[i] = q[i + 1]
  <2>1. q \in Seq(Tasks \cup {STOP})
    BY DEF Types, Objects, SlotRecords
  <2> QED BY <2>1, JobType
<1>2. QueuedFor(task, slot, s, 1)
  BY <1>1 DEF Jobs
<1>3. j # STOP => /\ task[j].pc = "wait" /\ task[j].slot = s /\ slot[s].state # "none"
                  /\ \A m \in 1 .. Len(q) : q[m] = j => m = 1
  BY <1>1, <1>2 DEF QueuedFor
<1> HIDE DEF j, q
<1>4. Waits(ts, new)
  <2> SUFFICES ASSUME NEW x \in Tasks, ts[x].pc = "wait"
               PROVE  /\ ts[x].slot \in Slots
                      /\ \E i \in 1 .. Len(new[ts[x].slot].queue) : new[ts[x].slot].queue[i] = x
    BY DEF Waits
  <2>1. x # j /\ ts[x] = task[x]
    BY ManagerAssumption DEF j
  <2>2. /\ ts[x].slot \in Slots
        /\ \E i \in 1 .. Len(slot[ts[x].slot].queue) : slot[ts[x].slot].queue[i] = x
    BY <2>1 DEF Jobs, Waits
  <2>3. CASE ts[x].slot = s
    <3>1. PICK i \in 1 .. Len(q) : q[i] = x
      BY <2>2, <2>3 DEF q
    <3>2. i # 1
      BY <1>1, <2>1, <3>1
    <3>3. i - 1 \in 1 .. Len(new[s].queue) /\ new[s].queue[i - 1] = x
      BY <1>1, <3>1, <3>2
    <3> QED BY <2>3, <3>3
  <2>4. CASE ts[x].slot # s
    BY <2>2, <2>4
  <2> QED BY <2>3, <2>4
<1>5. ASSUME NEW x \in Slots, NEW i \in 1 .. Len(new[x].queue) PROVE QueuedFor(ts, new, x, i)
  <2>1. CASE x = s
    <3> SUFFICES ASSUME new[s].queue[i] # STOP PROVE QueuedFor(ts, new, s, i)
      BY <2>1 DEF QueuedFor
    <3>1. /\ i + 1 \in 1 .. Len(q) /\ new[s].queue[i] = q[i + 1] /\ i + 1 # 1
          /\ q[i + 1] \in Tasks \cup {STOP}
      <4>1. i \in 1 .. Len(q) - 1
        BY <1>1, <1>5, <2>1
      <4>2. i + 1 \in 1 .. Len(q) /\ i + 1 # 1
        BY <1>1, <4>1
      <4>3. q[i + 1] \in Tasks \cup {STOP}
        BY <1>1, <4>2
      <4> QED BY <1>1, <4>1, <4>2, <4>3
    <3>2. QueuedFor(task, slot, s, i + 1)
      BY <3>1 DEF Jobs, q
    <3>3. q[i + 1] # j
      BY <1>1, <1>3, <3>1
    <3>4. ts[q[i + 1]] = task[q[i + 1]] /\ q[i + 1] \in Tasks
      BY <3>1, <3>3 DEF j
    <3>5. ASSUME NEW m \in 1 .. Len(new[s].queue), new[s].queue[m] = new[s].queue[i] PROVE m = i
      <4>1. m + 1 \in 1 .. Len(q) /\ q[m + 1] = q[i + 1]
        BY <1>1, <3>1, <3>5
      <4>2. m + 1 = i + 1
        BY <3>1, <3>2, <4>1 DEF QueuedFor, q
      <4> QED BY <1>1, <1>5, <2>1, <4>2
    <3> QED BY <3>1, <3>2, <3>4, <3>5 DEF QueuedFor, q
  <2>2. CASE x # s
    <3>1. new[x] = slot[x] /\ QueuedFor(task, slot, x, i) /\ slot[x].queue[i] \in Tasks \cup {STOP}
      BY <1>5, <2>2 DEF Jobs, Types, Objects, SlotRecords
    <3>2. slot[x].queue[i] # STOP => slot[x].queue[i] # j
      BY <1>3, <2>2, <3>1 DEF QueuedFor
    <3>3. slot[x].queue[i] # STOP => ts[slot[x].queue[i]] = task[slot[x].queue[i]]
      BY <3>1, <3>2 DEF j
    <3> QED BY <3>1, <3>3 DEF QueuedFor
  <2> QED BY <2>1, <2>2
<1>6. ASSUME NEW x \in Slots PROVE ReadBy(ts, new, x)
  <2>1. ReadBy(task, slot, x) /\ slot[x].reader \in Tasks \cup {NoTask}
    BY DEF Jobs, Types, Objects, SlotRecords
  <2>2. slot[x].reader # NoTask => ts[slot[x].reader] = task[slot[x].reader]
    BY <1>3, <2>1, ManagerAssumption DEF ReadBy, j
  <2>3. CASE new[x].reader = slot[x].reader
    BY <2>1, <2>2, <2>3 DEF ReadBy
  <2>4. CASE new[x].reader # slot[x].reader
    BY <1>3, <2>4, ManagerAssumption DEF ReadBy, j
  <2> QED BY <2>3, <2>4
<1> QED BY <1>4, <1>5, <1>6 DEF Jobs

(* A model loaded into an unused object *)
LEMMA JobsFresh ==
    ASSUME TasksFit(task), NEW sl \in Objects, Jobs(task, sl), NEW t \in Tasks, NEW s \in Slots,
           sl[s].state = "none"
    PROVE  /\ [sl EXCEPT ![s] = Fresh(t)] \in Objects
           /\ Jobs(task, [sl EXCEPT ![s] = Fresh(t)])
<1> DEFINE new == [sl EXCEPT ![s] = Fresh(t)]
<1>1. new \in Objects
  BY FreshObject DEF Objects
<1>2. /\ \A x \in Slots : x # s => new[x] = sl[x]
      /\ new[s].queue = <<>> /\ new[s].reader = NoTask
  BY FreshObject DEF Objects
<1> HIDE DEF new
<1>3. \A x \in Tasks : task[x].pc = "wait" => task[x].slot # s
  <2> SUFFICES ASSUME NEW x \in Tasks, task[x].pc = "wait", task[x].slot = s PROVE FALSE
    OBVIOUS
  <2>1. PICK i \in 1 .. Len(sl[s].queue) : sl[s].queue[i] = x
    BY DEF Jobs, Waits
  <2> QED BY <2>1, ManagerAssumption DEF Jobs, QueuedFor
<1>4. Waits(task, new)
  BY <1>2, <1>3 DEF Jobs, Waits
<1>5. ASSUME NEW x \in Slots, NEW i \in 1 .. Len(new[x].queue) PROVE QueuedFor(task, new, x, i)
  <2>1. x # s
    BY <1>2, <1>5
  <2> QED BY <1>2, <2>1 DEF Jobs, QueuedFor
<1>6. ASSUME NEW x \in Slots PROVE ReadBy(task, new, x)
  BY <1>2 DEF Jobs, ReadBy
<1> QED BY <1>1, <1>4, <1>5, <1>6 DEF Jobs, new

(* A STOP at the end of a queue is no job.                                  *)
LEMMA StopSame ==
    ASSUME NEW sl \in Objects, NEW s
    PROVE  SameJobs(sl, SlotsStopping(sl, s))
<1>1. ASSUME NEW x \in Slots
      PROVE  SlotsStopping(sl, s)[x].queue \in {sl[x].queue, Append(sl[x].queue, STOP)}
  BY DEF SlotsStopping, Objects, SlotRecords
<1> QED BY <1>1, StopKeeps DEF SameJobs

(* backend.close leaves the queues alone.                                   *)
LEMMA CloseSame ==
    ASSUME Types, NEW u
    PROVE  SameJobs(slot, SlotsClosed(u))
<1>1. ASSUME NEW s \in Slots
      PROVE  /\ SlotsClosed(u)[s].queue = slot[s].queue
             /\ SlotsClosed(u)[s].reader = slot[s].reader
             /\ SlotsClosed(u)[s].state = slot[s].state
  BY CloseKeeps, Zenon DEF Types
<1> QED BY <1>1 DEF SameJobs

(* The eviction loop leaves jobs alone; a load submits its handler's job.   *)
LEMMA JobsRoom ==
    ASSUME TasksFit(task), NEW t \in Tasks, task[t].pc \notin Busy,
           NEW tab, NEW ord, NEW sl \in Objects, Jobs(task, sl),
           MakeRoomAndLoad(t, tab, ord, sl)
    PROVE  Jobs(task', slot')
<1>1. CASE EvictNext(t, tab, ord, sl)
  <2> DEFINE r == [task[t] EXCEPT !.pc = "evict"]
  <2>1. r.pc \notin Busy
    BY DEF TasksFit, TaskRecords, Busy
  <2>2. task' = [task EXCEPT ![t] = r]
    BY <1>1 DEF EvictNext
  <2>3. PICK v : slot' = SlotsStopping(sl, v)
    BY <1>1 DEF EvictNext
  <2> HIDE DEF r
  <2>4. Jobs([task EXCEPT ![t] = r], sl)
    BY <2>1, JobsFree
  <2> QED BY <2>2, <2>3, <2>4, StopSame, JobsSame, ObjectUpdates
<1>2. ASSUME NEW s \in Slots, LoadInto(t, s, tab, ord, sl) PROVE Jobs(task', slot')
  <2> DEFINE new == [sl EXCEPT ![s] = Fresh(t)]
  <2>1. new \in Objects /\ Jobs(task, new)
    BY <1>2, JobsFresh DEF LoadInto
  <2>2. new[s].state # "none"
    BY FreshObject DEF Objects
  <2>3. slot' = SlotsWithJob(new, t, s) /\ task' = TasksAfterSubmit(new, t, s)
    BY <1>2 DEF LoadInto
  <2> HIDE DEF new
  <2> QED BY <2>1, <2>2, <2>3, JobsSubmit
<1>3. CASE LoadFails(t, tab, ord, sl)
  <2>1. Idle.pc \notin Busy
    BY DEF Idle, Busy
  <2> QED BY <1>3, <2>1, JobsFree DEF LoadFails
<1> QED BY <1>1, <1>2, <1>3 DEF MakeRoomAndLoad

(* A stream ends: its reader is told so, if it still reads. *)
LEMMA JobsReaderDone ==
    ASSUME Types, Jobs(task, slot), NEW s \in Slots, NEW new \in Objects,
           SameJobs(slot, new), new[s].reader = NoTask
    PROVE  Jobs(ReaderDone(s), new)
<1>1. CASE slot[s].reader = NoTask
  BY <1>1, JobsSame DEF ReaderDone, Types
<1>2. CASE slot[s].reader # NoTask
  <2> DEFINE t == slot[s].reader
  <2>1. t \in Tasks /\ task[t].pc = "stream" /\ task[t].slot = s
    BY <1>2 DEF Jobs, ReadBy, Types, Objects, SlotRecords
  <2>2. \A x \in Slots : new[x].reader # t
    BY <1>2, <2>1, ManagerAssumption DEF Jobs, ReadBy, SameJobs
  <2> QED BY <1>2, <2>1, <2>2, JobsLeave DEF ReaderDone, Types
<1> QED BY <1>1, <1>2

(* Every step keeps queues, waiting handlers and readers in agreement.      *)
LEMMA JobsStep ==
    ASSUME Types, FrameShape, EvictorOnly, Fits(loaded, slot), Jobs(task, slot), Next
    PROVE  Jobs(task', slot')
<1>0. slot \in Objects /\ TasksFit(task) /\ slot' \in Objects
  BY TypesStep DEF Types
<1>1. ASSUME task' = task, SameJobs(slot, slot') PROVE Jobs(task', slot')
  BY <1>0, <1>1, JobsSame
<1>2. ASSUME NEW t \in Tasks, NEW k \in Keys, NEW x, Usable(k, x), task[t].pc \notin Busy,
             slot' = SlotsWithJob(slot, t, loaded[k]),
             task' = TasksAfterSubmit(slot, t, loaded[k])
      PROVE  Jobs(task', slot')
  <2>1. loaded[k] \in Slots /\ slot[loaded[k]].state # "none"
    BY <1>2, UsableSlot DEF Usable, Fits
  <2> QED BY <1>0, <1>2, <2>1, JobsSubmit
<1>3. ASSUME NEW t \in Tasks, NEW k \in Keys, NEW x \in CtxRequests, FastPath(t, k, x)
      PROVE  Jobs(task', slot')
  BY <1>2, <1>3 DEF FastPath, Busy
<1>4. ASSUME NEW t \in Tasks, NEW k \in Keys, NEW x \in CtxRequests, WaitForLock(t, k, x)
      PROVE  Jobs(task', slot')
  <2> DEFINE r == [Idle EXCEPT !.pc = "lock", !.key = k, !.ctx = x]
  <2>1. r.pc \notin Busy /\ task[t].pc \notin Busy
    BY <1>4 DEF Idle, Busy, WaitForLock
  <2>2. task' = [task EXCEPT ![t] = r] /\ slot' = slot
    BY <1>4 DEF WaitForLock
  <2> HIDE DEF r
  <2> QED BY <1>0, <2>1, <2>2, JobsFree
<1>5. ASSUME NEW t \in Tasks, LockedHit(t) PROVE Jobs(task', slot')
  <2>1. task[t].key \in Keys
    BY <1>0, <1>5 DEF LockedHit, TasksFit
  <2> QED BY <1>2, <1>5, <2>1 DEF LockedHit, Busy
<1>6. ASSUME NEW t \in Tasks, LockedMiss(t) PROVE Jobs(task', slot')
  BY <1>0, <1>6, JobsRoom DEF LockedMiss, Busy
<1>7. ASSUME NEW t \in Tasks, Evicted(t) PROVE Jobs(task', slot')
  <2>1. task[t].pc \notin Busy
    BY <1>7 DEF Evicted, Joined, EvictorOnly, Busy
  <2>2. SlotsClosed(t) \in Objects /\ Jobs(task, SlotsClosed(t))
    BY <1>0, AfterUnload, CloseSame, JobsSame
  <2> QED BY <1>0, <1>7, <2>1, <2>2, JobsRoom DEF Evicted
<1>8. ASSUME NEW t \in Tasks, HangUp(t) PROVE Jobs(task', slot')
  <2>1. SameJobs(slot, slot')
    <3>1. SUFFICES ASSUME NEW x \in Slots
                   PROVE  /\ slot'[x].queue = slot[x].queue
                          /\ slot'[x].reader \in {slot[x].reader, NoTask}
                          /\ slot'[x].state = slot[x].state
      BY DEF SameJobs
    <3>2. slot' = [slot EXCEPT ![task[t].slot].reader = IF @ = t THEN NoTask ELSE @]
      BY <1>8 DEF HangUp
    <3>3. CASE x = task[t].slot
      <4>1. /\ slot'[x].queue = slot[x].queue
            /\ slot'[x].state = slot[x].state
            /\ slot'[x].reader = IF slot[x].reader = t THEN NoTask ELSE slot[x].reader
        BY <1>0, <3>2, <3>3 DEF Objects, SlotRecords
      <4> QED BY <4>1
    <3>4. CASE x # task[t].slot
      <4>1. slot'[x] = slot[x]
        BY <1>0, <3>2, <3>4 DEF Objects
      <4> QED BY <4>1
    <3> QED BY <3>3, <3>4
  <2>2. \A x \in Slots : slot'[x].reader # t
    BY <1>0, <1>8, ManagerAssumption DEF HangUp, Jobs, ReadBy, Objects, SlotRecords
  <2> QED BY <1>0, <1>8, <2>1, <2>2, JobsLeave DEF HangUp
<1>9. ASSUME NEW u \in Unloaders, PutStop(u) PROVE Jobs(task', slot')
  <2>1. SameJobs(slot, slot')
    <3>1. SUFFICES ASSUME NEW x \in Slots
                   PROVE  /\ slot'[x].queue \in {slot[x].queue, Append(slot[x].queue, STOP)}
                          /\ slot'[x].reader = slot[x].reader
                          /\ slot'[x].state = slot[x].state
      BY DEF SameJobs
    <3>2. slot' = [slot EXCEPT ![unl[u].slot].queue = Append(@, STOP)]
      BY <1>9 DEF PutStop
    <3>3. CASE x = unl[u].slot
      <4>1. /\ slot'[x].queue = Append(slot[x].queue, STOP)
            /\ slot'[x].state = slot[x].state
            /\ slot'[x].reader = slot[x].reader
        BY <1>0, <3>2, <3>3 DEF Objects, SlotRecords
      <4> QED BY <4>1
    <3>4. CASE x # unl[u].slot
      <4>1. slot'[x] = slot[x]
        BY <1>0, <3>2, <3>4 DEF Objects
      <4> QED BY <4>1
    <3> QED BY <3>3, <3>4
  <2> QED BY <1>1, <1>9, <2>1 DEF PutStop
<1>10. ASSUME NEW u \in Unloaders, WaitTimesOut(u) PROVE Jobs(task', slot')
  <2> DEFINE s == unl[u].slot
  <2>1. PICK w \in AfterCancel(slot[s].worker) :
           /\ slot' = [slot EXCEPT ![s].worker = w,
                                   ![s].stray = @ \/ slot[s].worker = "pump",
                                   ![s].reader = IF w = "cut" THEN @ ELSE NoTask]
           /\ task' = IF w = "cancelled" /\ slot[s].worker = "pump"
                      THEN ReaderDone(s) ELSE task
    BY <1>10 DEF WaitTimesOut
  <2>2. SameJobs(slot, slot')
    <3>1. SUFFICES ASSUME NEW x \in Slots
                   PROVE  /\ slot'[x].queue = slot[x].queue
                          /\ slot'[x].reader \in {slot[x].reader, NoTask}
                          /\ slot'[x].state = slot[x].state
      BY DEF SameJobs
    <3>2. CASE x = s
      <4>1. /\ slot'[x].queue = slot[x].queue
            /\ slot'[x].state = slot[x].state
            /\ slot'[x].reader = IF w = "cut" THEN slot[x].reader ELSE NoTask
        BY <1>0, <2>1, <3>2 DEF Objects, SlotRecords
      <4> QED BY <4>1
    <3>3. CASE x # s
      <4>1. slot'[x] = slot[x]
        BY <1>0, <2>1, <3>3 DEF Objects
      <4> QED BY <4>1
    <3> QED BY <3>2, <3>3
  <2>3. CASE task' = task
    BY <1>1, <2>2, <2>3
  <2>4. CASE task' = ReaderDone(s) /\ w = "cancelled" /\ s \in Slots
    <3>1. slot'[s].reader = NoTask
      BY <1>0, <2>1, <2>4 DEF Objects, SlotRecords
    <3> QED BY <1>0, <2>2, <2>4, <3>1, JobsReaderDone
  <2>5. s \in Slots
    BY <1>10 DEF WaitTimesOut, FrameShape
  <2> QED BY <2>1, <2>3, <2>4, <2>5
<1>11. ASSUME NEW u \in Unloaders, Abort(u) PROVE Jobs(task', slot')
  <2>1. CASE u \in Tasks
    <3>1. task[u].pc \notin Busy /\ Idle.pc \notin Busy
      BY <1>11, <2>1 DEF Abort, EvictorOnly, Busy, Idle
    <3> QED BY <1>0, <1>11, <2>1, <3>1, JobsFree DEF Abort
  <2>2. CASE u \notin Tasks
    BY <1>11, <2>2 DEF Abort
  <2> QED BY <2>1, <2>2
<1>12. ASSUME NEW u \in Unloaders, Unloaded(u) PROVE Jobs(task', slot')
  <2>1. SlotsClosed(u) \in Objects /\ Jobs(task, SlotsClosed(u))
    BY <1>0, AfterUnload, CloseSame, JobsSame
  <2>2. task' = task /\ (slot' = SlotsClosed(u) \/ \E s : slot' = SlotsStopping(SlotsClosed(u), s))
    BY <1>12 DEF Unloaded
  <2> QED BY <1>0, <2>1, <2>2, StopSame, JobsSame
<1>13. ASSUME \/ \E s \in Slots : IdleOffload(s)
              \/ \E m \in Models : ForceUnload(m)
              \/ Shutdown
       PROVE  Jobs(task', slot')
  <2>1. task' = task /\ (slot' = slot \/ \E s : slot' = SlotsStopping(slot, s))
    BY <1>13 DEF IdleOffload, ForceUnload, Shutdown, StartUnload
  <2> QED BY <1>0, <1>1, <2>1, StopSame
<1>14. ASSUME NEW s \in Slots, Worker(s) PROVE Jobs(task', slot')
  <2>1. CASE TakeStop(s)
    <3>1. /\ slot'[s].queue = Tail(slot[s].queue) /\ slot'[s].state = slot[s].state
          /\ slot'[s].reader = slot[s].reader /\ \A x \in Slots : x # s => slot'[x] = slot[x]
      BY <1>0, <2>1 DEF TakeStop, Objects, SlotRecords
    <3>2. AtGet(s) /\ Job(s) = STOP /\ task' = task
      BY <2>1 DEF TakeStop
    <3> QED BY <1>0, <3>1, <3>2, JobsTake
  <2>2. CASE Answer(s)
    <3>1. /\ slot'[s].queue = Tail(slot[s].queue) /\ slot'[s].state = slot[s].state
          /\ slot'[s].reader = slot[s].reader /\ \A x \in Slots : x # s => slot'[x] = slot[x]
      BY <1>0, <2>2 DEF Answer, Objects, SlotRecords
    <3>2. AtGet(s) /\ Job(s) \in Tasks
      BY <2>2, JobType DEF Answer
    <3>3. /\ \A x \in Tasks : x # Job(s) => task'[x] = task[x]
          /\ task'[Job(s)].pc # "wait"
      BY <1>0, <2>2, <3>2 DEF Answer, TasksFit, Idle
    <3> QED BY <1>0, <3>1, <3>2, <3>3, JobsTake
  <2>3. CASE StartStream(s)
    <3>1. /\ slot'[s].queue = Tail(slot[s].queue) /\ slot'[s].state = slot[s].state
          /\ slot'[s].reader = Job(s) /\ \A x \in Slots : x # s => slot'[x] = slot[x]
      BY <1>0, <2>3 DEF StartStream, Objects, SlotRecords
    <3>2. AtGet(s) /\ Job(s) \in Tasks /\ Job(s) # STOP
      BY <2>3, JobType DEF StartStream
    <3>3. task[Job(s)].slot = s
      <4>1. Len(slot[s].queue) \in Nat \ {0} /\ Job(s) = slot[s].queue[1]
        BY <3>2, JobType
      <4>2. QueuedFor(task, slot, s, 1)
        BY <4>1 DEF Jobs
      <4> QED BY <3>2, <4>1, <4>2 DEF QueuedFor
    <3>4. /\ \A x \in Tasks : x # Job(s) => task'[x] = task[x]
          /\ task'[Job(s)].pc = "stream" /\ task'[Job(s)].slot = s
      BY <1>0, <2>3, <3>2, <3>3 DEF StartStream, TasksFit, TaskRecords
    <3> QED BY <1>0, <3>1, <3>2, <3>4, JobsTake
  <2>4. CASE ChunkBlocks(s)
    <3>1. SameJobs(slot, slot')
      <4>1. SUFFICES ASSUME NEW x \in Slots
                     PROVE  /\ slot'[x].queue = slot[x].queue
                            /\ slot'[x].reader = slot[x].reader
                            /\ slot'[x].state = slot[x].state
        BY DEF SameJobs
      <4>2. slot' = [slot EXCEPT ![s].worker = "put"]
        BY <2>4 DEF ChunkBlocks
      <4> QED BY <1>0, <4>2 DEF Objects, SlotRecords
    <3> QED BY <1>1, <2>4, <3>1 DEF ChunkBlocks
  <2> QED BY <1>14, <2>1, <2>2, <2>3, <2>4 DEF Worker
<1>15. ASSUME NEW s \in Slots, GeneratorEnds(s) \/ ReaderReads(s) PROVE Jobs(task', slot')
  <2>1. SameJobs(slot, slot')
    <3>1. \/ \E w : slot' = [slot EXCEPT ![s].worker = w]
          \/ \E w : slot' = [slot EXCEPT ![s].worker = w, ![s].reader = NoTask]
          \/ \E w : slot' = [slot EXCEPT ![s].reader = NoTask, ![s].worker = w]
      BY <1>15 DEF GeneratorEnds, ReaderReads
    <3>2. ASSUME NEW x \in Slots
          PROVE  /\ slot'[x].queue = slot[x].queue /\ slot'[x].state = slot[x].state
                 /\ slot'[x].reader \in {slot[x].reader, NoTask}
      <4>1. CASE \E w : slot' = [slot EXCEPT ![s].worker = w]
        BY <1>0, <4>1 DEF Objects, SlotRecords
      <4>2. CASE \E w : slot' = [slot EXCEPT ![s].worker = w, ![s].reader = NoTask]
        BY <1>0, <4>2 DEF Objects, SlotRecords
      <4>3. CASE \E w : slot' = [slot EXCEPT ![s].reader = NoTask, ![s].worker = w]
        BY <1>0, <4>3 DEF Objects, SlotRecords
      <4> QED BY <3>1, <4>1, <4>2, <4>3
    <3> QED BY <3>2 DEF SameJobs
  <2>2. task' = task \/ (task' = ReaderDone(s) /\ slot'[s].reader = NoTask)
    BY <1>0, <1>15 DEF GeneratorEnds, ReaderReads, Objects, SlotRecords
  <2> QED BY <1>0, <1>1, <2>1, <2>2, JobsReaderDone
<1>16. ASSUME NEW s \in Slots, ThreadReturns(s) PROVE Jobs(task', slot')
  <2>1. SameJobs(slot, slot')
    BY <1>0, <1>16, ThreadKeeps DEF SameJobs
  <2> QED BY <1>0, <1>1, <1>16, <2>1, ThreadKeeps
<1> QED BY <1>3, <1>4, <1>5, <1>6, <1>7, <1>8, <1>9, <1>10, <1>11, <1>12, <1>13,
           <1>14, <1>15, <1>16 DEF Next

-----------------------------------------------------------------------------
(* Frames *)

(* The ways a step changes a frame keep its shape.                          *)
LEMMA FrameUpdates ==
    ASSUME FrameShape, NEW u \in Unloaders
    PROVE  /\ unl' = [unl EXCEPT ![u] = Off] => FrameShape'
           /\ \A sl, rest : \A s \in Slots :
                 unl' = [unl EXCEPT ![u] = Stopping(sl, s, rest)] => FrameShape'
           /\ \A p : unl[u].pc # "off" /\ unl' = [unl EXCEPT ![u].pc = p] => FrameShape'
<1>1. ASSUME unl' = [unl EXCEPT ![u] = Off] PROVE FrameShape'
  BY <1>1 DEF FrameShape, Off
<1>2. ASSUME NEW sl, NEW rest, NEW s \in Slots, unl' = [unl EXCEPT ![u] = Stopping(sl, s, rest)]
      PROVE  FrameShape'
  BY <1>2 DEF FrameShape, Stopping
<1>3. ASSUME NEW p, unl[u].pc # "off", unl' = [unl EXCEPT ![u].pc = p] PROVE FrameShape'
  BY <1>3 DEF FrameShape
<1> QED BY <1>1, <1>2, <1>3

(* What a step may do to the frames *)
LEMMA FramesStep ==
    ASSUME FrameShape, Next
    PROVE  FrameShape'
<1>1. \/ unl' = unl
      \/ \E u \in Unloaders :
            \/ unl' = [unl EXCEPT ![u] = Off]
            \/ \E sl, rest : \E s \in Slots : unl' = [unl EXCEPT ![u] = Stopping(sl, s, rest)]
            \/ \E p : unl[u].pc # "off" /\ unl' = [unl EXCEPT ![u].pc = p]
  <2>1. ASSUME NEW t \in Tasks, NEW tab, NEW ord, NEW sl, MakeRoomAndLoad(t, tab, ord, sl)
        PROVE  \/ unl' = [unl EXCEPT ![t] = Off]
               \/ \E s \in Slots : unl' = [unl EXCEPT ![t] = Stopping(sl, s, <<>>)]
    BY <2>1 DEF MakeRoomAndLoad, EvictNext, LoadInto, LoadFails
  <2>2. \A t \in Tasks : t \in Unloaders
    BY DEF Unloaders
  <2>3. CASE \E t \in Tasks : LockedMiss(t) \/ Evicted(t)
    BY <2>1, <2>2, <2>3 DEF LockedMiss, Evicted
  <2>4. CASE \E u \in Unloaders : PutStop(u) \/ WaitTimesOut(u) \/ Abort(u) \/ Unloaded(u)
    BY <2>4 DEF PutStop, WaitTimesOut, Abort, Unloaded
  <2>5. CASE \/ \E s \in Slots : IdleOffload(s)
             \/ \E m \in Models : ForceUnload(m)
             \/ Shutdown
    <3>1. \/ unl' = unl
          \/ \E u \in Slots \cup {"admin", "closer"} : \E rest : \E s \in Slots :
                unl' = [unl EXCEPT ![u] = Stopping(slot, s, rest)]
      BY <2>5, Zenon DEF IdleOffload, ForceUnload, Shutdown, StartUnload
    <3>2. Slots \cup {"admin", "closer"} \subseteq Unloaders
      BY DEF Unloaders
    <3> QED BY <3>1, <3>2, Zenon
  <2>6. CASE unl' = unl
    BY <2>6
  <2> QED BY <2>3, <2>4, <2>5, <2>6 DEF Next, FastPath, WaitForLock, LockedHit, HangUp,
             Worker, TakeStop, Answer, StartStream, ChunkBlocks, GeneratorEnds, ReaderReads,
             ThreadReturns
<1>2. CASE unl' = unl
  BY <1>2 DEF FrameShape
<1>3. ASSUME NEW u \in Unloaders,
             \/ unl' = [unl EXCEPT ![u] = Off]
             \/ \E sl, rest : \E s \in Slots : unl' = [unl EXCEPT ![u] = Stopping(sl, s, rest)]
             \/ \E p : unl[u].pc # "off" /\ unl' = [unl EXCEPT ![u].pc = p]
      PROVE  FrameShape'
  BY <1>3, FrameUpdates
<1> QED BY <1>1, <1>2, <1>3

(* The eviction loop is the only place where a handler starts to unload.    *)
LEMMA EvictorRoom ==
    ASSUME TasksFit(task), FrameShape, EvictorOnly, NEW t \in Tasks, NEW tab, NEW ord, NEW sl,
           MakeRoomAndLoad(t, tab, ord, sl)
    PROVE  EvictorOnly'
<1>0. t \in Unloaders /\ \A x \in Tasks : x \in Unloaders
  BY DEF Unloaders
<1>1. CASE EvictNext(t, tab, ord, sl)
  BY <1>0, <1>1 DEF EvictNext, EvictorOnly, TasksFit, TaskRecords, FrameShape
<1>2. CASE unl' = [unl EXCEPT ![t] = Off] /\ \A x \in Tasks : x # t => task'[x] = task[x]
  BY <1>0, <1>2 DEF EvictorOnly, FrameShape, Off
<1> QED BY <1>1, <1>2 DEF MakeRoomAndLoad, LoadInto, LoadFails, TasksAfterSubmit, TasksFit

(* Every step keeps handlers outside the eviction loop free of unloads.     *)
LEMMA EvictorStep ==
    ASSUME Types, FrameShape, EvictorOnly, Jobs(task, slot), Next
    PROVE  EvictorOnly'
<1>0. slot \in Objects /\ TasksFit(task) /\ \A x \in Tasks : x \in Unloaders
  BY DEF Types, Unloaders
<1>1. ASSUME unl' = unl, \A x \in Tasks : task[x].pc = "evict" => task'[x] = task[x]
      PROVE  EvictorOnly'
  BY <1>1 DEF EvictorOnly
<1>2. ASSUME NEW t, task' = [task EXCEPT ![t] = Idle], t \in Tasks => task[t].pc # "evict"
      PROVE  \A x \in Tasks : task[x].pc = "evict" => task'[x] = task[x]
  BY <1>0, <1>2 DEF TasksFit
<1>3. ASSUME NEW s \in Slots, task' = ReaderDone(s)
      PROVE  \A x \in Tasks : task[x].pc = "evict" => task'[x] = task[x]
  <2>1. slot[s].reader \in Tasks => task[slot[s].reader].pc # "evict"
    BY ManagerAssumption DEF Jobs, ReadBy
  <2> QED BY <1>2, <1>3, <2>1 DEF ReaderDone
<1>4. ASSUME NEW t \in Tasks, NEW k \in Keys, NEW x \in CtxRequests,
             FastPath(t, k, x) \/ WaitForLock(t, k, x)
      PROVE  EvictorOnly'
  BY <1>0, <1>1, <1>4 DEF FastPath, WaitForLock, TasksAfterSubmit, TasksFit
<1>5. ASSUME NEW t \in Tasks, LockedHit(t) PROVE EvictorOnly'
  BY <1>0, <1>1, <1>5 DEF LockedHit, TasksAfterSubmit, TasksFit
<1>6. ASSUME NEW t \in Tasks, LockedMiss(t) \/ Evicted(t) PROVE EvictorOnly'
  BY <1>0, <1>6, EvictorRoom DEF LockedMiss, Evicted
<1>7. ASSUME NEW t \in Tasks, HangUp(t) PROVE EvictorOnly'
  BY <1>1, <1>2, <1>7 DEF HangUp
<1>8. ASSUME NEW u \in Unloaders, PutStop(u) PROVE EvictorOnly'
  BY <1>0, <1>8 DEF PutStop, EvictorOnly, FrameShape
<1>9. ASSUME NEW u \in Unloaders, WaitTimesOut(u) PROVE EvictorOnly'
  <2>1. unl[u].slot \in Slots
    BY <1>9 DEF WaitTimesOut, FrameShape
  <2>2. \A x \in Tasks : task[x].pc = "evict" => task'[x] = task[x]
    BY <1>3, <1>9, <2>1 DEF WaitTimesOut
  <2>3. unl' = [unl EXCEPT ![u].pc = "late"] /\ unl[u].pc # "off"
    BY <1>9 DEF WaitTimesOut
  <2>4. \A x \in Tasks : task'[x].pc # "evict" => task[x].pc # "evict"
    BY <2>2
  <2> QED BY <1>0, <2>3, <2>4 DEF EvictorOnly, FrameShape
<1>10. ASSUME NEW u \in Unloaders, Abort(u) PROVE EvictorOnly'
  BY <1>0, <1>10 DEF Abort, EvictorOnly, FrameShape, Off, TasksFit
<1>11. ASSUME NEW u \in Unloaders, Unloaded(u) PROVE EvictorOnly'
  <2>1. task' = task /\ u \notin Tasks /\ \A x \in Tasks : unl'[x] = unl[x]
    BY <1>0, <1>11 DEF Unloaded, FrameShape
  <2> QED BY <2>1 DEF EvictorOnly
<1>12. ASSUME \/ \E s \in Slots : IdleOffload(s)
              \/ \E m \in Models : ForceUnload(m)
              \/ Shutdown
       PROVE  EvictorOnly'
  <2>1. task' = task /\ \A x \in Tasks : unl'[x] = unl[x]
    BY <1>0, <1>12, ManagerAssumption
       DEF IdleOffload, ForceUnload, Shutdown, StartUnload, FrameShape
  <2> QED BY <2>1 DEF EvictorOnly
<1>13. ASSUME NEW s \in Slots, Worker(s) PROVE EvictorOnly'
  <2>1. CASE task' = task
    BY <1>1, <1>13, <2>1 DEF Worker, TakeStop, Answer, StartStream, ChunkBlocks
  <2>2. CASE Answer(s) \/ StartStream(s)
    <3>1. Job(s) # STOP /\ AtGet(s)
      BY <2>2 DEF Answer, StartStream
    <3>2. Len(slot[s].queue) \in Nat \ {0} /\ Job(s) = slot[s].queue[1]
      BY <3>1, JobType
    <3>3. QueuedFor(task, slot, s, 1)
      BY <3>2 DEF Jobs
    <3>4. task[Job(s)].pc # "evict"
      BY <3>1, <3>2, <3>3 DEF QueuedFor
    <3>5. \A x \in Tasks : task[x].pc = "evict" => task'[x] = task[x]
      BY <1>0, <2>2, <3>4 DEF Answer, StartStream, TasksFit
    <3> QED BY <1>1, <2>2, <3>5 DEF Answer, StartStream
  <2> QED BY <1>13, <2>1, <2>2 DEF Worker, TakeStop, ChunkBlocks
<1>14. ASSUME NEW s \in Slots, GeneratorEnds(s) \/ ReaderReads(s) PROVE EvictorOnly'
  BY <1>1, <1>3, <1>14 DEF GeneratorEnds, ReaderReads
<1>15. ASSUME NEW s \in Slots, ThreadReturns(s) PROVE EvictorOnly'
  BY <1>15 DEF ThreadReturns, EvictorOnly
<1> QED BY <1>4, <1>5, <1>6, <1>7, <1>8, <1>9, <1>10, <1>11, <1>12, <1>13, <1>14, <1>15
        DEF Next

-----------------------------------------------------------------------------
(* Entries and who tends them *)

(* A step that leaves the table and the frames alone, and cancels no worker *)
(* that was not being cancelled                                             *)
LEMMA TendedSame ==
    ASSUME NEW tab \in Tables, NEW sl, NEW new, NEW un, Fits(tab, sl), Tended(tab, sl, un),
           \A s \in Slots : /\ new[s].key = sl[s].key /\ new[s].state = sl[s].state
                            /\ new[s].worker \in {"cut", "cancelled"} =>
                                  sl[s].worker \in {"cut", "cancelled"}
    PROVE  Fits(tab, new) /\ Tended(tab, new, un)
<1>1. \A k \in Keys : tab[k] # NoSlot => tab[k] \in Slots
  BY DEF Tables
<1>2. Fits(tab, new)
  BY <1>1 DEF Fits
<1>3. Tended(tab, new, un)
  BY <1>1 DEF Tended
<1> QED BY <1>2, <1>3

(* u, idle so far or done with an object that is out of the table, starts   *)
(* to unload s.                                                             *)
LEMMA TendedStart ==
    ASSUME NEW tab \in Tables, NEW sl \in Objects, FrameShape, Fits(tab, sl),
           NEW u \in Unloaders, NEW s \in Slots, NEW rest,
           Tended(tab, sl, unl),
           unl[u].pc = "off" \/ \A k \in Keys : tab[k] # unl[u].slot
    PROVE  LET un == [unl EXCEPT ![u] = Stopping(sl, s, rest)] IN
           Fits(tab, SlotsStopping(sl, s)) /\ Tended(tab, SlotsStopping(sl, s), un)
<1> DEFINE un == [unl EXCEPT ![u] = Stopping(sl, s, rest)]
           new == SlotsStopping(sl, s)
<1>1. \A k \in Keys : tab[k] # NoSlot => tab[k] \in Slots
  BY DEF Tables
<1>2. /\ un[u].pc # "off" /\ un[u].slot = s
      /\ \A x \in Unloaders : x # u => un[x] = unl[x]
  BY DEF FrameShape, Stopping
<1>3. \A x \in Slots : /\ new[x].key = sl[x].key /\ new[x].worker = sl[x].worker
                       /\ new[x].state = IF x = s THEN "unloading" ELSE sl[x].state
  BY StopKeeps
<1> HIDE DEF un, new
<1>4. Fits(tab, new)
  BY <1>1, <1>3 DEF Fits
<1>5. ASSUME NEW k \in Keys, tab[k] # NoSlot, new[tab[k]].worker \in {"cut", "cancelled"}
      PROVE  \E x \in Unloaders : un[x].pc = "late" /\ un[x].slot = tab[k]
  <2>1. PICK x \in Unloaders : unl[x].pc = "late" /\ unl[x].slot = tab[k]
    BY <1>1, <1>3, <1>5 DEF Tended
  <2>2. x # u
    BY <2>1
  <2> QED BY <1>2, <2>1, <2>2
<1>6. ASSUME NEW k \in Keys, tab[k] # NoSlot, new[tab[k]].state = "unloading"
      PROVE  \E x \in Unloaders : un[x].pc # "off" /\ un[x].slot = tab[k]
  <2>1. CASE tab[k] = s
    BY <1>2, <2>1
  <2>2. CASE tab[k] # s
    <3>1. PICK x \in Unloaders : unl[x].pc # "off" /\ unl[x].slot = tab[k]
      BY <1>1, <1>3, <1>6, <2>2 DEF Tended
    <3>2. x # u
      BY <3>1
    <3> QED BY <1>2, <3>1, <3>2
  <2> QED BY <2>1, <2>2
<1>7. Tended(tab, new, un)
  BY <1>5, <1>6 DEF Tended
<1> QED BY <1>4, <1>7 DEF un, new

(* u, idle or done, stops. *)
LEMMA TendedOff ==
    ASSUME NEW tab \in Tables, NEW sl, FrameShape, NEW u \in Unloaders,
           Tended(tab, sl, unl),
           unl[u].pc = "off" \/ \A k \in Keys : tab[k] # unl[u].slot
    PROVE  Tended(tab, sl, [unl EXCEPT ![u] = Off])
<1> DEFINE un == [unl EXCEPT ![u] = Off]
<1>1. \A x \in Unloaders : x # u => un[x] = unl[x]
  BY DEF FrameShape
<1> HIDE DEF un
<1>2. ASSUME NEW k \in Keys, tab[k] # NoSlot, sl[tab[k]].worker \in {"cut", "cancelled"}
      PROVE  \E x \in Unloaders : un[x].pc = "late" /\ un[x].slot = tab[k]
  <2>1. PICK x \in Unloaders : unl[x].pc = "late" /\ unl[x].slot = tab[k]
    BY <1>2 DEF Tended
  <2> QED BY <1>1, <2>1
<1>3. ASSUME NEW k \in Keys, tab[k] # NoSlot, sl[tab[k]].state = "unloading"
      PROVE  \E x \in Unloaders : un[x].pc # "off" /\ un[x].slot = tab[k]
  <2>1. PICK x \in Unloaders : unl[x].pc # "off" /\ unl[x].slot = tab[k]
    BY <1>3 DEF Tended
  <2> QED BY <1>1, <2>1
<1>4. Tended(tab, sl, un)
  BY <1>2, <1>3 DEF Tended
<1> QED BY <1>4 DEF un

(* After pop and close the object is out of the table, as its entry, if it  *)
(* has one, is under its own key.                                           *)
LEMMA TendedPop ==
    ASSUME Types, Fits(loaded, slot), Tended(loaded, slot, unl), NEW u
    PROVE  LET tab == TableWithout(KeyOf(u)) IN
           /\ Fits(tab, SlotsClosed(u)) /\ Tended(tab, SlotsClosed(u), unl)
           /\ unl[u].slot \in Slots => \A k \in Keys : tab[k] # unl[u].slot
<1> DEFINE tab == TableWithout(KeyOf(u))
<1>1. tab \in Tables /\ slot \in Objects /\ loaded \in Tables
  BY AfterUnload DEF Types
<1>2. \A k \in Keys : tab[k] # NoSlot => tab[k] = loaded[k] /\ k # KeyOf(u)
  BY <1>1 DEF TableWithout, Tables
<1> HIDE DEF tab
<1>3. Fits(tab, slot) /\ Tended(tab, slot, unl)
  BY <1>2 DEF Fits, Tended
<1>4. Fits(tab, SlotsClosed(u)) /\ Tended(tab, SlotsClosed(u), unl)
  <2>1. \A s \in Slots : /\ SlotsClosed(u)[s].key = slot[s].key
                         /\ SlotsClosed(u)[s].state = slot[s].state
                         /\ SlotsClosed(u)[s].worker = slot[s].worker
    BY <1>1, CloseKeeps, ZenonT(30)
  <2> QED BY <1>1, <1>3, <2>1, TendedSame, Zenon
<1>5. unl[u].slot \in Slots => \A k \in Keys : tab[k] # unl[u].slot
  BY <1>2, ManagerAssumption DEF Fits, KeyOf
<1> QED BY <1>4, <1>5 DEF tab

(* The eviction loop tends what it starts to unload and inserts a fresh     *)
(* object.                                                                  *)
LEMMA TendedRoom ==
    ASSUME TasksFit(task), FrameShape, NEW t \in Tasks, task[t].key \in Keys,
           NEW tab \in Tables, NEW ord, NEW sl \in Objects,
           Fits(tab, sl), Tended(tab, sl, unl),
           unl[t].pc = "off" \/ \A k \in Keys : tab[k] # unl[t].slot,
           MakeRoomAndLoad(t, tab, ord, sl)
    PROVE  Fits(loaded', slot') /\ Tended(loaded', slot', unl')
<1>0. t \in Unloaders
  BY DEF Unloaders
<1>1. CASE EvictNext(t, tab, ord, sl)
  <2>1. PICK v \in Slots : /\ slot' = SlotsStopping(sl, v)
                           /\ unl' = [unl EXCEPT ![t] = Stopping(sl, v, <<>>)]
    BY <1>1 DEF EvictNext
  <2>2. loaded' = tab
    BY <1>1 DEF EvictNext
  <2> QED BY <1>0, <2>1, <2>2, TendedStart
<1>2. ASSUME NEW s \in Slots, LoadInto(t, s, tab, ord, sl)
      PROVE  Fits(loaded', slot') /\ Tended(loaded', slot', unl')
  <2> DEFINE k == task[t].key
             new == [sl EXCEPT ![s] = Fresh(t)]
             un == [unl EXCEPT ![t] = Off]
  <2>1. /\ loaded' = [tab EXCEPT ![k] = s] /\ slot' = SlotsWithJob(new, t, s) /\ unl' = un
        /\ sl[s].state = "none"
    BY <1>2 DEF LoadInto
  <2>2. /\ new \in Objects /\ \A x \in Slots : x # s => new[x] = sl[x]
        /\ new[s].key = k /\ new[s].state = "loaded" /\ new[s].worker = "get"
    BY FreshObject DEF Objects
  <2>3. Tended(tab, sl, un)
    BY <1>0, TendedOff
  <2> HIDE DEF new, un
  <2>4. \A x \in Slots : /\ slot'[x].key = new[x].key /\ slot'[x].state = new[x].state
                         /\ slot'[x].worker = new[x].worker
    BY <2>1, <2>2, JobKeeps
  <2>5. ASSUME NEW j \in Keys, loaded'[j] # NoSlot
        PROVE  \/ /\ loaded'[j] = s /\ j = k
               \/ /\ loaded'[j] = tab[j] /\ tab[j] \in Slots /\ tab[j] # s
                  /\ slot'[tab[j]].key = sl[tab[j]].key /\ slot'[tab[j]].state = sl[tab[j]].state
                  /\ slot'[tab[j]].worker = sl[tab[j]].worker
    <3>1. CASE j = k
      BY <2>1, <3>1 DEF Tables
    <3>2. CASE j # k
      <4>1. loaded'[j] = tab[j] /\ tab[j] \in Slots
        BY <2>1, <2>5, <3>2 DEF Tables
      <4>2. tab[j] # s
        BY <2>1, <2>5, <4>1 DEF Fits
      <4> QED BY <2>2, <2>4, <4>1, <4>2
    <3> QED BY <3>1, <3>2
  <2>6. Fits(loaded', slot')
    BY <2>2, <2>4, <2>5 DEF Fits
  <2>7. Tended(loaded', slot', unl')
    BY <2>1, <2>2, <2>3, <2>4, <2>5 DEF Tended
  <2> QED BY <2>6, <2>7
<1>3. CASE LoadFails(t, tab, ord, sl)
  BY <1>0, <1>3, TendedOff DEF LoadFails
<1> QED BY <1>1, <1>2, <1>3 DEF MakeRoomAndLoad

(* Every step keeps the entries under their keys and tended.                *)
LEMMA TendedStep ==
    ASSUME Types, FrameShape, EvictorOnly, Fits(loaded, slot), Tended(loaded, slot, unl), Next
    PROVE  Fits(loaded', slot') /\ Tended(loaded', slot', unl')
<1> DEFINE Goal == Fits(loaded', slot') /\ Tended(loaded', slot', unl')
<1>0. /\ slot \in Objects /\ loaded \in Tables /\ TasksFit(task)
      /\ \A k \in Keys : loaded[k] # NoSlot => loaded[k] \in Slots
  BY DEF Types, Tables
<1>1. ASSUME loaded' = loaded, unl' = unl,
             \A s \in Slots : /\ slot'[s].key = slot[s].key /\ slot'[s].state = slot[s].state
                              /\ slot'[s].worker \in {"cut", "cancelled"} =>
                                    slot[s].worker \in {"cut", "cancelled"}
      PROVE  Goal
  BY <1>0, <1>1, TendedSame, Zenon
<1>2. ASSUME NEW t \in Tasks, NEW s \in Slots, slot' = SlotsWithJob(slot, t, s),
             loaded' = loaded, unl' = unl
      PROVE  Goal
  <2>1. \A x \in Slots : /\ slot'[x].key = slot[x].key /\ slot'[x].state = slot[x].state
                         /\ slot'[x].worker = slot[x].worker
    BY <1>0, <1>2, JobKeeps
  <2> QED BY <1>1, <1>2, <2>1
<1>3. ASSUME NEW u \in Unloaders, NEW s \in Slots, NEW rest, StartUnload(u, s, rest) PROVE Goal
  BY <1>0, <1>3, TendedStart DEF StartUnload
<1>4. ASSUME NEW t \in Tasks, NEW k \in Keys, NEW x \in CtxRequests, FastPath(t, k, x)
      PROVE  Goal
  BY <1>2, <1>4, UsableSlot DEF FastPath
<1>5. ASSUME NEW t \in Tasks, LockedHit(t) PROVE Goal
  <2>1. task[t].key \in Keys
    BY <1>0, <1>5 DEF LockedHit, TasksFit
  <2> QED BY <1>2, <1>5, <2>1, UsableSlot DEF LockedHit
<1>6. ASSUME NEW t \in Tasks, LockedMiss(t) PROVE Goal
  <2>1. task[t].key \in Keys /\ unl[t].pc = "off"
    BY <1>0, <1>6 DEF LockedMiss, TasksFit, EvictorOnly
  <2> QED BY <1>0, <1>6, <2>1, TendedRoom DEF LockedMiss
<1>7. ASSUME NEW t \in Tasks, Evicted(t) PROVE Goal
  <2>0. t \in Unloaders
    BY DEF Unloaders
  <2>1. task[t].key \in Keys /\ unl[t].slot \in Slots
    BY <1>0, <1>7, <2>0 DEF Evicted, Joined, TasksFit, EvictorOnly, FrameShape
  <2> DEFINE tab == TableWithout(KeyOf(t))
  <2>2. tab \in Tables /\ SlotsClosed(t) \in Objects
    BY AfterUnload
  <2>3. /\ Fits(tab, SlotsClosed(t)) /\ Tended(tab, SlotsClosed(t), unl)
        /\ \A k \in Keys : tab[k] # unl[t].slot
    BY <2>1, TendedPop
  <2>4. MakeRoomAndLoad(t, tab, Others(order, KeyOf(t)), SlotsClosed(t))
    BY <1>7 DEF Evicted
  <2> HIDE DEF tab
  <2> QED BY <1>0, <2>1, <2>2, <2>3, <2>4, TendedRoom
<1>8. ASSUME NEW t \in Tasks, HangUp(t) PROVE Goal
  <2>1. \A x \in Slots : /\ slot'[x].key = slot[x].key /\ slot'[x].state = slot[x].state
                         /\ slot'[x].worker = slot[x].worker
    BY <1>0, <1>8 DEF HangUp, Objects, SlotRecords
  <2> QED BY <1>1, <1>8, <2>1 DEF HangUp
<1>9. ASSUME NEW u \in Unloaders, PutStop(u) PROVE Goal
  <2>1. \A x \in Slots : /\ slot'[x].key = slot[x].key /\ slot'[x].state = slot[x].state
                         /\ slot'[x].worker = slot[x].worker
    <3>1. unl[u].slot \in Slots /\ slot \in Objects
      BY <1>0, <1>9 DEF PutStop, FrameShape
    <3>2. slot' = [slot EXCEPT ![unl[u].slot].queue = Append(@, STOP)]
      BY <1>9 DEF PutStop
    <3> QED BY <3>1, <3>2 DEF Objects, SlotRecords
  <2>2. \A x \in Unloaders : /\ unl'[x].slot = unl[x].slot
                             /\ unl[x].pc = "late" => unl'[x].pc = "late"
                             /\ unl[x].pc # "off" => unl'[x].pc # "off"
    BY <1>9 DEF PutStop, FrameShape
  <2>3. loaded' = loaded
    BY <1>9 DEF PutStop
  <2>4. Fits(loaded', slot')
    BY <1>0, <2>1, <2>3 DEF Fits
  <2>5. Tended(loaded', slot', unl')
    BY <1>0, <2>1, <2>2, <2>3 DEF Tended
  <2> QED BY <2>4, <2>5
<1>10. ASSUME NEW u \in Unloaders, WaitTimesOut(u) PROVE Goal
  <2>1. \A x \in Slots : /\ slot'[x].key = slot[x].key /\ slot'[x].state = slot[x].state
                         /\ x # unl[u].slot => slot'[x].worker = slot[x].worker
    <3>1. PICK w \in AfterCancel(slot[unl[u].slot].worker) :
              slot' = [slot EXCEPT ![unl[u].slot].worker = w,
                                   ![unl[u].slot].stray = @ \/ slot[unl[u].slot].worker = "pump",
                                   ![unl[u].slot].reader = IF w = "cut" THEN @ ELSE NoTask]
      BY <1>10 DEF WaitTimesOut
    <3> QED BY <1>0, <3>1 DEF Objects, SlotRecords
  <2>2. /\ \A x \in Unloaders : /\ unl'[x].slot = unl[x].slot
                                /\ unl[x].pc = "late" => unl'[x].pc = "late"
                                /\ unl[x].pc # "off" => unl'[x].pc # "off"
        /\ unl'[u].pc = "late"
    BY <1>10 DEF WaitTimesOut, FrameShape
  <2>3. loaded' = loaded
    BY <1>10 DEF WaitTimesOut
  <2>4. Fits(loaded', slot')
    BY <1>0, <2>1, <2>3 DEF Fits
  <2>5. Tended(loaded', slot', unl')
    BY <1>0, <2>1, <2>2, <2>3 DEF Tended
  <2> QED BY <2>4, <2>5
<1>11. ASSUME NEW u \in Unloaders, Abort(u) PROVE Goal
  <2>1. /\ loaded' = loaded /\ slot' = slot
        /\ \A x \in Unloaders : x # u => unl'[x] = unl[x]
        /\ unl[u].pc = "join" /\ slot[unl[u].slot].worker = "cancelled"
    BY <1>11 DEF Abort, FrameShape
  <2>2. ASSUME NEW k \in Keys, loaded[k] # NoSlot, slot[loaded[k]].worker \in {"cut", "cancelled"}
        PROVE  \E x \in Unloaders : unl'[x].pc = "late" /\ unl'[x].slot = loaded[k]
    <3>1. PICK x \in Unloaders : unl[x].pc = "late" /\ unl[x].slot = loaded[k]
      BY <2>2 DEF Tended
    <3> QED BY <2>1, <3>1
  <2>3. ASSUME NEW k \in Keys, loaded[k] # NoSlot, slot[loaded[k]].state = "unloading"
        PROVE  \E x \in Unloaders : unl'[x].pc # "off" /\ unl'[x].slot = loaded[k]
    <3>1. PICK x \in Unloaders : unl[x].pc # "off" /\ unl[x].slot = loaded[k]
      BY <2>3 DEF Tended
    <3>2. CASE x # u
      BY <2>1, <3>1, <3>2
    <3>3. CASE x = u
      BY <2>1, <2>2, <2>3, <3>1, <3>3
    <3> QED BY <3>2, <3>3
  <2> QED BY <2>1, <2>2, <2>3 DEF Tended
<1>12. ASSUME NEW u \in Unloaders, Unloaded(u) PROVE Goal
  <2>1. unl[u].slot \in Slots
    BY <1>12 DEF Unloaded, Joined, FrameShape
  <2> DEFINE tab == TableWithout(KeyOf(u))
  <2>2. tab \in Tables /\ SlotsClosed(u) \in Objects
    BY AfterUnload
  <2>3. /\ Fits(tab, SlotsClosed(u)) /\ Tended(tab, SlotsClosed(u), unl)
        /\ \A k \in Keys : tab[k] # unl[u].slot
    BY <2>1, TendedPop
  <2>4. loaded' = tab
    BY <1>12 DEF Unloaded
  <2> HIDE DEF tab
  <2>5. CASE slot' = SlotsClosed(u) /\ unl' = [unl EXCEPT ![u] = Off]
    BY <2>2, <2>3, <2>4, <2>5, TendedOff
  <2>6. ASSUME NEW s \in Slots, NEW rest, slot' = SlotsStopping(SlotsClosed(u), s),
               unl' = [unl EXCEPT ![u] = Stopping(SlotsClosed(u), s, rest)]
        PROVE  Goal
    BY <2>2, <2>3, <2>4, <2>6, TendedStart
  <2> QED BY <1>12, <2>5, <2>6 DEF Unloaded
<1>13. ASSUME NEW s \in Slots, IdleOffload(s) PROVE Goal
  BY <1>3, <1>13 DEF IdleOffload, Unloaders
<1>14. ASSUME (\E m \in Models : ForceUnload(m)) \/ Shutdown PROVE Goal
  <2>1. \/ loaded' = loaded /\ slot' = slot /\ unl' = unl
        \/ \E u \in {"admin", "closer"} : \E s \in Slots : \E rest : StartUnload(u, s, rest)
    BY <1>14, Zenon DEF ForceUnload, Shutdown
  <2> QED BY <1>1, <1>3, <2>1 DEF Unloaders
<1>15. ASSUME NEW s \in Slots, Worker(s) \/ GeneratorEnds(s) \/ ReaderReads(s) PROVE Goal
  <2>1. loaded' = loaded /\ unl' = unl
    BY <1>15 DEF Worker, TakeStop, Answer, StartStream, ChunkBlocks, GeneratorEnds, ReaderReads
  <2>2. \A x \in Slots : /\ slot'[x].key = slot[x].key /\ slot'[x].state = slot[x].state
                         /\ slot'[x].worker \in {"cut", "cancelled"} =>
                               slot[x].worker \in {"cut", "cancelled"}
    <3> DEFINE Keeps(r) == /\ r.key = slot[s].key /\ r.state = slot[s].state
                           /\ r.worker \in {"cut", "cancelled"} =>
                                 slot[s].worker \in {"cut", "cancelled"}
    <3>0. slot[s] \in SlotRecords
      BY <1>0 DEF Objects
    <3>1. ASSUME NEW r, slot' = [slot EXCEPT ![s] = r], Keeps(r)
          PROVE  \A x \in Slots : /\ slot'[x].key = slot[x].key /\ slot'[x].state = slot[x].state
                                  /\ slot'[x].worker \in {"cut", "cancelled"} =>
                                        slot[x].worker \in {"cut", "cancelled"}
      BY <1>0, <3>1 DEF Objects
    <3>2. \E r : slot' = [slot EXCEPT ![s] = r] /\ Keeps(r)
      <4> DEFINE q == Tail(slot[s].queue)
                 J == Job(s)
                 fc == IF slot[s].worker = "fin" THEN "get" ELSE "cancelled"
      <4>1. CASE TakeStop(s)
        <5>1. slot' = [slot EXCEPT ![s] = [slot[s] EXCEPT !.queue = q, !.worker = "returned"]]
          BY <1>0, <4>1 DEF TakeStop, Objects
        <5>2. Keeps([slot[s] EXCEPT !.queue = q, !.worker = "returned"])
          BY <3>0 DEF SlotRecords
        <5> HIDE DEF Keeps
        <5> QED BY <5>1, <5>2
      <4>2. CASE Answer(s)
        <5>1. slot' = [slot EXCEPT ![s] = [slot[s] EXCEPT !.queue = q]]
          BY <1>0, <4>2 DEF Answer, Objects
        <5>2. Keeps([slot[s] EXCEPT !.queue = q])
          BY <3>0 DEF SlotRecords
        <5> HIDE DEF Keeps
        <5> QED BY <5>1, <5>2
      <4>3. CASE StartStream(s)
        <5>1. slot' = [slot EXCEPT ![s] =
                          [slot[s] EXCEPT !.queue = q, !.worker = "pump", !.reader = J]]
          BY <1>0, <4>3 DEF StartStream, Objects
        <5>2. Keeps([slot[s] EXCEPT !.queue = q, !.worker = "pump", !.reader = J])
          BY <3>0 DEF SlotRecords
        <5> HIDE DEF Keeps
        <5> QED BY <5>1, <5>2
      <4>4. CASE ChunkBlocks(s)
        <5>1. slot' = [slot EXCEPT ![s] = [slot[s] EXCEPT !.worker = "put"]]
          BY <1>0, <4>4 DEF ChunkBlocks, Objects
        <5>2. Keeps([slot[s] EXCEPT !.worker = "put"])
          BY <3>0 DEF SlotRecords
        <5> HIDE DEF Keeps
        <5> QED BY <5>1, <5>2
      <4>5. CASE GeneratorEnds(s)
        <5>1. \/ slot' = [slot EXCEPT ![s] = [slot[s] EXCEPT !.worker = "get", !.reader = NoTask]]
              \/ slot' = [slot EXCEPT ![s] = [slot[s] EXCEPT !.worker = "fin"]]
          BY <1>0, <4>5 DEF GeneratorEnds, Objects
        <5>2. Keeps([slot[s] EXCEPT !.worker = "get", !.reader = NoTask])
          BY <3>0 DEF SlotRecords
        <5>3. Keeps([slot[s] EXCEPT !.worker = "fin"])
          BY <3>0 DEF SlotRecords
        <5> HIDE DEF Keeps
        <5> QED BY <5>1, <5>2, <5>3
      <4>6. CASE ReaderReads(s)
        <5>1. \/ slot' = [slot EXCEPT ![s] = [slot[s] EXCEPT !.worker = "pump"]]
              \/ /\ slot[s].worker \in {"fin", "cut"}
                 /\ slot' = [slot EXCEPT ![s] = [slot[s] EXCEPT !.reader = NoTask, !.worker = fc]]
          BY <1>0, <4>6 DEF ReaderReads, Objects
        <5>2. Keeps([slot[s] EXCEPT !.worker = "pump"])
          BY <3>0 DEF SlotRecords
        <5>3. slot[s].worker \in {"fin", "cut"} =>
                 Keeps([slot[s] EXCEPT !.reader = NoTask, !.worker = fc])
          BY <3>0 DEF SlotRecords
        <5> HIDE DEF Keeps, fc
        <5> QED BY <5>1, <5>2, <5>3
      <4> HIDE DEF Keeps
      <4> QED BY <1>15, <4>1, <4>2, <4>3, <4>4, <4>5, <4>6 DEF Worker
    <3> HIDE DEF Keeps
    <3> QED BY <3>1, <3>2
  <2> QED BY <1>1, <2>1, <2>2
<1>16. ASSUME NEW t \in Tasks, NEW k \in Keys, NEW x \in CtxRequests, WaitForLock(t, k, x)
       PROVE  Goal
  BY <1>1, <1>16 DEF WaitForLock
<1>17. ASSUME NEW s \in Slots, ThreadReturns(s) PROVE Goal
  BY <1>0, <1>1, <1>17, ThreadKeeps
<1> QED BY <1>4, <1>5, <1>6, <1>7, <1>8, <1>9, <1>10, <1>11, <1>12, <1>13, <1>14, <1>15, <1>16,
           <1>17
        DEF Next

-----------------------------------------------------------------------------
(* The order of the table *)

(* A key is taken out of the order, with its entry or to be put last.       *)
LEMMA OthersList ==
    ASSUME NEW ord, NEW tab \in Tables, Lists(ord, tab), NEW k
    PROVE  /\ Others(ord, k) \in Seq(Keys)
           /\ \A i, j \in 1 .. Len(Others(ord, k)) :
                 Others(ord, k)[i] = Others(ord, k)[j] => i = j
           /\ \A x \in Keys : (\E i \in 1 .. Len(Others(ord, k)) : Others(ord, k)[i] = x)
                               <=> (x # k /\ tab[x] # NoSlot)
<1>0. ord \in Seq(Keys) /\ Len(ord) \in Nat /\ \A i \in 1 .. Len(ord) : ord[i] \in Keys
  BY DEF Lists
<1>1. CASE ~\E i \in 1 .. Len(ord) : ord[i] = k
  <2>1. Others(ord, k) = ord
    BY <1>1 DEF Others
  <2> QED BY <1>1, <2>1 DEF Lists
<1>2. CASE \E i \in 1 .. Len(ord) : ord[i] = k
  <2> DEFINE p == CHOOSE i \in 1 .. Len(ord) : ord[i] = k
             r == Others(ord, k)
  <2>1. p \in 1 .. Len(ord) /\ ord[p] = k
    BY <1>2
  <2> HIDE DEF p
  <2>2. r = [j \in 1 .. Len(ord) - 1 |-> IF j < p THEN ord[j] ELSE ord[j + 1]]
    BY <1>2 DEF Others, Without, p
  <2>3. \A j \in 1 .. Len(ord) - 1 :
           /\ j \in 1 .. Len(ord) /\ j + 1 \in 1 .. Len(ord)
           /\ r[j] = IF j < p THEN ord[j] ELSE ord[j + 1]
    BY <1>0, <2>2
  <2>4. Len(ord) - 1 \in Nat
    BY <1>0, <2>1
  <2>5. r \in [1 .. Len(ord) - 1 -> Keys]
    BY <1>0, <2>2, <2>3
  <2>6. r \in Seq(Keys) /\ Len(r) = Len(ord) - 1
    BY <2>4, <2>5
  <2> HIDE DEF r
  <2>7. ASSUME NEW i \in 1 .. Len(r), NEW j \in 1 .. Len(r), r[i] = r[j] PROVE i = j
    <3> DEFINE f(n) == IF n < p THEN n ELSE n + 1
    <3>1. /\ f(i) \in 1 .. Len(ord) /\ r[i] = ord[f(i)]
          /\ f(j) \in 1 .. Len(ord) /\ r[j] = ord[f(j)]
      BY <2>3, <2>6
    <3>2. \A a, b \in 1 .. Len(ord) : ord[a] = ord[b] => a = b
      BY DEF Lists
    <3>3. ord[f(i)] = ord[f(j)]
      BY <2>7, <3>1, Zenon
    <3>4. f(i) = f(j)
      BY <3>1, <3>2, <3>3, Zenon
    <3> QED BY <2>1, <2>6, <1>0, <3>4
  <2>8. ASSUME NEW x \in Keys, NEW i \in 1 .. Len(r), r[i] = x PROVE x # k /\ tab[x] # NoSlot
    <3> DEFINE n == IF i < p THEN i ELSE i + 1
    <3>1. n \in 1 .. Len(ord) /\ ord[n] = x
      BY <2>3, <2>6, <2>8
    <3>2. n # p
      BY <1>0, <2>1, <2>6
    <3> HIDE DEF n
    <3> QED BY <2>1, <3>1, <3>2 DEF Lists
  <2>9. ASSUME NEW x \in Keys, x # k, tab[x] # NoSlot PROVE \E i \in 1 .. Len(r) : r[i] = x
    <3>1. PICK n \in 1 .. Len(ord) : ord[n] = x
      BY <2>9 DEF Lists
    <3>2. n # p
      BY <2>1, <2>9, <3>1
    <3>3. CASE n < p
      <4>1. n \in 1 .. Len(ord) - 1
        BY <1>0, <2>1, <3>3
      <4>2. r[n] = x
        BY <2>3, <3>1, <3>3, <4>1
      <4> QED BY <2>6, <4>1, <4>2
    <3>4. CASE n > p
      <4>1. n - 1 \in 1 .. Len(ord) - 1 /\ ~(n - 1 < p) /\ (n - 1) + 1 = n
        BY <1>0, <2>1, <3>4
      <4>2. r[n - 1] = ord[(n - 1) + 1]
        BY <2>3, <4>1
      <4>3. r[n - 1] = x
        BY <3>1, <4>1, <4>2
      <4> QED BY <2>6, <4>1, <4>3
    <3> QED BY <1>0, <2>1, <3>2, <3>3, <3>4
  <2> QED BY <2>6, <2>7, <2>8, <2>9 DEF r
<1> QED BY <1>1, <1>2

(* pop takes the entry out of both.                                         *)
LEMMA PopLists ==
    ASSUME NEW ord, NEW tab \in Tables, Lists(ord, tab), NEW k
    PROVE  Lists(Others(ord, k), [tab EXCEPT ![k] = NoSlot])
<1>1. \A x \in Keys : [tab EXCEPT ![k] = NoSlot][x] = IF x = k THEN NoSlot ELSE tab[x]
  BY DEF Tables
<1> DEFINE o == Others(ord, k)
           new == [tab EXCEPT ![k] = NoSlot]
<1>2. /\ o \in Seq(Keys)
      /\ \A i, j \in 1 .. Len(o) : o[i] = o[j] => i = j
      /\ \A x \in Keys : (\E i \in 1 .. Len(o) : o[i] = x) <=> (x # k /\ tab[x] # NoSlot)
  BY OthersList
<1> HIDE DEF o, new
<1>3. \A x \in Keys : new[x] # NoSlot <=> (x # k /\ tab[x] # NoSlot)
  BY <1>1 DEF new
<1>4. Lists(o, new)
  BY <1>2, <1>3 DEF Lists
<1> QED BY <1>4 DEF o, new

(* A key that the order does not list is put last.                          *)
LEMMA AppendLists ==
    ASSUME NEW ord \in Seq(Keys), NEW k \in Keys,
           \A i, j \in 1 .. Len(ord) : ord[i] = ord[j] => i = j,
           \A i \in 1 .. Len(ord) : ord[i] # k
    PROVE  /\ Append(ord, k) \in Seq(Keys)
           /\ \A i, j \in 1 .. Len(Append(ord, k)) :
                 Append(ord, k)[i] = Append(ord, k)[j] => i = j
           /\ \A x \in Keys : (\E i \in 1 .. Len(Append(ord, k)) : Append(ord, k)[i] = x)
                               <=> (x = k \/ \E i \in 1 .. Len(ord) : ord[i] = x)
<1> DEFINE r == Append(ord, k)
<1>1. /\ r \in Seq(Keys) /\ Len(r) = Len(ord) + 1 /\ Len(ord) \in Nat /\ r[Len(ord) + 1] = k
      /\ \A i \in 1 .. Len(ord) : r[i] = ord[i]
  OBVIOUS
<1> HIDE DEF r
<1>2. \A i \in 1 .. Len(r) : i \in 1 .. Len(ord) \/ i = Len(ord) + 1
  BY <1>1
<1>3. Len(ord) + 1 \in 1 .. Len(r) /\ \A i \in 1 .. Len(ord) : i \in 1 .. Len(r)
  BY <1>1
<1>4. \A i, j \in 1 .. Len(r) : r[i] = r[j] => i = j
  BY <1>1, <1>2
<1>5. ASSUME NEW x \in Keys
      PROVE  (\E i \in 1 .. Len(r) : r[i] = x)
                <=> (x = k \/ \E i \in 1 .. Len(ord) : ord[i] = x)
  BY <1>1, <1>2, <1>3
<1> QED BY <1>1, <1>4, <1>5 DEF r

(* The eviction loop keeps the two together: an insertion over an old entry *)
(* keeps its place.                                                         *)
LEMMA ListsRoom ==
    ASSUME NEW t \in Tasks, task[t].key \in Keys, NEW tab \in Tables, NEW ord, NEW sl,
           Lists(ord, tab), MakeRoomAndLoad(t, tab, ord, sl)
    PROVE  Lists(order', loaded')
<1>1. CASE EvictNext(t, tab, ord, sl) \/ LoadFails(t, tab, ord, sl)
  BY <1>1 DEF EvictNext, LoadFails
<1>2. ASSUME NEW s \in Slots, LoadInto(t, s, tab, ord, sl) PROVE Lists(order', loaded')
  <2> DEFINE k == task[t].key
  <2>1. /\ loaded' = [tab EXCEPT ![k] = s]
        /\ order' = IF tab[k] = NoSlot THEN Append(ord, k) ELSE ord
    BY <1>2 DEF LoadInto
  <2>2. s # NoSlot /\ k \in Keys
    BY ManagerAssumption
  <2> HIDE DEF k
  <2>3. \A x \in Keys : loaded'[x] # NoSlot <=> (x = k \/ tab[x] # NoSlot)
    BY <2>1, <2>2 DEF Tables
  <2>4. CASE tab[k] = NoSlot
    <3>1. order' = Append(ord, k) /\ ord \in Seq(Keys) /\ \A i \in 1 .. Len(ord) : ord[i] # k
      BY <2>1, <2>2, <2>4 DEF Lists
    <3> QED BY <2>2, <2>3, <3>1, AppendLists DEF Lists
  <2>5. CASE tab[k] # NoSlot
    BY <2>1, <2>2, <2>3, <2>5 DEF Lists
  <2> QED BY <2>4, <2>5
<1> QED BY <1>1, <1>2 DEF MakeRoomAndLoad

(* Every step keeps the order and the table together.                       *)
LEMMA ListsStep ==
    ASSUME Types, EvictorOnly, Lists(order, loaded), Next
    PROVE  Lists(order', loaded')
<1>0. loaded \in Tables /\ TasksFit(task)
  BY DEF Types
<1>1. ASSUME order' = order, loaded' = loaded PROVE Lists(order', loaded')
  BY <1>1
<1>2. ASSUME NEW t \in Tasks, NEW k \in Keys, NEW x \in CtxRequests, FastPath(t, k, x)
      PROVE  Lists(order', loaded')
  <2>1. order' = Append(Others(order, k), k) /\ loaded' = loaded /\ loaded[k] # NoSlot
    BY <1>2 DEF FastPath, Usable
  <2> DEFINE o == Others(order, k)
  <2>2. /\ o \in Seq(Keys) /\ \A i, j \in 1 .. Len(o) : o[i] = o[j] => i = j
        /\ \A y \in Keys : (\E i \in 1 .. Len(o) : o[i] = y) <=> (y # k /\ loaded[y] # NoSlot)
    BY <1>0, OthersList
  <2> HIDE DEF o
  <2>3. \A i \in 1 .. Len(o) : o[i] # k
    BY <2>2
  <2>4. order' = Append(o, k)
    BY <2>1 DEF o
  <2> QED BY <2>1, <2>2, <2>3, <2>4, AppendLists DEF Lists
<1>3. ASSUME NEW t \in Tasks, LockedMiss(t) PROVE Lists(order', loaded')
  <2>1. task[t].key \in Keys
    BY <1>0, <1>3 DEF LockedMiss, TasksFit
  <2> QED BY <1>0, <1>3, <2>1, ListsRoom DEF LockedMiss
<1>4. ASSUME NEW t \in Tasks, Evicted(t) PROVE Lists(order', loaded')
  <2>1. task[t].key \in Keys
    BY <1>0, <1>4 DEF Evicted, Joined, EvictorOnly, TasksFit
  <2>2. Lists(Others(order, KeyOf(t)), TableWithout(KeyOf(t)))
    BY <1>0, PopLists DEF TableWithout
  <2>3. TableWithout(KeyOf(t)) \in Tables
    BY AfterUnload
  <2> QED BY <1>4, <2>1, <2>2, <2>3, ListsRoom DEF Evicted
<1>5. ASSUME NEW u \in Unloaders, Unloaded(u) PROVE Lists(order', loaded')
  <2>1. order' = Others(order, KeyOf(u)) /\ loaded' = TableWithout(KeyOf(u))
    BY <1>5 DEF Unloaded
  <2> QED BY <1>0, <2>1, PopLists DEF TableWithout
<1>6. CASE order' = order /\ loaded' = loaded
  BY <1>1, <1>6
<1> QED BY <1>2, <1>3, <1>4, <1>5, <1>6
        DEF Next, WaitForLock, LockedHit, HangUp, PutStop, WaitTimesOut, Abort, IdleOffload,
            ForceUnload, Shutdown, StartUnload, Worker, TakeStop, Answer, StartStream,
            ChunkBlocks, GeneratorEnds, ReaderReads, ThreadReturns

-----------------------------------------------------------------------------
(* What is in the table is open *)

Opened(tab, sl) == \A k \in Keys : tab[k] # NoSlot => sl[tab[k]].open

(* Objects that stay open may stay in the table. *)
LEMMA OpenedSame ==
    ASSUME NEW tab \in Tables, NEW sl, NEW new, Opened(tab, sl),
           \A s \in Slots : sl[s].open => new[s].open
    PROVE  Opened(tab, new)
BY DEF Tables, Opened

(* The eviction loop closes nothing, and what it inserts is fresh.          *)
LEMMA OpenedRoom ==
    ASSUME TasksFit(task), NEW t \in Tasks, NEW tab \in Tables, NEW ord, NEW sl \in Objects,
           Opened(tab, sl), MakeRoomAndLoad(t, tab, ord, sl)
    PROVE  Opened(loaded', slot')
<1>1. CASE EvictNext(t, tab, ord, sl)
  <2>1. PICK v \in Slots : slot' = SlotsStopping(sl, v)
    BY <1>1 DEF EvictNext
  <2>2. loaded' = tab
    BY <1>1 DEF EvictNext
  <2>3. \A s \in Slots : sl[s].open => slot'[s].open
    BY <2>1, StopKeeps
  <2>4. Opened(tab, slot')
    BY <2>3, OpenedSame, Zenon
  <2> QED BY <2>2, <2>4
<1>2. ASSUME NEW s \in Slots, LoadInto(t, s, tab, ord, sl) PROVE Opened(loaded', slot')
  <2> DEFINE new == [sl EXCEPT ![s] = Fresh(t)]
  <2>1. /\ new \in Objects /\ new[s].open
        /\ \A x \in Slots : x # s => new[x] = sl[x]
    BY FreshObject DEF Objects
  <2>2. slot' = SlotsWithJob(new, t, s) /\ loaded' = [tab EXCEPT ![task[t].key] = s]
    BY <1>2 DEF LoadInto
  <2> HIDE DEF new
  <2>3. \A x \in Slots : slot'[x].open = new[x].open
    BY <2>1, <2>2, JobKeeps
  <2>4. ASSUME NEW k \in Keys, loaded'[k] # NoSlot PROVE slot'[loaded'[k]].open
    <3>1. loaded'[k] = s \/ (loaded'[k] = tab[k] /\ tab[k] \in Slots)
      BY <2>2, <2>4 DEF Tables
    <3>2. CASE loaded'[k] = s
      <4>1. slot'[s].open
        BY <2>1, <2>3
      <4> QED BY <3>2, <4>1
    <3>3. CASE loaded'[k] # s
      <4>1. loaded'[k] = tab[k] /\ tab[k] \in Slots /\ tab[k] # s /\ tab[k] # NoSlot
        BY <2>4, <3>1, <3>3
      <4>2. sl[tab[k]].open /\ new[tab[k]] = sl[tab[k]]
        BY <2>1, <4>1 DEF Opened
      <4>3. slot'[tab[k]].open = new[tab[k]].open
        BY <2>3, <4>1
      <4>4. slot'[tab[k]].open
        BY <4>2, <4>3
      <4> QED BY <4>1, <4>4
    <3> QED BY <3>2, <3>3
  <2> QED BY <2>4 DEF Opened
<1>3. CASE LoadFails(t, tab, ord, sl)
  BY <1>3 DEF LoadFails
<1> QED BY <1>1, <1>2, <1>3 DEF MakeRoomAndLoad

(* close and pop go together, and the object is under no other key.         *)
LEMMA OpenedPop ==
    ASSUME Types, Fits(loaded, slot), Opened(loaded, slot), NEW u
    PROVE  Opened(TableWithout(KeyOf(u)), SlotsClosed(u))
<1> DEFINE tab == TableWithout(KeyOf(u))
<1>1. slot \in Objects /\ loaded \in Tables
  BY DEF Types
<1>2. \A k \in Keys : tab[k] # NoSlot => tab[k] = loaded[k] /\ k # KeyOf(u) /\ tab[k] \in Slots
  BY <1>1 DEF TableWithout, Tables
<1> HIDE DEF tab
<1>3. ASSUME NEW k \in Keys, tab[k] # NoSlot PROVE SlotsClosed(u)[tab[k]].open
  <2>1. tab[k] = loaded[k] /\ tab[k] \in Slots /\ slot[tab[k]].key = k
    BY <1>2, <1>3 DEF Fits
  <2>2. tab[k] # unl[u].slot
    BY <1>2, <1>3, <2>1 DEF KeyOf
  <2>3. SlotsClosed(u)[tab[k]].open = slot[tab[k]].open
    BY <1>1, <2>1, <2>2, CloseKeeps
  <2> QED BY <1>3, <2>1, <2>3 DEF Opened
<1> QED BY <1>3 DEF Opened, tab

(* Every step keeps the entries of _loaded open.                            *)
LEMMA OpenStep ==
    ASSUME Types, Fits(loaded, slot), LoadedIsOpen, Next
    PROVE  LoadedIsOpen'
<1> SUFFICES Opened(loaded', slot')
  BY DEF Opened, LoadedIsOpen
<1>0. slot \in Objects /\ loaded \in Tables /\ TasksFit(task) /\ Opened(loaded, slot)
  BY DEF Types, Opened, LoadedIsOpen
<1>1. ASSUME loaded' = loaded, \A s \in Slots : slot'[s].open = slot[s].open
      PROVE  Opened(loaded', slot')
  <2>1. Opened(loaded, slot')
    BY <1>0, <1>1, OpenedSame, Zenon
  <2> QED BY <1>1, <2>1
<1>2. ASSUME NEW t \in Tasks, NEW s \in Slots, slot' = SlotsWithJob(slot, t, s), loaded' = loaded
      PROVE  Opened(loaded', slot')
  BY <1>0, <1>1, <1>2, JobKeeps
<1>3. ASSUME NEW u, NEW s, NEW rest, StartUnload(u, s, rest) PROVE Opened(loaded', slot')
  BY <1>0, <1>1, <1>3, StopKeeps DEF StartUnload
<1>4. ASSUME NEW t \in Tasks, NEW k \in Keys, NEW x \in CtxRequests, FastPath(t, k, x)
      PROVE  Opened(loaded', slot')
  BY <1>2, <1>4, UsableSlot DEF FastPath
<1>5. ASSUME NEW t \in Tasks, LockedHit(t) PROVE Opened(loaded', slot')
  <2>1. task[t].key \in Keys
    BY <1>0, <1>5 DEF LockedHit, TasksFit
  <2> QED BY <1>2, <1>5, <2>1, UsableSlot DEF LockedHit
<1>6. ASSUME NEW t \in Tasks, LockedMiss(t) PROVE Opened(loaded', slot')
  BY <1>0, <1>6, OpenedRoom DEF LockedMiss
<1>7. ASSUME NEW t \in Tasks, Evicted(t) PROVE Opened(loaded', slot')
  <2>1. TableWithout(KeyOf(t)) \in Tables /\ SlotsClosed(t) \in Objects
    BY AfterUnload
  <2>2. Opened(TableWithout(KeyOf(t)), SlotsClosed(t))
    BY <1>0, OpenedPop
  <2> QED BY <1>0, <1>7, <2>1, <2>2, OpenedRoom DEF Evicted
<1>8. ASSUME NEW u \in Unloaders, Unloaded(u) PROVE Opened(loaded', slot')
  <2>1. TableWithout(KeyOf(u)) \in Tables /\ SlotsClosed(u) \in Objects
    BY AfterUnload
  <2>2. Opened(TableWithout(KeyOf(u)), SlotsClosed(u))
    BY <1>0, OpenedPop
  <2>3. /\ loaded' = TableWithout(KeyOf(u))
        /\ slot' = SlotsClosed(u) \/ \E s : slot' = SlotsStopping(SlotsClosed(u), s)
    BY <1>8 DEF Unloaded
  <2>4. \A x \in Slots : SlotsClosed(u)[x].open => slot'[x].open
    BY <2>1, <2>3, StopKeeps
  <2>5. Opened(TableWithout(KeyOf(u)), slot')
    BY <2>1, <2>2, <2>4, OpenedSame, Zenon
  <2> QED BY <2>3, <2>5
<1>9. ASSUME NEW s \in Slots, IdleOffload(s) PROVE Opened(loaded', slot')
  BY <1>3, <1>9 DEF IdleOffload
<1>10. ASSUME (\E m \in Models : ForceUnload(m)) \/ Shutdown PROVE Opened(loaded', slot')
  <2>1. \/ loaded' = loaded /\ slot' = slot
        \/ \E u \in {"admin", "closer"} : \E s \in Slots : \E rest : StartUnload(u, s, rest)
    BY <1>10, Zenon DEF ForceUnload, Shutdown
  <2> QED BY <1>1, <1>3, <2>1
<1>11. ASSUME NEW t \in Tasks, HangUp(t) PROVE Opened(loaded', slot')
  BY <1>0, <1>1, <1>11 DEF HangUp, Objects, SlotRecords
<1>12. ASSUME NEW u \in Unloaders, PutStop(u) PROVE Opened(loaded', slot')
  BY <1>0, <1>1, <1>12 DEF PutStop, Objects, SlotRecords
<1>13. ASSUME NEW u \in Unloaders, WaitTimesOut(u) PROVE Opened(loaded', slot')
  <2>1. \A x \in Slots : slot'[x].open = slot[x].open
    BY <1>0, <1>13 DEF WaitTimesOut, Objects, SlotRecords
  <2> QED BY <1>1, <1>13, <2>1 DEF WaitTimesOut
<1>14. ASSUME NEW s \in Slots, Worker(s) \/ GeneratorEnds(s) \/ ReaderReads(s)
       PROVE  Opened(loaded', slot')
  <2>1. \A x \in Slots : slot'[x].open = slot[x].open
    <3>1. \A x \in Slots : x # s => slot'[x] = slot[x]
      BY <1>0, <1>14 DEF Worker, TakeStop, Answer, StartStream, ChunkBlocks, GeneratorEnds,
                         ReaderReads, Objects
    <3>2. slot'[s].open = slot[s].open
      BY <1>0, <1>14 DEF Worker, TakeStop, Answer, StartStream, ChunkBlocks, GeneratorEnds,
                         ReaderReads, Objects, SlotRecords
    <3> QED BY <3>1, <3>2
  <2>2. loaded' = loaded
    BY <1>14 DEF Worker, TakeStop, Answer, StartStream, ChunkBlocks, GeneratorEnds, ReaderReads
  <2> QED BY <1>1, <2>1, <2>2
<1>15. ASSUME NEW s \in Slots, ThreadReturns(s) PROVE Opened(loaded', slot')
  BY <1>0, <1>1, <1>15, ThreadKeeps
<1> QED BY <1>1, <1>4, <1>5, <1>6, <1>7, <1>8, <1>9, <1>10, <1>11, <1>12, <1>13, <1>14, <1>15
        DEF Next, WaitForLock, Abort

-----------------------------------------------------------------------------
(* The empty manager satisfies the inductive invariant.                     *)
LEMMA IInvInit == Init => IInv
<1> SUFFICES ASSUME Init PROVE IInv
  OBVIOUS
<1> USE DEF Init
<1>1. Unused \in SlotRecords
  BY ManagerAssumption DEF Unused, SlotRecords, Workers
<1>2. Types
  BY <1>1 DEF Types, Tables, Objects, TasksFit, TaskRecords, Idle
<1>3. FrameShape /\ EvictorOnly
  BY DEF FrameShape, EvictorOnly, Off, Unloaders
<1>4. Jobs(task, slot)
  <2>1. \A s \in Slots : slot[s].queue = <<>> /\ slot[s].reader = NoTask
    BY DEF Unused
  <2>2. \A t \in Tasks : task[t].pc = "idle"
    BY DEF Idle
  <2> QED BY <2>1, <2>2 DEF Jobs, Waits, QueuedFor, ReadBy
<1>5. Fits(loaded, slot) /\ Tended(loaded, slot, unl)
  BY DEF Fits, Tended
<1>6. LoadedBound
  <2>1. LoadedKeys(loaded) = {}
    BY DEF LoadedKeys
  <2>2. Cardinality({}) = 0
    BY FS_EmptySet
  <2>3. 0 <= MAX_LOADED
    BY ManagerAssumption
  <2>4. Cardinality(LoadedKeys(loaded)) = 0
    BY <2>1, <2>2, Zenon
  <2> QED BY <2>3, <2>4 DEF LoadedBound
<1>7. Quiet(slot) /\ LoadedIsOpen
  BY DEF Quiet, Unused, WorkerEnded, LoadedIsOpen
<1>8. Lists(order, loaded)
  <2>1. <<>> \in Seq(Keys) /\ Len(<<>>) = 0
    OBVIOUS
  <2> QED BY <2>1 DEF Lists
<1> QED BY <1>2, <1>3, <1>4, <1>5, <1>6, <1>7, <1>8 DEF IInv

(* Every step of the manager keeps the inductive invariant.                 *)
LEMMA IInvStep == IInv /\ [Next]_vars => IInv'
<1> SUFFICES ASSUME IInv, [Next]_vars PROVE IInv'
  OBVIOUS
<1> USE DEF IInv
<1>1. CASE Next
  <2>1. Types'
    BY <1>1, TypesStep
  <2>2. FrameShape' /\ EvictorOnly'
    BY <1>1, FramesStep, EvictorStep
  <2>3. Jobs(task', slot')
    BY <1>1, JobsStep
  <2>4. Fits(loaded', slot') /\ Tended(loaded', slot', unl')
    BY <1>1, TendedStep
  <2>5. LoadedBound' /\ Quiet(slot') /\ LoadedIsOpen'
    BY <1>1, BoundStep, QuietStep, OpenStep
  <2>6. Jobs(task, slot)' /\ Fits(loaded, slot)' /\ Tended(loaded, slot, unl)' /\ Quiet(slot)'
    BY <2>3, <2>4, <2>5 DEF Jobs, Waits, QueuedFor, ReadBy, Fits, Tended, Quiet
  <2>7. Lists(order, loaded)'
    BY <1>1, ListsStep DEF Lists
  <2> QED BY <2>1, <2>2, <2>5, <2>6, <2>7
<1>2. CASE UNCHANGED vars
  <2>1. Lists(order, loaded)'
    BY <1>2 DEF vars, Lists
  <2>2. Types' /\ FrameShape' /\ EvictorOnly' /\ Jobs(task, slot)' /\ Fits(loaded, slot)'
        /\ Tended(loaded, slot, unl)' /\ LoadedBound' /\ Quiet(slot)' /\ LoadedIsOpen'
    BY <1>2 DEF vars, Types, TasksFit, FrameShape, EvictorOnly, Jobs, Waits, QueuedFor, ReadBy,
                Fits, Tended, LoadedBound, LoadedKeys, Quiet, LoadedIsOpen
  <2> QED BY <2>1, <2>2
<1> QED BY <1>1, <1>2

(* The inductive invariant holds throughout, for any handlers, keys and     *)
(* limits: the table, the objects, the frames of _unload and the jobs in    *)
(* the queues of ModelManager agree.                                        *)
THEOREM ManagerInvariant == Spec => []IInv
BY IInvInit, IInvStep, PTL DEF Spec

(* ensure_loaded never puts more than max_loaded models into _loaded,       *)
(* however many loads, evictions and offloads overlap.                      *)
THEOREM MaxLoadedHolds == Spec => []LoadedBound
<1>1. IInv => LoadedBound
  BY DEF IInv
<1> QED BY <1>1, ManagerInvariant, PTL

(* _unload closes no backend whose worker is still running, timeouts and    *)
(* several unloaders included; a thread may be in a closed backend only     *)
(* where a timeout cancelled the worker that had sent it there.             *)
THEOREM ClosedUnderStrayOnly == Spec => []ClosedIsQuiet
<1>1. IInv => ClosedIsQuiet
  BY DEF IInv, Quiet, ClosedIsQuiet, WorkerEnded
<1> QED BY <1>1, ManagerInvariant, PTL

(* What ensure_loaded hands out is open: no unloader leaves a closed object *)
(* in _loaded, whoever else unloads it or loads its key anew.               *)
THEOREM NeverServesClosed == Spec => []LoadedIsOpen
<1>1. IInv => LoadedIsOpen
  BY DEF IInv
<1> QED BY <1>1, ManagerInvariant, PTL

(* An entry that is being unloaded always has a coroutine in _unload for    *)
(* it (_unload, wait_for).                                                  *)
THEOREM NoDeadEntry == Spec => []UnloadingIsTended
<1>1. IInv => UnloadingIsTended
  BY DEF IInv, Tended, UnloadingIsTended
<1> QED BY <1>1, ManagerInvariant, PTL

(* A handler that awaits its future has its job, once, in the queue of the  *)
(* object ensure_loaded returned (_submit, _worker_loop).                   *)
THEOREM NoLostJob == Spec => []WaiterIsQueued
<1>1. IInv => WaiterIsQueued
  BY DEF IInv, Jobs, Waits, QueuedFor, WaiterIsQueued
<1> QED BY <1>1, ManagerInvariant, PTL

-----------------------------------------------------------------------------
(* Types of the locks and of the frames *)

(* A set of numbers has a least one: what induction is replaced by here.    *)
LEMMA Least ==
    ASSUME NEW T, T \subseteq Nat, T # {}
    PROVE  \E x \in T : \A y \in T : x <= y
<1> DEFINE R == OpToRel(<, Nat)
<1>1. IsWellFoundedOn(R, Nat)
  BY NatLessThanWellFounded
<1>2. \A x, y \in Nat : x < y => <<x, y>> \in R
  BY DEF OpToRel
<1> HIDE DEF R
<1>3. PICK x \in T : \A y \in T : ~(<<y, x>> \in R)
  BY <1>1, WFMin, Zenon
<1>4. \A y \in T : ~(y < x)
  BY <1>2, <1>3
<1> QED BY <1>4

(* The targets of force_unload and shutdown are objects of the table. *)
LEMMA TargetsType ==
    ASSUME loaded \in Tables, Lists(order, loaded), NEW ms
    PROVE  Targets(ms) \in Seq(Slots)
<1> DEFINE N == Len(order)
           Step(f, n) == IF n = 0 THEN <<>>
                         ELSE IF ModelOf[order[n]] \in ms THEN Append(f[n - 1], loaded[order[n]])
                              ELSE f[n - 1]
           Adds(f) == f = [n \in 0 .. N |-> Step(f, n)]
<1>1. Targets(ms) = (CHOOSE f : Adds(f))[N]
  BY DEF Targets
<1>2. N \in Nat /\ \A n \in 1 .. N : order[n] \in Keys /\ loaded[order[n]] \in Slots
  BY DEF Lists, Tables
<1> HIDE DEF N, Step
<1>3. \E f : Adds(f)
  <2> DEFINE Upto(m) == \E f : f = [n \in 0 .. m |-> Step(f, n)]
             T == {m \in Nat : ~Upto(m)}
  <2>1. Upto(0)
    <3> DEFINE f == [n \in 0 .. 0 |-> <<>>]
    <3>1. \A n \in 0 .. 0 : Step(f, n) = <<>>
      BY DEF Step
    <3>2. f = [n \in 0 .. 0 |-> Step(f, n)]
      BY <3>1
    <3> QED BY <3>2
  <2>2. T = {}
    <3> SUFFICES ASSUME T # {} PROVE FALSE
      OBVIOUS
    <3>1. PICK m \in T : \A j \in T : m <= j
      BY Least
    <3>2. m \in Nat /\ m # 0
      BY <2>1
    <3>3. m - 1 \in Nat /\ ~(m <= m - 1)
      BY <3>2
    <3>4. m - 1 \notin T
      BY <3>1, <3>3
    <3>5. PICK g : g = [n \in 0 .. m - 1 |-> Step(g, n)]
      BY <3>3, <3>4
    <3> DEFINE f == [n \in 0 .. m |-> IF n = m THEN Step(g, m) ELSE g[n]]
    <3>6. ASSUME NEW n \in 0 .. m PROVE f[n] = Step(f, n)
      <4>1. n # 0 => n - 1 \in 0 .. m /\ n - 1 # m
        BY <3>2
      <4>2. n # 0 => f[n - 1] = g[n - 1]
        BY <4>1
      <4>3. Step(f, n) = Step(g, n)
        BY <4>2 DEF Step
      <4>4. n # m => n \in 0 .. m - 1
        BY <3>2
      <4>5. n # m => g[n] = Step(g, n)
        BY <3>5, <4>4
      <4> QED BY <4>3, <4>5
    <3>7. f = [n \in 0 .. m |-> Step(f, n)]
      BY <3>6
    <3> HIDE DEF f
    <3>8. Upto(m)
      BY <3>7
    <3> QED BY <3>8
  <2>3. Upto(N)
    BY <1>2, <2>2
  <2> QED BY <2>3
<1> DEFINE f == CHOOSE g : Adds(g)
<1>4. Adds(f)
  BY <1>3, Zenon
<1> HIDE DEF f
<1>5. \A n \in 0 .. N : f[n] = Step(f, n)
  BY <1>4
<1> DEFINE T == {n \in 0 .. N : f[n] \notin Seq(Slots)}
<1>6. T = {}
  <2> SUFFICES ASSUME T # {} PROVE FALSE
    OBVIOUS
  <2>1. T \subseteq Nat
    BY <1>2
  <2>2. PICK n \in T : \A j \in T : n <= j
    BY <2>1, Least
  <2>3. f[n] = Step(f, n) /\ f[n] \notin Seq(Slots) /\ n \in 0 .. N
    BY <1>5
  <2>4. CASE n = 0
    BY <2>3, <2>4 DEF Step
  <2>5. CASE n # 0
    <3>1. n - 1 \in 0 .. N /\ ~(n <= n - 1) /\ n \in 1 .. N
      BY <1>2, <2>3, <2>5
    <3>2. f[n - 1] \in Seq(Slots)
      BY <2>2, <3>1
    <3>3. Append(f[n - 1], loaded[order[n]]) \in Seq(Slots)
      BY <1>2, <3>1, <3>2
    <3> QED BY <2>3, <2>5, <3>2, <3>3 DEF Step
  <2> QED BY <2>4, <2>5
<1> QED BY <1>1, <1>2, <1>6 DEF f

(* The load locks: who is in the eviction loop is at the head of the        *)
(* queue of its key, so that a release never finds the queue empty.         *)
AtHead(t) == lockq[task[t].key] # <<>> /\ Head(lockq[task[t].key]) = t
Locked == /\ lockq \in [Keys -> Seq(Tasks)]
          /\ \A t \in Tasks : task[t].pc = "evict" => AtHead(t)

FramesFit == unl \in [Unloaders -> Frames]

(* Who comes to a lock leaves the head of its queue where it is. *)
LEMMA LastInLine ==
    ASSUME NEW q \in Seq(Tasks), NEW t \in Tasks
    PROVE  Append(q, t) # <<>> /\ (q # <<>> => Head(Append(q, t)) = Head(q))
<1>1. Len(Append(q, t)) = Len(q) + 1 /\ Len(q) \in Nat /\ Append(q, t) \in Seq(Tasks)
  OBVIOUS
<1>2. Append(q, t) # <<>>
  BY <1>1
<1>3. ASSUME q # <<>> PROVE Head(Append(q, t)) = Head(q)
  <2>1. Len(q) # 0 /\ 1 \in 1 .. Len(q)
    BY <1>1, <1>3
  <2>2. Append(q, t)[1] = q[1]
    BY <2>1
  <2>3. Head(Append(q, t)) = Append(q, t)[1] /\ Head(q) = q[1]
    BY <1>2, <1>3
  <2> QED BY <2>2, <2>3
<1> QED BY <1>2, <1>3

(* A step that takes and releases no lock *)
LEMMA LocksKept ==
    ASSUME Locked, lockq' = lockq,
           \A x \in Tasks : task'[x].pc = "evict" =>
              task[x].pc = "evict" /\ task'[x].key = task[x].key
    PROVE  Locked'
BY DEF Locked, AtHead

(* Who is at the head of the queue of its key goes on, without the lock. *)
LEMMA LocksReleased ==
    ASSUME Types, Locked, NEW t \in Tasks, task[t].key \in Keys, AtHead(t),
           lockq' = Release(task[t].key), task'[t].pc # "evict",
           \A x \in Tasks : x # t => task'[x] = task[x]
    PROVE  Locked'
<1> DEFINE k == task[t].key
<1>1. lockq[k] \in Seq(Tasks) /\ lockq[k] # <<>>
  BY DEF Locked, AtHead
<1>2. Tail(lockq[k]) \in Seq(Tasks)
  BY <1>1
<1>3. lockq' \in [Keys -> Seq(Tasks)] /\ \A i \in Keys : i # k => lockq'[i] = lockq[i]
  BY <1>2 DEF Release, Locked
<1>4. ASSUME NEW x \in Tasks, task'[x].pc = "evict" PROVE AtHead(x)'
  <2>1. x # t /\ task'[x] = task[x] /\ task[x].pc = "evict"
    BY <1>4
  <2>2. task[x].key \in Keys /\ AtHead(x)
    BY <2>1 DEF Types, TasksFit, Locked
  <2>3. task[x].key # k
    BY <2>1, <2>2 DEF AtHead
  <2> QED BY <1>3, <2>1, <2>2, <2>3 DEF AtHead
<1> QED BY <1>3, <1>4 DEF Locked

(* The eviction loop is entered, and left, with the lock. *)
LEMMA LocksRoom ==
    ASSUME Types, Locked, NEW t \in Tasks, task[t].key \in Keys, AtHead(t),
           NEW tab, NEW ord, NEW sl, MakeRoomAndLoad(t, tab, ord, sl)
    PROVE  Locked'
<1>1. task \in [Tasks -> TaskRecords]
  BY DEF Types, TasksFit
<1>2. CASE EvictNext(t, tab, ord, sl)
  <2>1. lockq' = lockq /\ task' = [task EXCEPT ![t].pc = "evict"]
    BY <1>2 DEF EvictNext
  <2>2. \A x \in Tasks : task'[x].key = task[x].key /\ (x # t => task'[x] = task[x])
    BY <1>1, <2>1 DEF TaskRecords
  <2>3. \A x \in Tasks : task'[x].pc = "evict" => AtHead(x)
    BY <2>2 DEF Locked
  <2> QED BY <2>1, <2>2, <2>3 DEF Locked, AtHead
<1>3. ASSUME NEW s \in Slots, LoadInto(t, s, tab, ord, sl) PROVE Locked'
  <2> DEFINE new == [sl EXCEPT ![s] = Fresh(t)]
  <2>1. lockq' = Release(task[t].key) /\ task' = TasksAfterSubmit(new, t, s)
    BY <1>3 DEF LoadInto
  <2> HIDE DEF new
  <2>2. task'[t].pc # "evict" /\ \A x \in Tasks : x # t => task'[x] = task[x]
    BY <1>1, <2>1 DEF TasksAfterSubmit, Idle
  <2> QED BY <2>1, <2>2, LocksReleased
<1>4. CASE LoadFails(t, tab, ord, sl)
  <2>1. lockq' = Release(task[t].key) /\ task' = [task EXCEPT ![t] = Idle]
    BY <1>4 DEF LoadFails
  <2>2. task'[t].pc # "evict" /\ \A x \in Tasks : x # t => task'[x] = task[x]
    BY <1>1, <2>1 DEF Idle
  <2> QED BY <2>1, <2>2, LocksReleased
<1> QED BY <1>2, <1>3, <1>4 DEF MakeRoomAndLoad

(* Every step keeps the lock with the handler in the eviction loop. *)
LEMMA LocksStep ==
    ASSUME Types, EvictorOnly, Locked, Next
    PROVE  Locked'
<1>1. task \in [Tasks -> TaskRecords] /\ lockq \in [Keys -> Seq(Tasks)]
  BY DEF Types, TasksFit, Locked
<1>2. ASSUME NEW t \in Tasks, NEW k \in Keys, NEW x \in CtxRequests, FastPath(t, k, x)
      PROVE  Locked'
  <2>1. lockq' = lockq /\ task' = TasksAfterSubmit(slot, t, loaded[k])
    BY <1>2 DEF FastPath
  <2>2. task'[t].pc # "evict" /\ \A y \in Tasks : y # t => task'[y] = task[y]
    BY <1>1, <2>1 DEF TasksAfterSubmit, Idle
  <2> QED BY <2>1, <2>2, LocksKept
<1>3. ASSUME NEW t \in Tasks, NEW k \in Keys, NEW x \in CtxRequests, WaitForLock(t, k, x)
      PROVE  Locked'
  <2>1. /\ lockq' = [lockq EXCEPT ![k] = Append(@, t)]
        /\ task' = [task EXCEPT ![t] = [Idle EXCEPT !.pc = "lock", !.key = k, !.ctx = x]]
    BY <1>3 DEF WaitForLock
  <2>2. task'[t].pc # "evict" /\ \A y \in Tasks : y # t => task'[y] = task[y]
    BY <1>1, <2>1 DEF Idle
  <2>3. lockq[k] \in Seq(Tasks) /\ Append(lockq[k], t) \in Seq(Tasks)
    BY <1>1
  <2>4. /\ Append(lockq[k], t) # <<>>
        /\ lockq[k] # <<>> => Head(Append(lockq[k], t)) = Head(lockq[k])
    BY <2>3, LastInLine
  <2>5. /\ lockq' \in [Keys -> Seq(Tasks)] /\ lockq'[k] = Append(lockq[k], t)
        /\ \A i \in Keys : i # k => lockq'[i] = lockq[i]
    BY <1>1, <2>1, <2>3
  <2>6. ASSUME NEW y \in Tasks, task'[y].pc = "evict" PROVE AtHead(y)'
    <3>1. task'[y] = task[y] /\ AtHead(y) /\ task[y].key \in Keys
      BY <2>2, <2>6 DEF Locked, Types, TasksFit
    <3> QED BY <2>4, <2>5, <3>1 DEF AtHead
  <2> QED BY <2>5, <2>6 DEF Locked
<1>4. ASSUME NEW t \in Tasks, LockedHit(t) PROVE Locked'
  <2>1. /\ task[t].key \in Keys /\ AtHead(t) /\ lockq' = Release(task[t].key)
        /\ task' = TasksAfterSubmit(slot, t, loaded[task[t].key])
    BY <1>4 DEF LockedHit, Holds, AtHead, Types, TasksFit
  <2>2. task'[t].pc # "evict" /\ \A y \in Tasks : y # t => task'[y] = task[y]
    BY <1>1, <2>1 DEF TasksAfterSubmit, Idle
  <2> QED BY <2>1, <2>2, LocksReleased
<1>5. ASSUME NEW t \in Tasks, LockedMiss(t) PROVE Locked'
  <2>1. task[t].key \in Keys /\ AtHead(t)
    BY <1>5 DEF LockedMiss, Holds, AtHead, Types, TasksFit
  <2> QED BY <1>5, <2>1, LocksRoom DEF LockedMiss
<1>6. ASSUME NEW t \in Tasks, Evicted(t) PROVE Locked'
  <2>1. task[t].pc = "evict"
    BY <1>6 DEF Evicted, Joined, EvictorOnly
  <2>2. task[t].key \in Keys /\ AtHead(t)
    BY <2>1 DEF Locked, Types, TasksFit
  <2> QED BY <1>6, <2>2, LocksRoom DEF Evicted
<1>7. ASSUME NEW u \in Unloaders, Abort(u) PROVE Locked'
  <2>1. CASE u \in Tasks
    <3>1. /\ task[u].pc = "evict" /\ lockq' = Release(task[u].key)
          /\ task' = [task EXCEPT ![u] = Idle]
      BY <1>7, <2>1 DEF Abort, EvictorOnly
    <3>2. task[u].key \in Keys /\ AtHead(u)
      BY <2>1, <3>1 DEF Locked, Types, TasksFit
    <3>3. task'[u].pc # "evict" /\ \A y \in Tasks : y # u => task'[y] = task[y]
      BY <1>1, <2>1, <3>1 DEF Idle
    <3> QED BY <2>1, <3>1, <3>2, <3>3, LocksReleased
  <2>2. CASE u \notin Tasks
    BY <1>7, <2>2, LocksKept DEF Abort
  <2> QED BY <2>1, <2>2
<1> DEFINE Leaves(ts) == \A x \in Tasks : ts[x] = task[x] \/ ts[x].pc \in {"idle", "stream"}
<1>8. /\ Leaves(task) /\ \A j : Leaves([task EXCEPT ![j] = Idle])
      /\ \A j : Leaves([task EXCEPT ![j].pc = "stream"])
  BY <1>1 DEF Idle, TaskRecords
<1>9. lockq' = lockq /\ Leaves(task') => Locked'
  BY LocksKept
<1> HIDE DEF Leaves
<1>10. ASSUME NEW u \in Unloaders, PutStop(u) \/ WaitTimesOut(u) \/ Unloaded(u) PROVE Locked'
  <2>1. lockq' = lockq /\ (task' = task \/ \E j : task' = [task EXCEPT ![j] = Idle])
    BY <1>10 DEF PutStop, WaitTimesOut, Unloaded, ReaderDone
  <2> QED BY <1>8, <1>9, <2>1
<1>11. ASSUME NEW s \in Slots, IdleOffload(s) PROVE Locked'
  BY <1>8, <1>9, <1>11 DEF IdleOffload, StartUnload
<1>12. ASSUME NEW m \in Models, ForceUnload(m) PROVE Locked'
  BY <1>8, <1>9, <1>12 DEF ForceUnload, StartUnload
<1>13. CASE Shutdown
  BY <1>8, <1>9, <1>13 DEF Shutdown, StartUnload
<1>14. ASSUME NEW s \in Slots, Worker(s) \/ GeneratorEnds(s) \/ ReaderReads(s) PROVE Locked'
  <2>1. /\ lockq' = lockq
        /\ \/ task' = task
           \/ \E j : task' = [task EXCEPT ![j] = Idle] \/ task' = [task EXCEPT ![j].pc = "stream"]
    BY <1>14 DEF Worker, TakeStop, Answer, StartStream, ChunkBlocks, GeneratorEnds,
                 ReaderReads, ReaderDone
  <2> QED BY <1>8, <1>9, <2>1
<1>15. ASSUME NEW t \in Tasks, HangUp(t) PROVE Locked'
  <2>1. lockq' = lockq /\ task' = [task EXCEPT ![t] = Idle]
    BY <1>15 DEF HangUp
  <2> QED BY <1>8, <1>9, <2>1
<1>16. ASSUME NEW s \in Slots, ThreadReturns(s) PROVE Locked'
  BY <1>8, <1>9, <1>16 DEF ThreadReturns
<1> QED BY <1>2, <1>3, <1>4, <1>5, <1>6, <1>7, <1>15, <1>10, <1>11, <1>12, <1>13, <1>14, <1>16
        DEF Next

(* The frames that _unload and its callers set *)
LEMMA FrameTypes ==
    ASSUME FramesFit, NEW u
    PROVE  /\ unl' = [unl EXCEPT ![u] = Off] => FramesFit'
           /\ \A sl : \A s \in Slots, rest \in Seq(Slots) :
                 unl' = [unl EXCEPT ![u] = Stopping(sl, s, rest)] => FramesFit'
           /\ \A p \in {"join", "late"} : unl' = [unl EXCEPT ![u].pc = p] => FramesFit'
<1>1. Off \in Frames
  BY DEF Off, Frames
<1>2. \A sl : \A s \in Slots, rest \in Seq(Slots) : Stopping(sl, s, rest) \in Frames
  BY DEF Stopping, Frames
<1>3. ASSUME NEW p \in {"join", "late"}, u \in Unloaders PROVE [unl[u] EXCEPT !.pc = p] \in Frames
  <2>1. unl[u] \in Frames
    BY <1>3 DEF FramesFit
  <2> QED BY <1>3, <2>1 DEF Frames
<1>4. \A p \in {"join", "late"} : [unl EXCEPT ![u].pc = p] \in [Unloaders -> Frames]
  <2> SUFFICES ASSUME NEW p \in {"join", "late"}
               PROVE  [unl EXCEPT ![u].pc = p] \in [Unloaders -> Frames]
    OBVIOUS
  <2>1. CASE u \in Unloaders
    BY <1>3, <2>1 DEF FramesFit
  <2>2. CASE u \notin Unloaders
    BY <2>2 DEF FramesFit
  <2> QED BY <2>1, <2>2
<1> QED BY <1>1, <1>2, <1>4 DEF FramesFit

(* A caller of _unload turns to the first of its targets. *)
LEMMA TailType ==
    ASSUME NEW q \in Seq(Slots), q # <<>>
    PROVE  Tail(q) \in Seq(Slots)
OBVIOUS

(* Every step leaves frames of _unload, and targets that are objects. *)
LEMMA FramesFitStep ==
    ASSUME Types, Lists(order, loaded), FramesFit, Next
    PROVE  FramesFit'
<1> DEFINE Sets(u) == \/ unl' = [unl EXCEPT ![u] = Off]
                      \/ \E sl : \E s \in Slots, rest \in Seq(Slots) :
                            unl' = [unl EXCEPT ![u] = Stopping(sl, s, rest)]
                      \/ \E p \in {"join", "late"} : unl' = [unl EXCEPT ![u].pc = p]
<1>1. \A u : Sets(u) => FramesFit'
  BY FrameTypes
<1>2. <<>> \in Seq(Slots) /\ \A ms : Targets(ms) \in Seq(Slots)
  BY TargetsType DEF Types
<1>3. ASSUME NEW u, NEW s \in Slots, NEW rest \in Seq(Slots), StartUnload(u, s, rest)
      PROVE  FramesFit'
  <2>1. Sets(u)
    BY <1>3, Zenon DEF StartUnload
  <2> QED BY <1>1, <2>1
<1>4. ASSUME NEW t, NEW tab, NEW ord, NEW sl, MakeRoomAndLoad(t, tab, ord, sl)
      PROVE  FramesFit'
  <2>1. \/ unl' = [unl EXCEPT ![t] = Off]
        \/ \E s \in Slots : unl' = [unl EXCEPT ![t] = Stopping(sl, s, <<>>)]
    BY <1>4 DEF MakeRoomAndLoad, EvictNext, LoadInto, LoadFails
  <2>2. Sets(t)
    BY <1>2, <2>1, Zenon
  <2> QED BY <1>1, <2>2
<1>5. ASSUME NEW t \in Tasks, LockedMiss(t) \/ Evicted(t) PROVE FramesFit'
  BY <1>4, <1>5 DEF LockedMiss, Evicted
<1>6. ASSUME NEW u \in Unloaders, PutStop(u) \/ WaitTimesOut(u) \/ Abort(u) PROVE FramesFit'
  <2>1. Sets(u)
    BY <1>6 DEF PutStop, WaitTimesOut, Abort
  <2> QED BY <1>1, <2>1
<1>7. ASSUME NEW u \in Unloaders, Unloaded(u) PROVE FramesFit'
  <2> DEFINE q == unl[u].todo
  <2>1. q \in Seq(Slots)
    BY DEF FramesFit, Frames
  <2>2. q # <<>> => Tail(q) \in Seq(Slots)
    BY <2>1, TailType
  <2>3. \/ unl' = [unl EXCEPT ![u] = Off]
        \/ /\ q # <<>>
           /\ \E s \in Slots : unl' = [unl EXCEPT ![u] = Stopping(SlotsClosed(u), s, Tail(q))]
    BY <1>7 DEF Unloaded
  <2> HIDE DEF q
  <2>4. Sets(u)
    BY <2>2, <2>3, Zenon
  <2> QED BY <1>1, <2>4
<1>8. ASSUME NEW s \in Slots, IdleOffload(s) PROVE FramesFit'
  BY <1>2, <1>3, <1>8 DEF IdleOffload
<1>9. ASSUME NEW m \in Models, ForceUnload(m) PROVE FramesFit'
  <2>1. Targets({m}) # <<>> /\ \E s \in Slots : StartUnload("admin", s, Tail(Targets({m})))
    BY <1>9 DEF ForceUnload
  <2>2. Tail(Targets({m})) \in Seq(Slots)
    BY <1>2, <2>1, TailType
  <2> QED BY <1>3, <2>1, <2>2
<1>10. CASE Shutdown
  <2>1. \/ unl' = unl
        \/ /\ Targets(Models) # <<>>
           /\ \E s \in Slots : StartUnload("closer", s, Tail(Targets(Models)))
    BY <1>10 DEF Shutdown
  <2>2. Targets(Models) # <<>> => Tail(Targets(Models)) \in Seq(Slots)
    BY <1>2, TailType
  <2>3. unl' = unl => FramesFit'
    BY DEF FramesFit
  <2> QED BY <1>3, <2>1, <2>2, <2>3
<1>11. ASSUME NEW t \in Tasks,
              \/ \E k \in Keys, x \in CtxRequests : FastPath(t, k, x) \/ WaitForLock(t, k, x)
              \/ LockedHit(t) \/ HangUp(t)
       PROVE  FramesFit'
  BY <1>11 DEF FastPath, WaitForLock, LockedHit, HangUp, FramesFit
<1>12. ASSUME NEW s \in Slots,
              Worker(s) \/ GeneratorEnds(s) \/ ReaderReads(s) \/ ThreadReturns(s)
       PROVE  FramesFit'
  BY <1>12 DEF Worker, TakeStop, Answer, StartStream, ChunkBlocks, GeneratorEnds, ReaderReads,
               ThreadReturns, FramesFit
<1> QED BY <1>5, <1>6, <1>7, <1>8, <1>9, <1>10, <1>11, <1>12 DEF Next

(* shutdown sets the flag, nothing else touches it. *)
LEMMA ClosingStep ==
    ASSUME closing \in BOOLEAN, Next
    PROVE  closing' \in BOOLEAN
BY DEF Next, FastPath, WaitForLock, LockedHit, LockedMiss, Evicted, MakeRoomAndLoad, HangUp,
       PutStop, WaitTimesOut, Abort, Unloaded, IdleOffload, ForceUnload, Shutdown,
       Worker, TakeStop, Answer, StartStream, ChunkBlocks, GeneratorEnds, ReaderReads,
       ThreadReturns

(* Types: for any handlers, keys, limits and depths; in particular the      *)
(* handler in the eviction loop is the one that holds the lock of its key,  *)
(* and what force_unload and shutdown have yet to unload are objects of the *)
(* table as it was when they began.                                         *)
THEOREM TypesHold == Spec => []TypeOK
<1> DEFINE Housed == Locked /\ FramesFit /\ closing \in BOOLEAN
<1>1. Init => Housed
  <2> SUFFICES ASSUME Init PROVE Housed
    OBVIOUS
  <2>1. Locked
    BY DEF Init, Locked, Idle
  <2>2. FramesFit
    BY DEF Init, FramesFit, Off, Frames
  <2> QED BY <2>1, <2>2 DEF Init
<1>2. IInv /\ Housed /\ [Next]_vars => Housed'
  <2> SUFFICES ASSUME IInv, Housed, [Next]_vars PROVE Housed'
    OBVIOUS
  <2>1. CASE Next
    BY <2>1, LocksStep, FramesFitStep, ClosingStep DEF IInv
  <2>2. CASE UNCHANGED vars
    BY <2>2 DEF vars, Locked, AtHead, FramesFit
  <2> QED BY <2>1, <2>2
<1>3. IInv /\ Housed => TypeOK
  BY DEF IInv, Types, Tables, Objects, TasksFit, Lists, Locked, FramesFit, TypeOK
<1> HIDE DEF Housed
<1> QED BY <1>1, <1>2, <1>3, ManagerInvariant, PTL DEF Spec
=============================================================================
