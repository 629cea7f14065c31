------------------------------ MODULE Streaming ------------------------------
(* One streamed chat completion, end to end: the worker that drains the     *)
(* generator (ModelManager._worker_loop), the StreamHandle with its bounded *)
(* queue, the encoder that races the next chunk against the keepalive timer *)
(* (stream_chat_envelopes) inside the router's generator (_iter), the SSE   *)
(* connection, and the client's loop (Transport.stream_request, the filter  *)
(* of _Completions.create).  The envelopes' counters are ClientTransport's  *)
(* subject; the jobs and unloads around the stream are ModelManager's.      *)
EXTENDS Integers, Sequences

CONSTANTS MAXSIZE,     \* StreamHandle: size of the queue
          WIRE,        \* external: frames the connection buffers
          MaxChunks    \* bound: chunks the generator yields

ASSUME SizeAssumption ==
    MAXSIZE \in Nat \ {0} /\ WIRE \in Nat \ {0} /\ MaxChunks \in Nat

(* Chunks are numbered from 1.  On the handle's queue DONE is _STREAM_DONE; *)
(* on the wire END is the [DONE] line, KEEPALIVE the sealed keepalive.      *)
DONE == 0
KEEPALIVE == 0
END == -1

VARIABLES
    made, over,     \* the generator: chunks yielded, how it ended
    worker,         \* next, put, fin; returned, dropped (cancelled at the end mark)
    held,           \* the chunk the worker hands over
    queue, error,   \* StreamHandle
    cancelled,      \* StreamHandle.cancel_event
    task, item,     \* chunk_task: none, waiting, got; what it got
    orphan,         \* a chunk_task nobody waits for
    router, out,    \* _iter: wait, yield, over; the frame at its yield
    wire, conn,     \* frames under way; open, ended, broken
    client, shown   \* the user's loop: reading, done, error, left; its chunks

stream == <<made, over, worker, held, queue, error>>
encoder == <<task, item, orphan, router, out>>
vars == <<stream, cancelled, encoder, wire, conn, client, shown>>

Init ==
    /\ made = 0 /\ over = "no"
    /\ worker = "next" /\ held = 0
    /\ queue = <<>> /\ error = FALSE /\ cancelled = FALSE
    /\ task = "waiting" /\ item = 0 /\ orphan = FALSE
    /\ router = "wait" /\ out = 0
    /\ wire = <<>> /\ conn = "open"
    /\ client = "reading" /\ shown = <<>>

-----------------------------------------------------------------------------
(* _worker_loop.  A put that finds room does not give the event loop a      *)
(* turn, so put and fin are the states of a worker that had to wait.        *)

(* Mutant: put_nowait; the end mark is dropped when there is no room. *)
FinishNoWait(q) == worker' = "returned"
                   /\ queue' = IF Len(q) < MAXSIZE THEN Append(q, DONE) ELSE q

(* finally: the end mark, when there is room for it *)
Finish(q) == IF Len(q) < MAXSIZE THEN worker' = "returned" /\ queue' = Append(q, DONE)
             ELSE worker' = "fin" /\ queue' = q

(* The chunk x is in the queue: the test of the loop. *)
Handed(x) ==
    IF cancelled
    THEN over' = "gone" /\ Finish(Append(queue, x))
    ELSE over' = over /\ worker' = "next" /\ queue' = Append(queue, x)

(* Mutant: the queue is not bounded. *)
NextChunkUnbounded ==
    /\ worker = "next"
    /\ made < MaxChunks
    /\ made' = made + 1
    /\ Handed(made + 1) /\ held' = 0
    /\ UNCHANGED <<error, cancelled, encoder, wire, conn, client, shown>>

NextChunk ==
    /\ worker = "next"
    /\ made < MaxChunks
    /\ made' = made + 1
    /\ IF Len(queue) < MAXSIZE
       THEN Handed(made + 1) /\ held' = 0
       ELSE worker' = "put" /\ held' = made + 1 /\ UNCHANGED <<over, queue>>
    /\ UNCHANGED <<error, cancelled, encoder, wire, conn, client, shown>>

PutChunk ==
    /\ worker = "put" /\ Len(queue) < MAXSIZE
    /\ Handed(held) /\ held' = 0
    /\ UNCHANGED <<made, error, cancelled, encoder, wire, conn, client, shown>>

GeneratorStops ==
    /\ worker = "next"
    /\ over' = "stop"
    /\ Finish(queue)
    /\ UNCHANGED <<made, held, error, cancelled, encoder, wire, conn, client, shown>>

(* Mutant: the exception is logged only. *)
GeneratorRaisesQuietly ==
    /\ worker = "next"
    /\ over' = "raise"
    /\ Finish(queue)
    /\ UNCHANGED <<made, held, error, cancelled, encoder, wire, conn, client, shown>>

GeneratorRaises ==
    /\ worker = "next"
    /\ over' = "raise" /\ error' = TRUE
    /\ Finish(queue)
    /\ UNCHANGED <<made, held, cancelled, encoder, wire, conn, client, shown>>

PutEnd ==
    /\ worker = "fin" /\ Len(queue) < MAXSIZE
    /\ Finish(queue)
    /\ UNCHANGED <<made, over, held, error, cancelled, encoder, wire, conn, client, shown>>

(* The timeout of an unload cancels the worker (_unload): CancelledError is *)
(* no Exception, so the handle gets no error; a worker that was waiting to  *)
(* put the end mark leaves without it.                                      *)
CancelWorker ==
    /\ \/ /\ worker \in {"next", "put"}
          /\ over' = "cut" /\ held' = 0
          /\ Finish(queue)
       \/ /\ worker = "fin"
          /\ worker' = "dropped"
          /\ UNCHANGED <<over, held, queue>>
    /\ UNCHANGED <<made, error, cancelled, encoder, wire, conn, client, shown>>

-----------------------------------------------------------------------------
(* stream_chat_envelopes and _iter *)

(* StreamHandle.__anext__ in its task *)
TaskGets ==
    /\ task = "waiting" /\ queue # <<>>
    /\ task' = "got" /\ item' = Head(queue)
    /\ queue' = Tail(queue)
    /\ UNCHANGED <<made, over, worker, held, error, cancelled, orphan, router, out, wire,
                   conn, client, shown>>

OrphanGets ==
    /\ orphan /\ queue # <<>>
    /\ orphan' = FALSE /\ queue' = Tail(queue)
    /\ UNCHANGED <<made, over, worker, held, error, cancelled, task, item, router, out, wire,
                   conn, client, shown>>

Yield(x) == router' = "yield" /\ out' = x /\ task' = "none" /\ item' = 0

ChunkArrived ==
    /\ router = "wait" /\ task = "got" /\ item # DONE
    /\ Yield(item)
    /\ UNCHANGED <<stream, cancelled, orphan, wire, conn, client, shown>>

StreamStopped ==
    /\ router = "wait" /\ task = "got" /\ item = DONE /\ ~error
    /\ Yield(END)
    /\ UNCHANGED <<stream, cancelled, orphan, wire, conn, client, shown>>

(* The exception goes through both generators: no [DONE], the response is   *)
(* broken off, _iter cancels the handle.                                    *)
StreamRaised ==
    /\ router = "wait" /\ task = "got" /\ item = DONE /\ error
    /\ router' = "over" /\ task' = "none" /\ item' = 0 /\ out' = 0
    /\ conn' = "broken" /\ cancelled' = TRUE
    /\ UNCHANGED <<stream, orphan, wire, client, shown>>

(* Mutant: the task had the chunk already when it was cancelled. *)
KeepaliveLate ==
    /\ router = "wait" /\ task # "none"
    /\ Yield(KEEPALIVE)
    /\ UNCHANGED <<stream, cancelled, orphan, wire, conn, client, shown>>

(* The timer wins: the task is cancelled while it waits, or has been woken  *)
(* and not run; what is in the queue stays there.                           *)
Keepalive ==
    /\ router = "wait" /\ task = "waiting"
    /\ Yield(KEEPALIVE)
    /\ UNCHANGED <<stream, cancelled, orphan, wire, conn, client, shown>>

(* The frame is handed to the connection.  _iter asks before that whether   *)
(* the client is gone, which it may be without the server knowing; the      *)
(* encoder then starts its loop again.                                      *)
Sends ==
    /\ router = "yield"
    /\ client = "left" \/ Len(wire) < WIRE
    /\ wire' = IF client = "left" THEN <<>> ELSE Append(wire, out)

SendLast ==
    /\ Sends /\ out = END
    /\ router' = "over" /\ out' = 0 /\ conn' = "ended" /\ cancelled' = TRUE
    /\ UNCHANGED <<stream, task, item, orphan, client, shown>>

SendNext ==
    /\ Sends /\ out # END
    /\ cancelled' \in {cancelled} \cup {client = "left"}
    /\ IF cancelled' THEN router' = "yield" /\ out' = END /\ task' = "none"
       ELSE router' = "wait" /\ out' = 0 /\ task' = "waiting"
    /\ UNCHANGED <<stream, item, orphan, conn, client, shown>>

(* external: the server sees the client's disconnect and cancels the        *)
(* response; the task the encoder waits for is not cancelled with it.       *)
ResponseCancelled ==
    /\ client = "left" /\ router # "over"
    /\ router' = "over" /\ out' = 0 /\ task' = "none" /\ item' = 0
    /\ orphan' = (task = "waiting")
    /\ cancelled' = TRUE /\ conn' = "broken" /\ wire' = <<>>
    /\ UNCHANGED <<stream, client, shown>>

-----------------------------------------------------------------------------
(* Transport.stream_request and the generator of _Completions.create *)

ReadFrame ==
    /\ client = "reading" /\ wire # <<>>
    /\ wire' = Tail(wire)
    /\ client' = IF Head(wire) = END THEN "done" ELSE client
    /\ shown' = IF Head(wire) \in {END, KEEPALIVE} THEN shown ELSE Append(shown, Head(wire))
    /\ UNCHANGED <<stream, cancelled, encoder, conn>>

(* external: httpx raises when the response ends before its time *)
ReadBroken ==
    /\ client = "reading" /\ wire = <<>> /\ conn = "broken"
    /\ client' = "error"
    /\ UNCHANGED <<stream, cancelled, encoder, wire, conn, shown>>

(* The user's loop is left, or its read times out: the response is closed.  *)
Leave ==
    /\ client = "reading"
    /\ client' = "left" /\ wire' = <<>>
    /\ UNCHANGED <<stream, cancelled, encoder, conn, shown>>

Pump == NextChunk \/ PutChunk \/ GeneratorStops \/ GeneratorRaises \/ PutEnd
Encode == ChunkArrived \/ StreamStopped \/ StreamRaised \/ SendLast \/ SendNext
Read == ReadFrame \/ ReadBroken

(* The stream is over and nothing is left to do, but for a worker nobody    *)
(* will read (ModelManager's NoJobStranded).                                *)
Over == router = "over" /\ client # "reading" /\ UNCHANGED vars

Next == \/ Pump \/ CancelWorker
        \/ TaskGets \/ OrphanGets \/ Encode \/ Keepalive \/ ResponseCancelled
        \/ Read \/ Leave \/ Over

Spec == Init /\ [][Next]_vars

(* The event loop and the client's thread run what can go on; the generator *)
(* is finite and no call of it hangs; a task that finds the queue not empty *)
(* ends long before the keepalive's 15 s.                                   *)
Fairness == WF_vars(Pump) /\ SF_vars(TaskGets) /\ WF_vars(Encode) /\ WF_vars(Read)

FairSpec == Spec /\ Fairness

-----------------------------------------------------------------------------
Chunks == 1 .. MaxChunks

TypeOK ==
    /\ made \in 0 .. MaxChunks /\ over \in {"no", "stop", "raise", "gone", "cut"}
    /\ worker \in {"next", "put", "fin", "returned", "dropped"}
    /\ held \in {0} \cup Chunks
    /\ queue \in Seq({DONE} \cup Chunks) /\ Len(queue) <= MAXSIZE
    /\ error \in BOOLEAN /\ cancelled \in BOOLEAN
    /\ task \in {"none", "waiting", "got"} /\ item \in {DONE} \cup Chunks
    /\ orphan \in BOOLEAN
    /\ router \in {"wait", "yield", "over"} /\ out \in {END, KEEPALIVE} \cup Chunks
    /\ wire \in Seq({END, KEEPALIVE} \cup Chunks) /\ Len(wire) <= WIRE
    /\ conn \in {"open", "ended", "broken"}
    /\ client \in {"reading", "done", "error", "left"}
    /\ shown \in Seq(Chunks)

(* The chunks among the entries of s are first + 1, ..., last, in this      *)
(* order and each once; the other entries are marks.                        *)
IsChunk(x) == x > 0
InOrder(s, first, last) ==
    /\ first <= last
    /\ \A i, j \in 1 .. Len(s) : i < j /\ IsChunk(s[i]) /\ IsChunk(s[j]) => s[i] < s[j]
    /\ \A i \in 1 .. Len(s) : IsChunk(s[i]) => s[i] \in first + 1 .. last
    /\ \A k \in first + 1 .. last : \E i \in 1 .. Len(s) : s[i] = k

(* While the user reads, every chunk the generator has yielded is in one    *)
(* place, and in its order: shown, on the wire, at the router's yield, in   *)
(* the task, in the queue or in the worker's hand; keepalives that cancel   *)
(* the task lose and repeat none (stream_chat_envelopes, StreamHandle).     *)
Opt(cond, x) == IF cond THEN <<x>> ELSE <<>>
Pipeline ==
    shown \o wire \o Opt(router = "yield", out) \o Opt(task = "got", item)
          \o queue \o Opt(worker = "put", held)
NothingLost ==
    client = "reading" /\ over # "cut" => InOrder(Pipeline, 0, made)

(* The stream implements what StreamPromise says: chunks in order and once, *)
(* a normal end only after the last one, an error when the model failed.    *)
Promise == INSTANCE StreamPromise
    WITH made <- made, over <- over, shown <- shown, client <- client
KeepsPromise == Promise!Spec

(* The user's loop comes to an end, whatever keepalives, back-pressure and  *)
(* unloads do, unless an unload's timeout struck the worker while it waited *)
(* to put the end mark: then the keepalives go on (_worker_loop).           *)
StreamEnds == client = "reading" ~> client # "reading" \/ worker = "dropped"
=============================================================================
