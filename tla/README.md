# Formal model of secure-llm

secure-llm is an LLM server whose clients talk to it in sealed envelopes over
plain HTTP, with a session opened by a signed handshake. This directory holds
TLA+ specifications of the parts whose correctness depends on the order in
which things happen, the TLC configurations that check them on small instances,
and TLAPS proofs of the central properties for every instance.

Paths below are relative to `src/server/secure_llm_server/` unless they start
with `client/`, `protocol/` or `docs/`.

## Inventory

| part | state | operations | hard about it | correct when |
|---|---|---|---|---|
| replay window `crypto/replay.py` | `high`, `bitmap` | `check_and_advance` | shifts at the window's edge, reordering | answers as a receiver that forgets nothing |
| sessions `session/manager.py`, `session/store.py` | `Session` objects, table by id | create, lookup, terminate, persist, reap | handlers keep objects across awaits while others terminate them | an ended session stays ended, its keys are gone |
| envelopes `routers/_envelope_dep.py`, `crypto/envelope.py`, `protocol/.../wire.py` | counters in the session | `decrypt_request`, `encrypt_response` | lost, doubled, late, damaged envelopes | an endpoint runs once per counter, no nonce twice |
| handshake, keystore `crypto/handshake.py`, `crypto/keystore.py` | allowlist, server identity | `perform_handshake`, reload | revocation against open sessions | nobody outside the allowlist is served for long |
| admin `routers/admin.py` | none of its own | list, terminate, reload, preload, unload, log level, shutdown | an administrator ends its own session | the goodbye can be read |
| model manager `models/manager.py` | table of loaded models, locks, queues, workers, idle timers | `ensure_loaded`, `_submit`, `_worker_loop`, `_unload`, `force_unload`, `shutdown` | loads, evictions, offloads, timeouts and jobs overlap | bound on loaded models, no backend closed under its worker, no job lost |
| streaming `llm/streaming.py`, `StreamHandle` | chunk queue, cancel event | chunks, keepalives, cancel | keepalive against chunk, worker cancelled, reader gone | every chunk once and in order, an honest end |
| federated store `session/redis_store.py` | Redis, cache per instance | lookup, hydrate, put, delete, reap | failover, concurrent hydrates, late writes, stale caches | expiry and termination hold in the whole fleet, failover refuses nothing fresh |
| client transport `client/.../transport.py` | session, counter, replay set | request, stream, rehandshake | threads share one session | no false replay, a request is not lost or doubled |
| client handshake, pins, attestation `client/.../crypto/`, `client/.../known_hosts.py`, `crypto/attestation.py` | known-hosts file | `derive_session`, `trust`, `verify` | key rotation, a pin that is out of date, a trust that is cut short | both ends agree on keys and on who the server is |
| registries and downloads `models/registry.py`, `models/downloader.py`, `crypto/at_rest.py` | blobs, sidecars, indexes, which registries are open | add, remove, open, download | threads, crash between two writes, quota | index and files agree, blobs are whole, quota kept |
| rate limit `middleware/rate_limit.py` | buckets | `_allow` | refill and cap at the edges, restarts | bursts are bounded |
| tenants | prefixes in keys and directories | all of the above | mixing | no tenant sees another's state |

Requests come in through the routers. Each runs `decrypt_request` (session
manager, replay window), then calls the model manager or a registry, then
`encrypt_response`. All of this shares one asyncio event loop, so a piece of
code without a suspending await is atomic; threads appear only in downloads, in
`next(generator)` of a stream and in the client. The reaper, the idle timers
and the workers are tasks on the same loop.

## Modules

| module | models | state and actions |
|---|---|---|
| `Replay` | the window as a value | the bitmap is the set of its one bits; `Rejects`, `Advance`, `Shift` are the branches of `check_and_advance` |
| `AntiReplay` | what the window promises | the set of all counters ever taken |
| `ReplayWindow` | one window object | `Pass`, `Raise`: the call returns or raises |
| `SessionServer` | one server with the in-memory store | `sess` the `Session` objects, `table` the store's dict, `busy` the handlers that wait for a model; one action per endpoint or background task |
| `ModelManager` | `models/manager.py` with its workers and `StreamHandle` | `loaded`/`order` the OrderedDict, `slot` the `_Loaded` objects with their worker and the thread a cancelled one leaves behind (`stray`), `lockq` the load locks, `task` the handlers, `unl` the running `_unload`s |
| `ClientTransport` | the client's `Transport` under several calls | `call` the calls with what has arrived for them, `cur`/`rep`/`seen` `_session` and `_replay`, `sent` the request counters, `srv` what the server keeps of each session |
| `FederatedSessions` | one session, a fleet of servers, one Redis | `obj` the `Session` objects, `cache` each instance's `_cache`, `redis` the record, `h` the handlers with the Redis command they wait for |
| `Registry` | one tenant's models and adapters | `index`/`opened` the registries in memory, `blob`/`tmp`/`meta` the files, `dl` the download threads, `rm` the removal on the event loop |
| `StreamPromise` | what a streamed answer promises the user | chunks made, shown, how it ended |
| `Streaming` | a streamed answer from the generator to the user's loop | `worker`/`queue` `_worker_loop` and `StreamHandle`, `task`/`router`/`out` `stream_chat_envelopes` and `_iter`, `wire`/`client` the connection and the reader |
| `Admission` | identity files, boot, rotation, trust, rate limit, handshake and the client's checks | `disk` the key files, `proc` server and bootstrap, `known` the pins, `bucket` the token bucket, `cl` the clients, `opened` the server's sessions |
| `MC*` | instances for TLC | small sets, symmetry |
| `*Proofs` | proofs | see below |

`SessionServer` and `FederatedSessions` extend `Replay`, so the window inside a
session is the window that is checked on its own. `ReplayWindow` is shown to
implement `AntiReplay`, and `Streaming` to implement `StreamPromise`, each
through `INSTANCE ... WITH` and the abstract specification as a property. A step
of `SessionServer` and `ModelManager` is what a coroutine does between two awaits
that really suspend it; the comments at the head of the modules say which awaits
do. In `Registry` and `Admission` a step is a file system call, in
`FederatedSessions` a Redis command or what a handler does between two of them.
History variables (`accepted`, `verdict`, `handled`, `sealed`, `revokedAt`,
`spent`, `lastTouch`, `ended`, `asked`, `crossed`, `cut`, `raced`, `level`, `through`,
`last`, `clashed`, and `shared` of a file) record what the outside saw.

Abstractions: cryptography is perfect (an envelope opens exactly when it was
sealed with the same key for the same path; session ids and keys are fresh). In
`SessionServer` any counter may arrive at any time on any session, which covers
loss, delay, duplication, reordering and damage. Time is a counter; in
`ModelManager` timers may fire whenever they are running. The contents of
requests, answers and chunks are left out; of a stream's chunk queue only
"there is no room" remains. `ClientTransport` sees the server through the promises
checked and proved for `SessionServer` (an endpoint runs once per counter, answers
are numbered upwards, the window refuses duplicates and what is too far behind)
and lets sessions end and messages get lost at any time; a call that returns or
raises an error of the application counts as answered.

In `Admission` keys are symbolic: a key pair is the number of the
`init_server_identity` that made it, a Diffie-Hellman result the two pairs it
comes from, a signature the key and the transcript. Every request uses the one
bucket the code ends up with (see `OwnBucket`). Tokens are counted in whole
units, of which a request costs COST: with 60 units to a token, `rpm / 60` and
`max(10, rpm / 2)` are whole numbers. The rotation of the runbook is one step with
nothing running; one that is left half done is outside the model. In `Registry` a
file is absent, whole, or not a ciphertext; two writers of one temporary file may
or may not spoil it, any write may fail, and a removal's `unlink` fails only by
not finding the file. `FederatedSessions` follows one session; the server's counter is
left out because its lag after a failover is documented. A key's expiry in Redis
counts from the execution of the SET. `Streaming` numbers
the chunks; sealing them is the other modules' subject.

## Runs

| run | instance | shows |
|---|---|---|
| `replay_window` | window of 3 bits, counters -1..9 | `WindowMirrorsAccepted`; `ImplementsAntiReplay` (refinement) |
| `session_server` | 2 sessions, a user and an administrator, 1 waiting handler, 2 counters, 2 seals, time 0..2 | `HandledAtMostOnce`, `NonceNeverReused`, `ClosedIsGone`, `EndIsFinal`, `RevocationTakesEffect`, `GoodbyeIsReadable` |
| `manager` | 2 handlers, 2 keys, 1 place, queue of 2, 2 loads | `LoadedBound`, `ClosedIsQuiet`, `LoadedIsOpen`, `UnloadingIsTended`, `WaiterIsQueued` |
| `stranded` | 1 key, queue of 2, nobody leaves | violated: `NoJobStranded` |
| `client_transport` | 2 threads, 2 calls | `RanAtMostOnce`, `CountersFresh`, `ExpiryHidden`, `CallsEnd` |
| `false_replay` | 2 threads, 3 calls, no reset | violated: `NoFalseReplay` |
| `federated` | 2 instances, 2 handlers, 2 counters, window of 2 bits, time 0..3 | `NoDeadKeys`, `NoFalseRefusal`, `EndIsFinalEverywhere` |
| `terminated` | the same | violated: `TerminatedStaysDown` |
| `registry` | 2 models, 1 adapter, 4 contents, 2 threads, 3 downloads | `CatalogMirrorsDisk`, `BlobIsWhole`, `QuotaBound` |
| `atomic_blob` | the same, 2 downloads | violated: `BlobIsAtomic` |
| `stream` | chunk queue of 3, connection of 2 frames, 7 chunks | `NothingLost`; `KeepsPromise` (refinement); `StreamEnds` |
| `admission` | 2 identities, 1 client with 3 attestation settings, 1 trust command, 2 hosts, a bucket of 1, 1 restart, time 0..2 | `NoMixedIdentity`, `SessionAgreed`, `HonestIsAccepted`, `LastTrustWins`, `RateBound` |

Every passing run also checks its module's `TypeOK`.

Seven configurations more are kept for questions of their own:

| configuration and module | instance | TLC's answer |
|---|---|---|
| `MCContext.cfg`, `MCModelManager` | as `manager`, with a queue of 1 and two values of `n_ctx` | the invariants of `manager` hold |
| `MCDrain.cfg`, `MCModelManager` | as `stranded`, with clients that leave | `AheadOfStopIsServed` holds |
| `MCRate.cfg`, `MCAdmission` | 2 units to a token, a bucket of 5, 3 a second, 2 restarts, time 0..5 | `RateBound` holds |
| `MCClosedInUse.cfg`, `MCModelManager` | as `stranded` | violated: `NotClosedInUse` |
| `MCOneBudget.cfg`, `MCRegistry` | as `atomic_blob`, 1 thread | violated: `OneBudget` |
| `MCUnexpectedReport.cfg`, `MCAdmission` | as `admission` | violated: `AbsenceIsContract` |
| `MCOwnBucket.cfg`, `MCAdmission` | as `admission` | violated: `OwnBucket` |

**Bounds.** The window of 3 bits meets shifts below, at and above its size and
late arrivals at every offset. In `session_server` two counters are enough for
a duplicate and a reordering, two seals for a reuse, and time 2 passes both
TTL = 1 and MAX_LIFETIME = 1; the administrator may terminate itself, the other
session or a session that is gone. `Slots` bounds how often a model is loaded in
a behaviour: two loads in one place already give an eviction, two unloaders of one
object, of which the second times out or pops the key's next object, and jobs on
both sides of a STOP. More places, and objects orphaned by a larger `n_ctx`, are
left to the proofs. In `client_transport` two calls can both find
their session gone and rehandshake past each other, and a stream can outlive two
sessions; `MAX_SEEN` = 1 makes the replay set forget. MaxTime, MaxCounter,
MaxSeals, Slots and MaxCalls are the only bounds of these modules; the proofs
hold for all values of them.

In `federated` two instances and two handlers give two concurrent hydrates, a
write that overtakes a delete and a crash between a touch and its write; time 3
passes TTL = 1 and MAX_LIFETIME = 2, and the floor of 1 lets the key of a late SET
outlive its session. In `registry` three downloads are enough for two versions of one id,
for two ids with one content and for two threads in one temporary file; the
quota has room for one file more than it can hold with the overhead. In `stream`
seven chunks fill the connection, the queue and the worker's hand with one left
over. In `admission` two identities allow one rotation or one race of bootstrap
and server, time 2 exceeds the skew of 1, and one request empties the bucket;
one handshake shows everything a handshake can meet, since sessions do not
depend on each other. Under `MCRate.cfg` the bucket holds two and a half tokens and
gets one and a half a second, so that what is left is rarely a whole token; two
restarts show that each is worth one bucket and no more. MaxTime, MaxCounter,
MaxDownloads, MaxChunks, MaxIdentities and MaxHandshakes are bounds of the models,
not of the code; MaxRestarts bounds what `RateBound` looks back over.

**Deadlock** is checked for `replay_window`, `session_server` and `stream` (where
a finished stream stutters explicitly: that it does finish is `StreamEnds`). In
`ModelManager` handlers can really wait for ever (see `stranded`) and after
shutdown nothing has to happen, so it is switched off there, as in the other
modules, where users, downloads and crashes may simply not come.

**Fairness.** In `client_transport`: weak fairness of a call's own steps (threads
run) and of what the network does for it (httpx gives every exchange an answer or its
timeout; a server that only ever sends chunks is excluded, generations being
finite). No session is assumed to end or to last. Weak fairness of taking the
lock suffices because a behaviour has finitely many calls and resets need a
session some call has opened.

In `stream`: weak fairness of the worker, of the encoder with its router, and of
the client's reading: coroutines and threads that can go on do. Strong fairness
of the task that takes a chunk: the keepalive cancels a waiting task again and
again, but a task that finds the queue not empty ends at once, long before the
next 15 s are over, so it is not beaten for ever. Nothing is assumed about
keepalives, unloads or a user who leaves.

Under `MCDrain.cfg`: weak fairness of a worker's step and of a reader's step: the
event loop runs every coroutine that can go on. Strong fairness of the end of a
generator: the token limit makes every generation finite, but between two chunks
the worker may wait for its reader, so the end is not continuously possible. A
client may leave at any time, unloads are not assumed to happen or to end, and the
30 s timeout may fire at any time.

## What the violations show

* `stranded`: the fast path of `ensure_loaded` hands out a model that is being
  unloaded; the job lands behind the STOP and is never answered
  (`models/manager.py:219`, `403`), although the worker is to "stop after
  draining".
* `false_replay`: an answer is checked against the replay set that is current
  when it arrives (`client/secure_llm_client/transport.py:201`, `269`), which may
  belong to a later session; `transport.py:136-139` says the set is replaced so
  that exactly this collision does not happen. A stream that outlives its
  session is enough.
* `terminated`: an instance serves what it has in its cache
  (`session/redis_store.py:130`) and writes it back (`161`), so a session that
  was terminated on another instance lives on, although `routers/admin.py:139-140`
  looks the session up "so cross-instance terminations work". It ends by time
  (`EndIsFinalEverywhere`).
* `atomic_blob`: two downloads of one content share the temporary file
  (`crypto/at_rest.py:65`), and the first to finish renames it under the other's
  hands; `at_rest.py:63` says "atomically". `BlobIsWhole` says that nothing else
  spoils a blob.

Four further statements of the repository do not describe the code. TLC refutes
them in the same way, under the configuration named:

* `MCClosedInUse.cfg`: when the 30 s of `_unload` are over, the worker's task is
  cancelled, but not the thread it has sent into `next(generator)`
  (`models/manager.py:485`); the backend is closed with the thread inside (`409`).
  `LlamaBackend.close` only drops its reference, so nothing crashes: the model
  goes on computing, outside the table and `max_loaded`, after "manager.unloaded"
  has been logged, although the worker is to be "the sole task touching this
  Llama instance" (`475-476`). `ClosedIsQuiet` says that this is the only way.
* `MCOneBudget.cfg`: `_check_disk_quota` looks at one directory
  (`models/downloader.py:45`), so models and adapters have a quota each, although
  `43-44` and `132` say that they share one. `QuotaBound` is about each directory
  by itself.
* `MCUnexpectedReport.cfg`: a client with `NoneVerifier` accepts an answer with a report;
  `client/secure_llm_client/crypto/attestation.py:54-57` says that the transport
  rejects it. `HonestIsAccepted` makes no claim about this case.
* `MCOwnBucket.cfg`: the rate limiter runs before `routers/_envelope_dep.py:110` sets the
  client's fingerprint, so all requests share the bucket "default:anon" and one
  client's requests use up another's, although `middleware/rate_limit.py:1`,
  `docs/threat-model.md:17` and `docs/protocol.md:155` give every client its own.
  `RateBound` holds of that one bucket.

## Observations

Met while modelling; each follows from one or two steps of a module, or concerns
something the modules leave out.

* The reaper drops expired sessions without zeroizing them
  (`session/store.py:92-98`); `session/__init__.py:1` promises zeroize-on-delete.
* A larger `n_ctx` replaces the table entry and leaves the old model open beside
  the new one (`models/manager.py:251`); `max_loaded` bounds the table, not the
  memory in use.
* `redis_store.py:15-16` says a hydrated window accepts counters "strictly
  greater than `head`"; with an empty bitmap it also takes the head and
  everything below it inside the window once more.
* An unload that times out cancels the worker of a running stream, and the user
  sees a normal `[DONE]` after a part of the answer (`over = "cut"`); one that
  strikes while the worker waits to put the end mark leaves the stream without
  an end, and only keepalives follow (`worker = "dropped"`).
* A worker whose client has left puts its chunks and the end mark into a queue
  nobody reads (`models/manager.py:488`, `493`): when it is full, the worker and
  every job behind it wait until an unload's timeout cancels the worker.
  `AheadOfStopIsServed` says that jobs wait for ever for no other reason.
* When the response of a stream is cancelled, the task that waits for the next
  chunk is not, and stays until a chunk comes (`orphan`).
* A crash after the first identity file leaves a key directory the server cannot
  boot from, while `keystore init` says "already initialized"; the advice to
  "re-run keystore init" for an empty age identity (`crypto/at_rest.py:26`) does
  nothing either. The public halves are read back unchecked.
* `trust` rewrites the known-hosts file in place; a kill or a second `trust` at
  the same time loses entries.
* Two ids with the same content share blob and sidecar: the later download takes
  over the sidecar, and removing either removes the other's file.
* A crash between the two unlinks of a removal leaves the sidecar: after the next
  start the removed entry is listed again, without a blob (`models/registry.py:139`).
* A download of a content that is already there, whose sidecar cannot be written,
  leaves a cut sidecar beside a blob that is listed; the entry is gone after the
  next start.
* The idle offload of an object that was replaced takes its successor out of the
  table (`models/manager.py:410`); the successor stays open until its own timer.
* A rotation that stops between two of its renames leaves some of the old files,
  and a `keystore init` after it may put new ones beside them.
* `client/secure_llm_client/transport.py:4` speaks of retrying idempotent calls with
  backoff, and `docs/threat-model.md:32` of a rehandshake after a repeated counter;
  the transport retries only UNKNOWN_SESSION, once and at once, and raises on a
  replay.
* `crypto/replay.py:16` takes counters "up to WINDOW_BITS behind"; a counter exactly
  WINDOW_BITS behind is refused, as `docs/protocol.md:68` says.
* In `load_allowlist` a tenant's entry replaces the root entry of the same key,
  also when the root entry is revoked.
* A process that dies while loading a model leaves the plaintext in the tmpfs
  directory; nothing cleans it up at the next start.
* The timed log-level override reverts to the configured level, also when a
  later override is in force.

## Proofs

All proofs are checked by TLAPS for arbitrary constants that satisfy the named
assumptions in the modules (`WindowAssumption`, `CountersAssumption`,
`ClientsAssumption`, `TimesAssumption`, `ManagerAssumption`,
`TransportAssumption`, `SizeAssumption`, `FederatedAssumption`,
`AdmissionAssumption`, `RegistryAssumption`). The assumptions say that numbers are
numbers, that special values differ from ordinary ones, and that keys, contents
and threads are finitely many; every run evaluates them. Every invariant and
every action property that a run checks is also a theorem.

The library's induction theorems take an operator, which the provers cannot
instantiate. Where a fact about a recursive function or a sum is needed, the
proofs use that a set of numbers has a least one (`Least`, from the
well-foundedness of < on the naturals): a least counterexample is refuted.

* `ReplayWindowProofs` has lemmas about `Shift`, `Advance` and `Rejects`, which
  the proofs about sessions take from it through an instance, and proves
  `WindowTypes`, `MirrorCorrect` and, from it, `WindowImplementsPromise`. The
  mirror property with the types is inductive: a counter is refused as a
  duplicate exactly if its bit is set, and the mirror says that the bit is set
  exactly if it was accepted.
* `SessionServerProofs` proves `TypeCorrect`, `AtMostOnce`, `NonceUnique`,
  `TerminatedStaysGone`, `EndIsForGood`, `RevocationBounded` and
  `GoodbyeCanBeRead`. None of these is inductive alone. The invariant adds that
  every handled counter is marked in the session's window or too old for it, that
  no key has sealed under a counter beyond `s2c`, that ids not handed out yet have
  no history, that waiting handlers belong to sessions that exist, and that a
  client the allowlist turns away has no session younger than the reload. For the
  goodbye, a key is zeroed only together with the flag (`ZeroIsClosed`), and
  every step seals with the key the session had before it.
* `ModelManagerProofs` proves `MaxLoadedHolds`, `ClosedUnderStrayOnly`,
  `NeverServesClosed`, `NoDeadEntry` and `NoLostJob` from one invariant. It adds
  to these properties that an entry sits under its own key, that who cancelled a
  worker is still waiting for it (this is what makes a second unloader's
  CancelledError harmless), that a thread is left only by a worker that has been
  cancelled, that the usage order lists the table, that a handler unloads only
  inside the eviction loop, and that a stream's reader belongs to it. `TypesHold`
  rests on two facts more: a handler in the eviction loop is the first in the
  queue of its key's lock, so that a release always finds someone to take out
  (another handler could only release by being first itself), and the targets of
  `force_unload` and `shutdown` are objects, because the order lists only what is
  in the table.
* `ClientTransportProofs` proves `TypesHold`, `NoSecondRun`, `NumbersAreFresh` and
  `OldExpiryIsHidden`. The invariant says that sessions are numbered as they are
  opened; that a call without an answer has run nothing; that an UNKNOWN_SESSION
  in an inbox means nothing has run; that the server has taken only numbers that
  were counted, and those on their way are different and not yet taken (so none is
  refused as a duplicate, and a number that is too far behind has been overtaken
  by numbers given out after it); and that a second attempt uses a session opened
  after its call began. That two handshakes per call are enough for the session
  numbers is an argument of its own (`Budget`): the sessions opened, the
  handshakes asked for and the retries left are never more than two for each call
  begun.
* `StreamingProofs` proves `TypesHold`, `NoChunkIsLost` and the refinement
  `StreamKeepsPromise`. The invariant adds to the types which combinations of the
  worker's, task's and router's states occur, that the end mark and the last
  frame come last, and that everything between the generator and the user is the
  chunks in order. The refinement maps each action to a step of `StreamPromise`
  or to a stutter.
* `FederatedSessionsProofs` proves `TypesHold`, `ZerosAreNeverServed`,
  `FailoverRefusesNothingNew` and `EndIsFinal`. The invariant says that every
  object is in one cache at most; that a cached object is not closed, has in its
  window only counters that were spent, and is no younger than the last use; and
  the same of every record, in Redis or in a handler's hands.
* `AdmissionProofs` proves `TypesHold`, `IdentityIsWhole`, `PinnedServerHasKeys`,
  `HonestServerIsAccepted`, `NewestTrustStands` and `RateIsKept`. The invariant
  has a part for each party. Files: one process at a time is past O_EXCL on the
  first file, the files are exactly what it has made of them so far, and without
  the first file there is none. Pins: until a clash one trust command runs, and
  its copy is the newest. Bucket: what was let through, in a stretch with at most
  r restarts, and the tokens there would be now never exceed r + 1 capacities
  together, which a tick keeps because the bucket fills no faster than the
  allowance grows, and a restart because it counts as one more. Sessions: they are
  numbered one after the other, and each answer under way was made from the
  identity of its session and the client's own hello.

* `RegistryProofs` proves `TypesHold`, `BlobsAreWhole`, `CatalogIsMirror` and
  `QuotaKept`. For the files the invariant adds that a file is open only in
  threads that have yet to close it, and that a temporary file which a thread is
  going to close or rename is bad, or in another download's hands, only if it is
  marked as opened by two (`TmpIsWhole`); the ids of two downloads that met are on
  record since the second one began (`Recorded`). For the catalog, `Mirrors`
  follows an id of its own content through every phase of a download and of a
  removal: its sidecar is never there without a blob except under a removal or
  after one that a crash has stopped (`cut`), the index agrees with the sidecar
  except between the two writes of `registry.add`, and a removed entry is out of
  the index first. For the quota, the files on disk alone are not inductive, since
  the rename checks nothing: the invariant bounds the files together with what
  every download past the check will bring (`Billed`). A sum is counted as a set
  of cells, one for every byte, so that the facts about sums are facts about the
  cardinality of finite sets; `SumIsWeight` shows that the fold in `Used` computes
  it.

Only model-checked: `AheadOfStopIsServed`, `CallsEnd` and `StreamEnds`. Liveness
is out of the prover's reach.

## Plan

Modelled: every part with state of its own that other steps depend on. Further
modelling: the tenants' allowlist files (a client's tenant and scopes are
constants so far).

## Not modelled

* The AEAD, hashes, signatures and key derivation are perfect and symbolic; the
  byte layout of envelopes and the schemas are stateless.
* The merge of the root and tenant allowlists; tenants other than through the
  session's tenant and the separation of registries.
* The counter a federated successor continues from, whose lag is documented.
* The log-level override, gc, logging, metrics, ring buffers, health and status
  reports: nothing else depends on their state.
* The command line except `trust`, the client's resource classes except the
  streaming loop, settings, smoke, doctor and diagram scripts.
* The hardware attestation backends, which are stubs.
