------------------------------ MODULE Admission ------------------------------
(***************************************************************************)
(* How a client comes to have a session: the server's identity on disk and *)
(* the boot that makes or reads it, the key rotation of the runbook, the   *)
(* pins in the client's known-hosts file, the rate limit in front of every *)
(* endpoint, the handshake, and the client's checks of its answer.         *)
(*                                                                         *)
(* Processes stop at any point between two file system calls.  Keys are    *)
(* symbolic: identity number k stands for the key pairs made by the k-th   *)
(* init_server_identity, and a key pair's halves have the same number.     *)
(* Two Diffie-Hellman results are equal when they come from the same two   *)
(* pairs, a signature verifies under the other half of the key that made   *)
(* it over the same transcript.                                            *)
(***************************************************************************)
EXTENDS Integers, Sequences, FiniteSets

CONSTANTS Clients,           \* SecureLLMClient objects
          Trusters,          \* runs of `sllm trust'
          Hosts, Home,       \* entries of known_hosts; the one of this server
          Other,             \* the key of the other hosts
          Absent, Torn,      \* no file; a file that was created, not written
          COST, CAPACITY, RATE,   \* units of the token bucket, see below
          MAX_BYTES, Sizes,  \* body limit and the lengths that occur
          SKEW,              \* handshake_skew_seconds
          Policies,          \* attestation settings of clients
          Backends,          \* attestation backends: "none", or a measurement
          MaxTime, MaxIdentities, MaxHandshakes,   \* bounds of the model
          MaxRestarts        \* restarts in the stretches RateBound looks at

(* No verifier, NoneVerifier, MockAttestationVerifier *)
Verifiers == {"missing", "none", "mock"}

ASSUME AdmissionAssumption ==
    /\ Home \in Hosts /\ Other < 1 /\ Other \in Int
    /\ Absent # Torn /\ {Absent, Torn} \cap (1 .. MaxIdentities) = {} /\ "none" \in Backends
    /\ COST \in Nat \ {0} /\ CAPACITY \in Nat /\ COST <= CAPACITY /\ RATE \in Nat \ {0}
    /\ SKEW \in Nat
    /\ MaxTime \in Nat /\ MaxIdentities \in Nat /\ MaxHandshakes \in Nat /\ MaxRestarts \in Nat
    /\ Policies \subseteq [verifier : Verifiers, pinned : Backends, required : BOOLEAN]

VARIABLES now,         \* time.time() and time.monotonic()
          made,        \* identities generated so far
          disk,        \* the five files of key_dir
          proc,        \* the server and the bootstrap script
          bucket,      \* RateLimitMiddleware._buckets["default:anon"]
          opened,      \* sessions the server has created
          known,       \* the known-hosts file
          tr,          \* the trust commands
          cl,          \* the clients
          level,       \* history: what was let through, less what RATE allows,
                       \* by the number of restarts looked back over
          through,     \* history: clients with a request that was let through
          last,        \* history: the key last trusted for each host, until a clash
          clashed      \* history: two trusts overlapped, or one was killed

host == <<made, disk, proc>>
pins == <<known, tr, last, clashed>>
traffic == <<bucket, level, through>>
vars == <<now, host, traffic, opened, pins, cl>>

Identities == 1 .. MaxIdentities
Files == <<"x", "xpub", "e", "epub", "age">>
Names == {"x", "xpub", "e", "epub", "age"}
Secret == {"x", "e", "age"}
Procs == {"server", "bootstrap"}

NoIdentity == [x |-> 0, xpub |-> 0, e |-> 0, epub |-> 0]
Off == [pc |-> "off", n |-> 0, key |-> 0, id |-> NoIdentity, backend |-> "none"]
Up == proc["server"].pc = "up"

(* The tokens are fractions in the code; here they are counted in units, of *)
(* which a request costs COST: with 60 units to a token the capacity, which *)
(* is max(10, rpm / 2) tokens, and the rpm / 60 tokens that a second brings *)
(* are whole numbers of units for every rpm; with finer units Tick may be   *)
(* any part of a second.  A client without a bucket will get a full one.    *)
NoBucket == [tokens |-> CAPACITY, last |-> 0]
Spans == 0 .. MaxRestarts

NoPins == [h \in Hosts |-> Absent]
Idle == [pc |-> "idle"]

Init == /\ now = 0
        /\ made = 0
        /\ disk = [f \in Names |-> Absent]
        /\ proc = [p \in Procs |-> Off]
        /\ bucket = NoBucket
        /\ opened = {}
        /\ known = NoPins
        /\ tr = [k \in Trusters |-> Idle]
        /\ cl = [c \in Clients |-> Idle]
        /\ level = [r \in Spans |-> 0] /\ through = {}
        /\ last = NoPins /\ clashed = FALSE

-----------------------------------------------------------------------------
(* keystore.py *)

Goes(p, s) == proc' = [proc EXCEPT ![p] = s]

(* load_or_init_keystore, _cli_init: the first file decides *)
StartInit(p, b) ==
    /\ proc[p].pc = "off" /\ disk["x"] = Absent
    /\ made < MaxIdentities /\ made' = made + 1
    /\ Goes(p, [Off EXCEPT !.pc = "create", !.n = 1, !.key = made + 1, !.backend = b])
    /\ UNCHANGED <<now, disk, traffic, opened, pins, cl>>

Readable == /\ disk["x"] \in Identities /\ disk["e"] \in Identities
            /\ disk["xpub"] # Absent /\ disk["epub"] # Absent

(* load_server_identity: a key of the wrong length is refused, a public     *)
(* half is taken as it is                                                   *)
StartLoad(b) ==
    /\ proc["server"].pc = "off" /\ Readable
    /\ Goes("server", [Off EXCEPT !.pc = "age", !.backend = b,
          !.id = [x |-> disk["x"], xpub |-> disk["xpub"],
                  e |-> disk["e"], epub |-> disk["epub"]]])
    /\ UNCHANGED <<now, made, disk, traffic, opened, pins, cl>>

File(p) == Files[proc[p].n]
Generated(p) == LET k == proc[p].key IN [x |-> k, xpub |-> k, e |-> k, epub |-> k]
Initialised(p) == IF p = "server" THEN [proc[p] EXCEPT !.pc = "age", !.id = Generated(p)]
                  ELSE Off

(* Mutant: secrets are opened without O_EXCL. *)
RefusesNothing(p) == FALSE

(* _write_secret: O_EXCL *)
Refuses(p) == File(p) \in Secret /\ disk[File(p)] # Absent

Create(p) ==
    /\ proc[p].pc = "create"
    /\ IF File(p) = "age" /\ disk["age"] # Absent
       THEN Goes(p, Initialised(p)) /\ UNCHANGED disk
       ELSE IF Refuses(p)
       THEN Goes(p, Off) /\ UNCHANGED disk           \* FileExistsError
       ELSE /\ disk' = [disk EXCEPT ![File(p)] = Torn]
            /\ Goes(p, [proc[p] EXCEPT !.pc = "fill"])
    /\ UNCHANGED <<now, made, traffic, opened, pins, cl>>

(* The age identity stays empty when pyrage is missing. *)
Fill(p) ==
    /\ proc[p].pc = "fill"
    /\ \/ disk' = [disk EXCEPT ![File(p)] = proc[p].key]
       \/ File(p) = "age" /\ UNCHANGED disk
    /\ Goes(p, IF File(p) = "age" THEN Initialised(p)
               ELSE [proc[p] EXCEPT !.pc = "create", !.n = @ + 1])
    /\ UNCHANGED <<now, made, traffic, opened, pins, cl>>

(* AtRestKey, and the rest of the boot *)
Boot ==
    /\ proc["server"].pc = "age"
    /\ IF disk["age"] \in Identities
       THEN Goes("server", [proc["server"] EXCEPT !.pc = "up", !.n = 0, !.key = 0])
       ELSE Goes("server", Off)
    /\ UNCHANGED <<now, made, disk, traffic, opened, pins, cl>>

(* The buckets are in the memory of the server. *)
Forgets == /\ bucket' = NoBucket
           /\ level' = [r \in Spans |-> IF r = 0 THEN 0 ELSE level[r - 1]]
           /\ UNCHANGED through

Crash(p) ==
    /\ proc[p].pc # "off"
    /\ Goes(p, Off)
    /\ IF p = "server" /\ Up THEN Forgets ELSE UNCHANGED traffic
    /\ UNCHANGED <<now, made, disk, opened, pins, cl>>

(* The runbook: stop the server, rename the four files.  One step, with     *)
(* nothing else running: what comes of a rotation that is left half done is *)
(* outside the model.                                                       *)
Rotate ==
    /\ \A p \in Procs : proc[p].pc = "off"
    /\ disk["x"] # Absent
    /\ disk' = [f \in Names |-> IF f = "age" THEN disk[f] ELSE Absent]
    /\ UNCHANGED <<now, made, proc, traffic, opened, pins, cl>>

-----------------------------------------------------------------------------
(* known_hosts.py: trust reads the whole file and writes it back *)

Busy == {k \in Trusters : tr[k] # Idle}

(* The key of the public file, or of another host *)
Offered(h) == IF h = Home THEN disk["xpub"] ELSE Other

Load(k, h) ==
    /\ tr[k] = Idle
    /\ Offered(h) \notin {Absent, Torn}
    /\ tr' = [tr EXCEPT ![k] = [pc |-> "open", host |-> h, key |-> Offered(h), copy |-> known]]
    /\ clashed' = (clashed \/ Busy # {})
    /\ last' = IF Busy = {} THEN last ELSE NoPins
    /\ UNCHANGED <<now, host, traffic, opened, known, cl>>

(* write_bytes cuts the file to nothing, which reads as no hosts at all ... *)
Truncate(k) ==
    /\ tr[k].pc = "open"
    /\ known' = NoPins
    /\ tr' = [tr EXCEPT ![k] = [tr[k] EXCEPT !.pc = "write"]]
    /\ UNCHANGED <<now, host, traffic, opened, last, clashed, cl>>

(* Mutant: an entry that is there is kept. *)
RowsKept(k) == [tr[k].copy EXCEPT ![tr[k].host] = IF @ = Absent THEN tr[k].key ELSE @]

Rows(k) == [tr[k].copy EXCEPT ![tr[k].host] = tr[k].key]

(* ... and then writes the rows *)
WriteRows(k) ==
    /\ tr[k].pc = "write"
    /\ known' = Rows(k)
    /\ tr' = [tr EXCEPT ![k] = Idle]
    /\ last' = IF clashed THEN last ELSE [last EXCEPT ![tr[k].host] = tr[k].key]
    /\ UNCHANGED <<now, host, traffic, opened, clashed, cl>>

Kill(k) ==
    /\ tr[k] # Idle
    /\ tr' = [tr EXCEPT ![k] = Idle]
    /\ clashed' = TRUE /\ last' = NoPins
    /\ UNCHANGED <<now, host, traffic, opened, known, cl>>

-----------------------------------------------------------------------------
(* The middleware: SizeLimitMiddleware, then RateLimitMiddleware, whose key *)
(* is the same for every request: no handler has run yet that would set     *)
(* client_fingerprint.                                                      *)

Smaller(a, b) == IF a < b THEN a ELSE b

(* Mutant: the refill is not capped. *)
RefilledUncapped == bucket.tokens + (now - bucket.last) * RATE

Refilled == Smaller(CAPACITY, bucket.tokens + (now - bucket.last) * RATE)

Allowed == /\ Refilled >= COST
           /\ bucket' = [tokens |-> Refilled - COST, last |-> now]
           /\ level' = [r \in Spans |-> level[r] + COST]

Limited == /\ Refilled < COST
           /\ bucket' = [tokens |-> Refilled, last |-> now]
           /\ UNCHANGED level

(* Any other request, whatever its client *)
OtherRequest(size) ==
    /\ Up /\ size <= MAX_BYTES
    /\ Allowed \/ Limited
    /\ UNCHANGED <<now, host, through, opened, pins, cl>>

Tick == /\ now < MaxTime
        /\ now' = now + 1
        /\ level' = [r \in Spans |-> IF level[r] > RATE THEN level[r] - RATE ELSE 0]
        /\ UNCHANGED <<host, bucket, through, opened, pins, cl>>

-----------------------------------------------------------------------------
(* The handshake *)

(* build_handshake_request: signed, with the client's time *)
Hello(policy) == [pc |-> "sent", pin |-> known[Home], ts |-> now, policy |-> policy]

(* SecureLLMClient looks up the pin; _do_handshake sends its request        *)
Connect(c, policy) ==
    /\ cl[c] = Idle
    /\ known[Home] # Absent
    /\ Cardinality(opened) < MaxHandshakes
    /\ cl' = [cl EXCEPT ![c] = Hello(policy)]
    /\ UNCHANGED <<now, host, traffic, opened, pins>>

(* full_transcript; the ephemeral keys and the session id are new every     *)
(* time, the number of the session stands for all three                     *)
Transcript(c, ts, xpub, n) == <<c, ts, xpub, n>>

(* The keystream: from the two shares and the transcript *)
SessionKeys(xpair, c, transcript) == [dh1 |-> transcript[4], dh2 |-> {xpair, c}, salt |-> transcript]

(* Mutant: the server puts its own time into the transcript. *)
ServerTimestampNow(c) == now

ServerTimestamp(c) == cl[c].ts

(* AttestationBackend.generate: bound to the transcript; the measurement is *)
(* "none" where the backend gives no report at all.                         *)
Report(transcript) == [measurement |-> proc["server"].backend, userdata |-> transcript]

(* perform_handshake after its tests *)
Answered(c) ==
    LET id == proc["server"].id
        n == Cardinality(opened) + 1
        t == Transcript(c, ServerTimestamp(c), id.xpub, n)
    IN  [pc |-> "answered", pin |-> cl[c].pin, ts |-> cl[c].ts, policy |-> cl[c].policy,
         n |-> n, xpub |-> id.xpub, epub |-> id.epub,
         sig |-> [by |-> id.e, of |-> t], prefixes |-> SessionKeys(id.x, c, t),
         report |-> Report(t)]

WithinSkew(ts) == now - ts <= SKEW /\ ts - now <= SKEW

ServerAnswers(c) ==
    /\ Up /\ cl[c].pc = "sent"
    /\ Allowed /\ through' = through \cup {c}
    /\ WithinSkew(cl[c].ts)
    /\ cl' = [cl EXCEPT ![c] = Answered(c)]
    /\ opened' = opened \cup {[client |-> c, n |-> Answered(c).n, keys |-> Answered(c).prefixes,
                               identity |-> proc["server"].id]}
    /\ UNCHANGED <<now, host, pins>>

(* CLOCK_SKEW; 429 *)
ServerRefuses(c) ==
    /\ Up /\ cl[c].pc = "sent"
    /\ \/ Allowed /\ ~WithinSkew(cl[c].ts) /\ through' = through \cup {c}
       \/ Limited /\ UNCHANGED through
    /\ cl' = [cl EXCEPT ![c] = Idle]
    /\ UNCHANGED <<now, host, opened, pins>>

(* derive_session *)

(* Mutant: any server key will do. *)
KeyUnchecked(r) == TRUE

KeyMatches(r) == r.xpub = r.pin
Mine(c) == Transcript(c, cl[c].ts, cl[c].xpub, cl[c].n)
SignatureValid(c) == cl[c].sig = [by |-> cl[c].epub, of |-> Mine(c)]

(* verify: NoneVerifier takes any report but can show no measurement; the   *)
(* mock wants a report of this transcript and with the pinned measurement.  *)
Verifies(policy, report, transcript) ==
    \/ policy.verifier = "none" /\ policy.pinned = "none"
    \/ /\ policy.verifier = "mock"
       /\ report.userdata = transcript
       /\ policy.pinned \in {"none", report.measurement}

(* Without a backend there is no report, which is no error unless the       *)
(* client insists on one.                                                   *)
AttestationOK(c) ==
    IF cl[c].report.measurement = "none" THEN ~cl[c].policy.required
    ELSE Verifies(cl[c].policy, cl[c].report, Mine(c))

PrefixesMatch(c) == cl[c].prefixes = SessionKeys(cl[c].xpub, c, Mine(c))

Accepts(c) == /\ KeyMatches(cl[c]) /\ SignatureValid(c)
              /\ AttestationOK(c) /\ PrefixesMatch(c)

Derive(c) ==
    /\ cl[c].pc = "answered"
    /\ cl' = [cl EXCEPT ![c] =
                IF Accepts(c)
                THEN [pc |-> "up", n |-> cl[c].n, pin |-> cl[c].pin, policy |-> cl[c].policy,
                      keys |-> SessionKeys(cl[c].xpub, c, Mine(c))]
                ELSE Idle]
    /\ UNCHANGED <<now, host, traffic, opened, pins>>

(* A timeout, a lost answer, the end of the client *)
GiveUp(c) ==
    /\ cl[c] # Idle
    /\ cl' = [cl EXCEPT ![c] = Idle]
    /\ UNCHANGED <<now, host, traffic, opened, pins>>

Next ==
    \/ Tick
    \/ \E p \in Procs, b \in Backends : StartInit(p, b)
    \/ \E b \in Backends : StartLoad(b)
    \/ \E p \in Procs : Create(p) \/ Fill(p) \/ Crash(p)
    \/ Boot \/ Rotate
    \/ \E k \in Trusters, h \in Hosts : Load(k, h)
    \/ \E k \in Trusters : Truncate(k) \/ WriteRows(k) \/ Kill(k)
    \/ \E size \in Sizes : OtherRequest(size)
    \/ \E c \in Clients, policy \in Policies : Connect(c, policy)
    \/ \E c \in Clients : ServerAnswers(c) \/ ServerRefuses(c) \/ Derive(c) \/ GiveUp(c)

Spec == Init /\ [][Next]_vars

-----------------------------------------------------------------------------
Contents == {Absent, Torn} \cup Identities
Keys == {0} \cup Contents
Pins == {Absent, Other} \cup Identities
Times == 0 .. MaxTime

ServerIdentities == [x : Keys, xpub : Keys, e : Keys, epub : Keys]
Processes == [pc : {"off", "create", "fill", "age", "up"}, n : 0 .. 5,
              key : {0} \cup Identities, id : ServerIdentities, backend : Backends]

Trusts == [pc : {"open", "write"}, host : Hosts, key : Pins, copy : [Hosts -> Pins]]

Transcripts == Clients \X Times \X Keys \X Nat
KeySets == [dh1 : Nat, dh2 : SUBSET (Keys \cup Clients), salt : Transcripts]
Hellos == [pc : {"sent"}, pin : Pins, ts : Times, policy : Policies]
Answers == [pc : {"answered"}, pin : Pins, ts : Times, policy : Policies,
            n : Nat, xpub : Keys, epub : Keys, sig : [by : Keys, of : Transcripts],
            prefixes : KeySets, report : [measurement : Backends, userdata : Transcripts]]
Sessions == [pc : {"up"}, n : Nat, pin : Pins, policy : Policies, keys : KeySets]

TypeOK ==
    /\ now \in Times /\ made \in 0 .. MaxIdentities
    /\ disk \in [Names -> Contents]
    /\ proc \in [Procs -> Processes]
    /\ bucket \in [tokens : 0 .. CAPACITY, last : Times]
    /\ level \in [Spans -> Nat] /\ through \subseteq Clients
    /\ opened \subseteq [client : Clients, n : Nat, keys : KeySets, identity : ServerIdentities]
    /\ known \in [Hosts -> Pins] /\ last \in [Hosts -> Pins]
    /\ tr \in [Trusters -> {Idle} \cup Trusts]
    /\ cl \in [Clients -> {Idle} \cup Hellos \cup Answers \cup Sessions]
    /\ clashed \in BOOLEAN

(* The key files never mix two identities, whatever inits, boots and        *)
(* crashes overlap and with whole rotations between them, and no running    *)
(* server has two; at worst a public half is missing                        *)
(* (init_server_identity, load_server_identity).                            *)
NoMixedIdentity ==
    /\ \A f, g \in {"x", "xpub", "e", "epub"} :
          disk[f] \in Identities /\ disk[g] \in Identities => disk[f] = disk[g]
    /\ Up => LET id == proc["server"].id IN
          id.x = id.e /\ id.xpub \in {id.x, Torn} /\ id.epub \in {id.e, Torn}

(* A client that has a session shares its keys with the server, and that    *)
(* server had the secret half of the key the client has pinned (derive_     *)
(* session, perform_handshake).                                             *)
SessionAgreed ==
    \A c \in Clients : cl[c].pc = "up" =>
        \E s \in opened : /\ s.client = c /\ s.n = cl[c].n
                          /\ s.keys = cl[c].keys
                          /\ s.identity.x = cl[c].pin

(* A client with the right pin is never turned away by its own checks,      *)
(* however long the answer was under way, when the server sends no report   *)
(* and the client needs none, or sends one that the client's verifier is    *)
(* there to check and whose measurement is the pinned one, if any           *)
(* (derive_session, perform_handshake).                                     *)
Satisfiable(policy, measurement) ==
    IF measurement = "none" THEN ~policy.required
    ELSE policy.verifier = "mock" /\ policy.pinned \in {"none", measurement}
HonestIsAccepted ==
    \A c \in Clients : cl[c].pc = "answered" =>
        \A s \in opened :
            /\ s.n = cl[c].n
            /\ s.identity = [f \in {"x", "xpub", "e", "epub"} |-> cl[c].pin]
            /\ Satisfiable(cl[c].policy, cl[c].report.measurement)
            => Accepts(c)

(* After trusts that did not overlap the file holds the newest key of every *)
(* host, also when it replaces an older one, and no other is lost (trust).  *)
LastTrustWins == ~clashed /\ Busy = {} => known = last

(* "The transport still rejects an unexpected presence of an attestation    *)
(* field if the verifier is NoneVerifier and attestation_required is false" *)
(* (NoneVerifier, crypto/attestation.py:53-57; derive_session): such a      *)
(* client does not accept an answer that carries a report.                  *)
AbsenceIsContract ==
    \A c \in Clients :
        /\ cl[c].pc = "answered" /\ cl[c].report.measurement # "none"
        /\ cl[c].policy.verifier = "none" /\ ~cl[c].policy.required
        => ~Accepts(c)

(* All clients share one bucket, unlike what rate_limit.py:1 says           *)
(* (OwnBucket).  In no stretch of time does the server let through more     *)
(* than RATE allows and one full bucket, and one more bucket for every      *)
(* restart within the stretch (RateLimitMiddleware._allow).                 *)
RateBound == \A r \in Spans : level[r] <= CAPACITY * (r + 1)

(* "Token-bucket rate limit per client fingerprint" (RateLimitMiddleware,   *)
(* rate_limit.py:1; threat-model.md:17): a client none of whose requests    *)
(* was let through so far is not told to slow down.                         *)
OwnBucket == [][\A c \in Clients : ServerRefuses(c) /\ Limited => c \in through]_vars
=============================================================================
