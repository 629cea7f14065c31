-------------------------- MODULE AdmissionProofs ---------------------------
(***************************************************************************)
(* The safety of Admission for any clients, hosts and trust commands, any  *)
(* bucket and rate, and any number of identities and handshakes.           *)
(***************************************************************************)
EXTENDS Admission, FiniteSetTheorems, TLAPS

(* A process that has got past O_EXCL on the first file *)
Writing(q) == q.pc = "fill" \/ (q.pc = "create" /\ q.n > 1)

(* What it has made of the i-th file by now *)
Progress(q, i) == IF i < q.n THEN q.key
                  ELSE IF i = q.n /\ q.pc = "fill" THEN Torn ELSE Absent
Progressed(d, q) == /\ d["x"] = Progress(q, 1) /\ d["xpub"] = Progress(q, 2)
                    /\ d["e"] = Progress(q, 3) /\ d["epub"] = Progress(q, 4)

(* The first file comes first, the files are of one identity *)
FirstFirst(d) == d["x"] = Absent => d["xpub"] = Absent /\ d["e"] = Absent /\ d["epub"] = Absent
OneIdentity(d) ==
    \A f, g \in {"x", "xpub", "e", "epub"} :
       d[f] \in Identities /\ d[g] \in Identities => d[f] = d[g]

(* A process in its initialisation knows its file and its key; a server     *)
(* that has left it has one identity.                                       *)
InitKnown(q) == q.pc \in {"create", "fill"} => q.n \in 1 .. 5 /\ q.key \in Identities
OfOneIdentity(id) == id.x = id.e /\ id.xpub \in {id.x, Torn} /\ id.epub \in {id.e, Torn}
Loaded(q) == q.pc \in {"age", "up"} => OfOneIdentity(q.id)

(* One process at a time writes the key files, and they are what it has     *)
(* made of them.                                                            *)
HostInv == /\ FirstFirst(disk) /\ OneIdentity(disk)
           /\ \A p \in Procs : /\ InitKnown(proc[p]) /\ Loaded(proc[p])
                               /\ Writing(proc[p]) => Progressed(disk, proc[p])
           /\ \A p, q \in Procs : Writing(proc[p]) /\ Writing(proc[q]) => p = q

(* Until a clash one trust command runs at a time, its copy of the file is  *)
(* the newest, and so is the file unless it has just been cut.              *)
PinsInv == ~clashed => /\ \A k, j \in Busy : k = j
                       /\ \A k \in Busy : tr[k].copy = last
                       /\ (\A k \in Trusters : tr[k].pc # "write") => known = last

(* The tokens in the bucket are what the past requests have left, of one    *)
(* bucket and of another one for every restart looked back over.            *)
RateInv == /\ bucket.last <= now
           /\ \A r \in Spans : level[r] + Refilled <= CAPACITY * (r + 1)

(* The sessions are numbered one after the other. *)
Numbered(ss) == /\ IsFiniteSet(ss)
                /\ \A s \in ss : s.n <= Cardinality(ss)
                /\ \A s, t \in ss : s.n = t.n => s = t

(* An answer is of the session it names, and was made by the server from    *)
(* its identity and the client's own hello.                                 *)
FromServer(c, a, s) ==
    LET id == s.identity
        t == Transcript(c, a.ts, id.xpub, a.n)
    IN  /\ s.client = c /\ s.n = a.n /\ s.keys = a.prefixes
        /\ a.xpub = id.xpub /\ a.epub = id.epub
        /\ a.sig = [by |-> id.e, of |-> t]
        /\ a.prefixes = SessionKeys(id.x, c, t)
        /\ a.report.userdata = t

(* The two ends of a session agree. *)
Agreed(c, a, s) == /\ s.client = c /\ s.n = a.n /\ s.keys = a.keys /\ s.identity.x = a.pin

SessionInv == /\ Numbered(opened)
              /\ \A c \in Clients : cl[c].pc = "answered" => \E s \in opened : FromServer(c, cl[c], s)
              /\ \A c \in Clients : cl[c].pc = "up" => \E s \in opened : Agreed(c, cl[c], s)

(* The parts of the invariant, each about the variables of one party *)
HostOK == /\ made \in 0 .. MaxIdentities /\ disk \in [Names -> Contents]
          /\ proc \in [Procs -> Processes] /\ HostInv
PinsOK == /\ known \in [Hosts -> Pins] /\ last \in [Hosts -> Pins]
          /\ tr \in [Trusters -> {Idle} \cup Trusts] /\ clashed \in BOOLEAN /\ PinsInv
RateOK == /\ now \in Times /\ bucket \in [tokens : 0 .. CAPACITY, last : Times]
          /\ level \in [Spans -> Nat] /\ through \subseteq Clients /\ RateInv
SessionsOK ==
    /\ opened \subseteq [client : Clients, n : Nat, keys : KeySets, identity : ServerIdentities]
    /\ cl \in [Clients -> {Idle} \cup Hellos \cup Answers \cup Sessions] /\ SessionInv

IInv == HostOK /\ PinsOK /\ RateOK /\ SessionsOK

-----------------------------------------------------------------------------
(* The bucket.  What has come in since the last request *)
LEMMA Inflow ==
    ASSUME NEW t \in Nat, NEW l \in Nat, l <= t
    PROVE  /\ (t - l) * RATE \in Nat /\ (t + 1 - l) * RATE = (t - l) * RATE + RATE
<1> DEFINE d == t - l
<1>1. d \in Nat /\ t + 1 - l = d + 1 /\ RATE \in Nat
  BY AdmissionAssumption
<1> HIDE DEF d
<1>2. d * RATE \in Nat /\ (d + 1) * RATE = d * RATE + RATE
  BY <1>1
<1>3. QED
  BY <1>1, <1>2 DEF d

(* One more bucket for every restart *)
LEMMA Allowance ==
    ASSUME NEW r \in Spans
    PROVE  /\ r \in Nat /\ CAPACITY \in Nat /\ CAPACITY * (r + 1) \in Nat
           /\ CAPACITY <= CAPACITY * (r + 1)
           /\ r # 0 => r - 1 \in Spans /\ CAPACITY * (r + 1) = CAPACITY * ((r - 1) + 1) + CAPACITY
<1>1. r \in Nat /\ CAPACITY \in Nat /\ MaxRestarts \in Nat /\ r <= MaxRestarts
  BY AdmissionAssumption DEF Spans
<1>2. CAPACITY * r \in Nat /\ CAPACITY * (r + 1) = CAPACITY * r + CAPACITY
  BY <1>1
<1>3. r # 0 => r - 1 \in Spans /\ (r - 1) + 1 = r
  BY <1>1 DEF Spans
<1> DEFINE a == CAPACITY * r
           b == CAPACITY * (r + 1)
<1>4. r # 0 => CAPACITY * ((r - 1) + 1) = a
  BY <1>3
<1>5. a \in Nat /\ b = a + CAPACITY
  BY <1>2
<1> HIDE DEF a, b
<1>6. b \in Nat /\ CAPACITY <= b
  BY <1>1, <1>5
<1>7. QED
  BY <1>1, <1>3, <1>4, <1>5, <1>6 DEF b

(* What is known of the bucket *)
LEMMA RateFacts ==
    ASSUME RateOK
    PROVE  /\ now \in Nat /\ now <= MaxTime /\ CAPACITY \in Nat
           /\ bucket.tokens \in Nat /\ bucket.tokens <= CAPACITY
           /\ bucket.last \in Nat /\ bucket.last <= now
           /\ Refilled \in 0 .. CAPACITY
           /\ \A r \in Spans : level[r] \in Nat /\ level[r] + Refilled <= CAPACITY * (r + 1)
<1>1. /\ now \in Nat /\ now <= MaxTime /\ CAPACITY \in Nat
      /\ bucket.tokens \in Nat /\ bucket.tokens <= CAPACITY
      /\ bucket.last \in Nat /\ bucket.last <= now
  BY AdmissionAssumption DEF RateOK, RateInv, Times
<1> DEFINE f == (now - bucket.last) * RATE
<1>2. f \in Nat
  BY <1>1, Inflow
<1>3. Refilled = Smaller(CAPACITY, bucket.tokens + f)
  BY DEF Refilled
<1> HIDE DEF f
<1>4. Refilled \in 0 .. CAPACITY
  BY <1>1, <1>2, <1>3 DEF Smaller
<1>5. \A r \in Spans : level[r] \in Nat /\ level[r] + Refilled <= CAPACITY * (r + 1)
  BY DEF RateOK, RateInv
<1>6. QED
  BY <1>1, <1>4, <1>5

(* A bucket that was just used holds what it says. *)
LEMMA JustUsed ==
    ASSUME NEW t \in Nat, t <= MaxTime, NEW n \in 0 .. CAPACITY, now' = t,
           bucket' = [tokens |-> n, last |-> t],
           level' \in [Spans -> Nat], through' \subseteq Clients,
           \A r \in Spans : level'[r] + n <= CAPACITY * (r + 1)
    PROVE  RateOK'
<1>1. /\ bucket'.tokens = n /\ bucket'.last = t
      /\ bucket' \in [tokens : 0 .. CAPACITY, last : Times] /\ now' \in Times
  BY AdmissionAssumption DEF Times
<1>2. (now' - bucket'.last) * RATE = 0
  BY <1>1, AdmissionAssumption
<1>3. Refilled' = n
  BY <1>1, <1>2, AdmissionAssumption DEF Refilled, Smaller
<1>4. bucket'.last <= now'
  BY <1>1
<1>5. RateInv'
  BY <1>3, <1>4 DEF RateInv
<1>6. QED
  BY <1>1, <1>5 DEF RateOK

(* A request takes a token or is turned away. *)
LEMMA RequestKeepsRate ==
    ASSUME RateOK, Allowed \/ Limited, now' = now, through' \subseteq Clients
    PROVE  RateOK'
<1> DEFINE f == Refilled
<1>1. now \in Nat /\ now <= MaxTime /\ f \in 0 .. CAPACITY /\ level \in [Spans -> Nat]
  BY RateFacts DEF RateOK
<1>2. \A r \in Spans : level[r] \in Nat /\ level[r] + f <= CAPACITY * (r + 1)
  BY RateFacts
<1>3. CASE Allowed
  <2>1. /\ f >= COST /\ bucket' = [tokens |-> f - COST, last |-> now]
        /\ level' = [r \in Spans |-> level[r] + COST]
    BY <1>3 DEF Allowed
  <2> HIDE DEF f
  <2>2. COST \in Nat /\ CAPACITY \in Nat
    BY AdmissionAssumption
  <2>3. f - COST \in 0 .. CAPACITY
    BY <1>1, <2>1, <2>2
  <2>4. level' \in [Spans -> Nat]
    BY <1>2, <2>1, <2>2
  <2>5. ASSUME NEW r \in Spans PROVE level'[r] + (f - COST) <= CAPACITY * (r + 1)
    <3>1. level'[r] = level[r] + COST
      BY <2>1
    <3>2. level'[r] + (f - COST) = level[r] + f
      BY <1>1, <1>2, <2>2, <3>1
    <3>3. QED
      BY <1>2, <3>2
  <2>6. QED
    BY <1>1, <2>1, <2>3, <2>4, <2>5, JustUsed
<1>4. CASE Limited
  <2>1. bucket' = [tokens |-> f, last |-> now] /\ level' = level
    BY <1>4 DEF Limited
  <2> HIDE DEF f
  <2>2. QED
    BY <1>1, <1>2, <2>1, JustUsed
<1>5. QED
  BY <1>3, <1>4

(* As time goes on, the bucket fills no faster than the allowance grows. *)
LEMMA TickKeepsRate ==
    ASSUME RateOK, Tick
    PROVE  RateOK'
<1> USE RateFacts
<1>1. /\ now < MaxTime /\ now' = now + 1 /\ bucket' = bucket /\ through' = through
      /\ level' = [r \in Spans |-> IF level[r] > RATE THEN level[r] - RATE ELSE 0]
  BY DEF Tick
<1> DEFINE f == (now - bucket.last) * RATE
           b == bucket.tokens
<1>2. f \in Nat /\ (now + 1 - bucket.last) * RATE = f + RATE
  BY Inflow
<1>3. RATE \in Nat /\ b \in Nat /\ CAPACITY \in Nat /\ level \in [Spans -> Nat]
  BY AdmissionAssumption DEF RateOK
<1>4. Refilled = Smaller(CAPACITY, b + f)
  BY DEF Refilled
<1>5. Refilled' = Smaller(CAPACITY, b + (f + RATE))
  <2>1. Refilled' = Smaller(CAPACITY, b + (now + 1 - bucket.last) * RATE)
    BY <1>1 DEF Refilled
  <2>2. QED
    BY <1>2, <2>1
<1>6. level' \in [Spans -> Nat]
  BY <1>1, <1>3
<1>7. ASSUME NEW r \in Spans PROVE level'[r] + Refilled' <= CAPACITY * (r + 1)
  <2> DEFINE old == level[r]
             new == level'[r]
             top == CAPACITY * (r + 1)
  <2>1. new = IF old > RATE THEN old - RATE ELSE 0
    BY <1>1
  <2>2. old \in Nat /\ old + Smaller(CAPACITY, b + f) <= top
    BY <1>4
  <2>3. top \in Nat /\ CAPACITY <= top
    BY Allowance
  <2> HIDE DEF f, b, old, new, top
  <2>4. new + Smaller(CAPACITY, b + (f + RATE)) <= top
    BY <1>2, <1>3, <2>1, <2>2, <2>3 DEF Smaller
  <2>5. QED
    BY <1>5, <2>4 DEF new, top
<1>8. now' \in Times /\ bucket'.last <= now'
  BY <1>1, AdmissionAssumption DEF Times
<1>9. RateInv'
  BY <1>7, <1>8 DEF RateInv
<1>10. QED
  BY <1>1, <1>6, <1>8, <1>9 DEF RateOK

(* A restart brings a full bucket, and is one more to look back over. *)
LEMMA ForgetsKeepsRate ==
    ASSUME RateOK, Forgets, now' = now
    PROVE  RateOK'
<1> USE RateFacts
<1>1. /\ bucket'.tokens = CAPACITY /\ bucket'.last = 0
      /\ bucket' \in [tokens : 0 .. CAPACITY, last : Times] /\ now' \in Times
      /\ bucket'.last <= now' /\ through' = through
      /\ level' = [r \in Spans |-> IF r = 0 THEN 0 ELSE level[r - 1]]
  BY AdmissionAssumption DEF Times, Forgets, NoBucket
<1> DEFINE f == (now - 0) * RATE
<1>2. f \in Nat
  <2>1. now \in Nat /\ 0 \in Nat /\ 0 <= now
    OBVIOUS
  <2>2. QED
    BY ONLY <2>1, Inflow
<1>3. Refilled' = Smaller(CAPACITY, CAPACITY + f)
  BY <1>1 DEF Refilled
<1> HIDE DEF f
<1>4. Refilled' = CAPACITY
  BY <1>2, <1>3, AdmissionAssumption DEF Smaller
<1>5. ASSUME NEW r \in Spans PROVE level'[r] \in Nat /\ level'[r] + CAPACITY <= CAPACITY * (r + 1)
  <2>1. CASE r = 0
    <3>1. level'[r] = 0
      BY <1>1, <2>1
    <3>2. CAPACITY \in Nat /\ CAPACITY <= CAPACITY * (r + 1)
      BY Allowance
    <3>3. QED
      BY <3>1, <3>2
  <2>2. CASE r # 0
    <3> DEFINE old == level[r - 1]
               top == CAPACITY * ((r - 1) + 1)
    <3>1. r - 1 \in Spans /\ CAPACITY * (r + 1) = top + CAPACITY /\ CAPACITY \in Nat
      BY <2>2, Allowance
    <3>2. top \in Nat
      BY <3>1, Allowance
    <3>3. old \in Nat /\ old + Refilled <= top /\ Refilled \in Nat
      BY <3>1
    <3>4. level'[r] = old
      BY <1>1, <2>2
    <3> HIDE DEF old, top
    <3>5. QED
      BY <3>1, <3>2, <3>3, <3>4
  <2>3. QED
    BY <2>1, <2>2
<1>6. level' \in [Spans -> Nat]
  <2>1. ASSUME NEW r \in Spans PROVE (IF r = 0 THEN 0 ELSE level[r - 1]) \in Nat
    <3>1. level'[r] = IF r = 0 THEN 0 ELSE level[r - 1]
      BY <1>1
    <3>2. level'[r] \in Nat
      BY <1>5
    <3>3. QED
      BY <3>1, <3>2
  <2>2. QED
    BY <1>1, <2>1
<1>7. RateInv'
  BY <1>1, <1>4, <1>5 DEF RateInv
<1>8. QED
  BY <1>1, <1>6, <1>7 DEF RateOK

(* A step that leaves the bucket alone *)
LEMMA SameRate == RateOK /\ UNCHANGED <<now, traffic>> => RateOK'
BY DEF RateOK, RateInv, Refilled, traffic

-----------------------------------------------------------------------------
(* The known-hosts file.  A command that is under way has its record. *)
LEMMA TrustFacts ==
    ASSUME PinsOK
    PROVE  /\ Idle.pc = "idle"
           /\ \A k \in Trusters : tr[k] # Idle => tr[k] \in Trusts
           /\ \A k \in Trusters : tr[k].pc \in {"open", "write"} <=> tr[k] # Idle
           /\ Busy = {} => \A k \in Trusters : tr[k].pc # "write"
<1>1. Idle.pc = "idle"
  BY DEF Idle
<1>2. \A k \in Trusters : tr[k] \in {Idle} \cup Trusts
  BY DEF PinsOK
<1>3. \A r \in Trusts : r.pc \in {"open", "write"}
  BY DEF Trusts
<1>4. QED
  BY <1>1, <1>2, <1>3 DEF Busy

(* A trust command reads the file ... *)
LEMMA LoadKeepsPins ==
    ASSUME PinsOK, disk \in [Names -> Contents], NEW k \in Trusters, NEW h \in Hosts, Load(k, h)
    PROVE  PinsOK'
<1> DEFINE r == [pc |-> "open", host |-> h, key |-> Offered(h), copy |-> known]
<1>1. /\ tr[k] = Idle /\ Offered(h) \notin {Absent, Torn} /\ tr' = [tr EXCEPT ![k] = r]
      /\ clashed' = (clashed \/ Busy # {})
      /\ last' = (IF Busy = {} THEN last ELSE NoPins) /\ known' = known
  BY DEF Load
<1>2. Offered(h) \in Pins
  <2>1. disk["xpub"] \in Contents
    BY DEF Names
  <2>2. QED
    BY <1>1, <2>1 DEF Offered, Contents, Pins
<1>3. r \in Trusts /\ r.copy = known /\ r.pc = "open"
  BY <1>2 DEF Trusts, PinsOK
<1> HIDE DEF r
<1>4. tr' \in [Trusters -> {Idle} \cup Trusts]
  BY <1>1, <1>3 DEF PinsOK
<1>5. NoPins \in [Hosts -> Pins]
  BY DEF NoPins, Pins
<1>6. last' \in [Hosts -> Pins] /\ clashed' \in BOOLEAN
  BY <1>1, <1>5 DEF PinsOK
<1>7. PinsInv'
  <2> SUFFICES ASSUME ~clashed' PROVE /\ \A j, i \in Busy' : j = i
                                      /\ \A j \in Busy' : tr'[j].copy = last'
                                      /\ known' = last'
    BY DEF PinsInv
  <2>1. ~clashed /\ Busy = {} /\ last' = last
    BY <1>1
  <2>2. known = last
    BY <2>1, TrustFacts DEF PinsOK, PinsInv
  <2>3. \A j \in Trusters : tr'[j] = IF j = k THEN r ELSE Idle
    BY <1>1, <2>1 DEF PinsOK, Busy
  <2>4. Busy' \subseteq {k}
    BY <2>3 DEF Busy
  <2>5. QED
    BY <1>1, <1>3, <2>1, <2>2, <2>3, <2>4
<1>8. QED
  BY <1>1, <1>4, <1>6, <1>7 DEF PinsOK

(* ... cuts it ... *)
LEMMA TruncateKeepsPins ==
    ASSUME PinsOK, NEW k \in Trusters, Truncate(k)
    PROVE  PinsOK'
<1> DEFINE r == [tr[k] EXCEPT !.pc = "write"]
<1>1. tr[k].pc = "open" /\ known' = NoPins /\ tr' = [tr EXCEPT ![k] = r]
      /\ last' = last /\ clashed' = clashed
  BY DEF Truncate
<1>2. tr[k] \in Trusts /\ tr[k] # Idle
  BY <1>1, TrustFacts
<1>3. r \in Trusts /\ r.copy = tr[k].copy /\ r.pc = "write"
  BY <1>2 DEF Trusts
<1> HIDE DEF r
<1>4. r # Idle
  BY <1>3, TrustFacts
<1>5. tr' \in [Trusters -> {Idle} \cup Trusts]
  BY <1>1, <1>3 DEF PinsOK
<1>6. \A j \in Trusters : tr'[j] = IF j = k THEN r ELSE tr[j]
  BY <1>1 DEF PinsOK
<1>7. Busy' = Busy
  BY <1>2, <1>4, <1>6 DEF Busy
<1>8. \A j \in Busy : tr'[j].copy = tr[j].copy
  BY <1>3, <1>6 DEF Busy
<1>9. PinsInv'
  BY <1>1, <1>3, <1>6, <1>7, <1>8 DEF PinsOK, PinsInv
<1>10. NoPins \in [Hosts -> Pins]
  BY DEF NoPins, Pins
<1>11. QED
  BY <1>1, <1>5, <1>9, <1>10 DEF PinsOK

(* ... and writes the rows. *)
LEMMA WriteKeepsPins ==
    ASSUME PinsOK, NEW k \in Trusters, WriteRows(k)
    PROVE  PinsOK'
<1>1. /\ tr[k].pc = "write" /\ known' = Rows(k) /\ tr' = [tr EXCEPT ![k] = Idle]
      /\ last' = (IF clashed THEN last ELSE [last EXCEPT ![tr[k].host] = tr[k].key])
      /\ clashed' = clashed
  BY DEF WriteRows
<1>2. tr[k] \in Trusts /\ tr[k] # Idle
  BY <1>1, TrustFacts
<1>3. tr[k].copy \in [Hosts -> Pins] /\ tr[k].host \in Hosts /\ tr[k].key \in Pins
  BY <1>2 DEF Trusts
<1>4. known' \in [Hosts -> Pins] /\ last' \in [Hosts -> Pins]
  BY <1>1, <1>3 DEF PinsOK, Rows
<1>5. tr' \in [Trusters -> {Idle} \cup Trusts]
  BY <1>1 DEF PinsOK
<1>6. PinsInv'
  <2> SUFFICES ASSUME ~clashed' PROVE Busy' = {} /\ known' = last'
    BY DEF PinsInv
  <2>1. ~clashed /\ k \in Busy
    BY <1>1, <1>2 DEF Busy
  <2>2. Busy = {k} /\ tr[k].copy = last
    BY <2>1 DEF PinsOK, PinsInv
  <2>3. \A j \in Trusters : tr'[j] = Idle
    BY <1>1, <2>2 DEF PinsOK, Busy
  <2>4. QED
    BY <1>1, <2>1, <2>2, <2>3 DEF Busy, Rows
<1>7. QED
  BY <1>1, <1>4, <1>5, <1>6 DEF PinsOK

(* A command is killed. *)
LEMMA KillKeepsPins ==
    ASSUME PinsOK, NEW k \in Trusters, Kill(k)
    PROVE  PinsOK'
<1>1. NoPins \in [Hosts -> Pins]
  BY DEF NoPins, Pins
<1>2. QED
  BY <1>1 DEF Kill, PinsOK, PinsInv

(* A step that leaves the pins alone *)
LEMMA SamePins == PinsOK /\ UNCHANGED pins => PinsOK'
BY DEF PinsOK, PinsInv, Busy, pins
-----------------------------------------------------------------------------
(* The key files.  The files are written in their order. *)
LEMMA FileIs ==
    ASSUME NEW p \in Procs, proc[p].n \in 1 .. 5
    PROVE  /\ File(p) \in Names
           /\ proc[p].n = 1 <=> File(p) = "x"
           /\ proc[p].n = 2 <=> File(p) = "xpub"
           /\ proc[p].n = 3 <=> File(p) = "e"
           /\ proc[p].n = 4 <=> File(p) = "epub"
           /\ proc[p].n = 5 <=> File(p) = "age"
<1> DEFINE n == proc[p].n
<1>1. n = 1 \/ n = 2 \/ n = 3 \/ n = 4 \/ n = 5
  OBVIOUS
<1>2. File(p) = Files[n]
  BY DEF File
<1> HIDE DEF n
<1>3. Files[1] = "x" /\ Files[2] = "xpub" /\ Files[3] = "e" /\ Files[4] = "epub" /\ Files[5] = "age"
  BY DEF Files
<1>4. QED
  BY <1>1, <1>2, <1>3 DEF Names, n

(* What is known of a process and of the files *)
LEMMA HostFacts ==
    ASSUME HostOK, NEW p \in Procs
    PROVE  /\ proc[p] \in Processes /\ InitKnown(proc[p]) /\ Loaded(proc[p])
           /\ Writing(proc[p]) => Progressed(disk, proc[p]) /\ disk["x"] # Absent
           /\ FirstFirst(disk) /\ OneIdentity(disk)
           /\ disk \in [Names -> Contents] /\ made \in 0 .. MaxIdentities
           /\ Absent \notin Identities /\ Torn \notin Identities /\ Absent # Torn
<1>1. Absent \notin Identities /\ Torn \notin Identities /\ Absent # Torn
  BY AdmissionAssumption DEF Identities
<1>2. /\ proc[p] \in Processes /\ InitKnown(proc[p]) /\ Loaded(proc[p])
      /\ Writing(proc[p]) => Progressed(disk, proc[p])
      /\ FirstFirst(disk) /\ OneIdentity(disk)
      /\ disk \in [Names -> Contents] /\ made \in 0 .. MaxIdentities
  BY DEF HostOK, HostInv
<1>3. ASSUME Writing(proc[p]) PROVE disk["x"] # Absent
  <2> DEFINE q == proc[p]
  <2>1. q.n \in 1 .. 5 /\ q.key \in Identities /\ disk["x"] = Progress(q, 1) /\ Writing(q)
    BY <1>2, <1>3 DEF Writing, InitKnown, Progressed
  <2> HIDE DEF q
  <2>2. QED
    BY <1>1, <2>1 DEF Progress, Writing
<1>4. QED
  BY <1>1, <1>2, <1>3

(* A step of one process, whatever it makes of the files *)
LEMMA HostStep ==
    ASSUME HostOK, NEW p \in Procs, NEW q \in Processes, Goes(p, q),
           NEW d \in [Names -> Contents], disk' = d, made' \in 0 .. MaxIdentities,
           FirstFirst(d), OneIdentity(d), InitKnown(q), Loaded(q),
           Writing(q) => Progressed(d, q),
           \A r \in Procs \ {p} : Writing(proc[r]) => ~Writing(q) /\ Progressed(d, proc[r])
    PROVE  HostOK'
<1>1. /\ proc \in [Procs -> Processes]
      /\ \A r \in Procs : /\ InitKnown(proc[r]) /\ Loaded(proc[r])
      /\ \A r, s \in Procs : Writing(proc[r]) /\ Writing(proc[s]) => r = s
  BY DEF HostOK, HostInv
<1>2. /\ proc' \in [Procs -> Processes] /\ proc'[p] = q
      /\ \A r \in Procs \ {p} : proc'[r] = proc[r]
  BY <1>1 DEF Goes
<1>3. \A r \in Procs : /\ InitKnown(proc'[r]) /\ Loaded(proc'[r])
                       /\ Writing(proc'[r]) => Progressed(d, proc'[r])
  BY <1>1, <1>2
<1>4. \A r, s \in Procs : Writing(proc'[r]) /\ Writing(proc'[s]) => r = s
  BY <1>1, <1>2
<1>5. HostInv'
  BY <1>3, <1>4 DEF HostInv
<1>6. QED
  BY <1>2, <1>5 DEF HostOK

(* A process that writes nothing *)
LEMMA QuietStep ==
    ASSUME HostOK, NEW p \in Procs, NEW q \in Processes, Goes(p, q), disk' = disk,
           made' \in 0 .. MaxIdentities, InitKnown(q), Loaded(q), ~Writing(q)
    PROVE  HostOK'
<1>1. \A r \in Procs : Writing(proc[r]) => Progressed(disk, proc[r])
  BY HostFacts
<1>2. QED
  BY <1>1, HostFacts, HostStep

(* A process that ends *)
LEMMA OffFacts == Off \in Processes /\ InitKnown(Off) /\ Loaded(Off) /\ ~Writing(Off)
<1>1. Off.pc = "off"
  BY DEF Off
<1>2. NoIdentity \in ServerIdentities
  BY DEF NoIdentity, ServerIdentities, Keys
<1>3. Off \in Processes
  BY <1>2, AdmissionAssumption DEF Off, Processes
<1>4. QED
  BY <1>1, <1>3 DEF InitKnown, Loaded, Writing

(* The last file is there: the server goes on with what it has generated.   *)
LEMMA InitialisedFacts ==
    ASSUME HostOK, NEW p \in Procs, proc[p].pc \in {"create", "fill"}
    PROVE  /\ Initialised(p) \in Processes /\ InitKnown(Initialised(p))
           /\ Loaded(Initialised(p)) /\ ~Writing(Initialised(p))
<1>1. proc[p] \in Processes /\ proc[p].key \in Identities
  BY HostFacts DEF InitKnown
<1> DEFINE g == Generated(p)
           q == [proc[p] EXCEPT !.pc = "age", !.id = g]
<1>2. g \in ServerIdentities /\ OfOneIdentity(g)
  BY <1>1 DEF Generated, ServerIdentities, OfOneIdentity, Keys, Contents
<1> HIDE DEF g
<1>3. q \in Processes /\ q.pc = "age" /\ q.id = g
  BY <1>1, <1>2 DEF Processes
<1>4. Initialised(p) = IF p = "server" THEN q ELSE Off
  BY DEF Initialised, g
<1> HIDE DEF q
<1>5. InitKnown(q) /\ Loaded(q) /\ ~Writing(q)
  BY <1>2, <1>3 DEF InitKnown, Loaded, Writing
<1>6. QED
  BY <1>3, <1>4, <1>5, OffFacts

(* The start of init_server_identity *)
LEMMA StartInitKeepsHost ==
    ASSUME HostOK, NEW p \in Procs, NEW b \in Backends, StartInit(p, b)
    PROVE  HostOK'
<1> DEFINE q == [Off EXCEPT !.pc = "create", !.n = 1, !.key = made + 1, !.backend = b]
<1>1. made < MaxIdentities /\ made' = made + 1 /\ Goes(p, q) /\ disk' = disk
  BY DEF StartInit
<1>2. made + 1 \in Identities /\ made' \in 0 .. MaxIdentities
  BY <1>1, HostFacts, AdmissionAssumption DEF Identities
<1>3. q \in Processes /\ q.pc = "create" /\ q.n = 1 /\ q.key = made + 1
  <2> DEFINE n == 1
             k == made + 1
  <2>1. n \in 0 .. 5 /\ k \in {0} \cup Identities
    BY <1>2
  <2>2. q = [Off EXCEPT !.pc = "create", !.n = n, !.key = k, !.backend = b]
    OBVIOUS
  <2> HIDE DEF n, k, q
  <2>3. q \in Processes /\ q.pc = "create" /\ q.n = n /\ q.key = k
    BY <2>1, <2>2, OffFacts DEF Processes
  <2>4. QED
    BY <2>3 DEF n, k
<1> HIDE DEF q
<1>4. InitKnown(q) /\ Loaded(q) /\ ~Writing(q)
  BY <1>2, <1>3 DEF InitKnown, Loaded, Writing
<1>5. QED
  BY <1>1, <1>2, <1>3, <1>4, QuietStep

(* load_server_identity reads one identity. *)
LEMMA StartLoadKeepsHost ==
    ASSUME HostOK, NEW b \in Backends, StartLoad(b)
    PROVE  HostOK'
<1> DEFINE id == [x |-> disk["x"], xpub |-> disk["xpub"], e |-> disk["e"], epub |-> disk["epub"]]
           q == [Off EXCEPT !.pc = "age", !.backend = b, !.id = id]
<1>1. Readable /\ Goes("server", q) /\ disk' = disk /\ made' = made
  BY DEF StartLoad
<1>2. "server" \in Procs
  BY DEF Procs
<1>3. /\ disk["x"] \in Identities /\ disk["e"] \in Identities
      /\ disk["xpub"] \in {Torn} \cup Identities /\ disk["epub"] \in {Torn} \cup Identities
  BY <1>1, <1>2, HostFacts DEF Readable, Names, Contents
<1>4. id \in ServerIdentities
  BY <1>3 DEF ServerIdentities, Keys, Contents
<1>5. OfOneIdentity(id)
  BY <1>2, <1>3, HostFacts DEF OfOneIdentity, OneIdentity
<1> HIDE DEF id
<1>6. q \in Processes /\ q.pc = "age" /\ q.id = id
  BY <1>4, OffFacts DEF Processes
<1> HIDE DEF q
<1>7. InitKnown(q) /\ Loaded(q) /\ ~Writing(q)
  BY <1>5, <1>6 DEF InitKnown, Loaded, Writing
<1>8. QED
  BY <1>1, <1>2, <1>6, <1>7, HostFacts, QuietStep

(* The rest of the boot, and the end of a process *)
LEMMA BootKeepsHost ==
    ASSUME HostOK, Boot
    PROVE  HostOK'
<1> DEFINE q == [proc["server"] EXCEPT !.pc = "up", !.n = 0, !.key = 0]
<1>1. "server" \in Procs
  BY DEF Procs
<1>2. /\ proc["server"].pc = "age" /\ disk' = disk /\ made' = made
      /\ Goes("server", q) \/ Goes("server", Off)
  BY DEF Boot
<1>3. proc["server"] \in Processes /\ Loaded(proc["server"])
  BY <1>1, HostFacts
<1>4. q \in Processes /\ q.pc = "up" /\ q.id = proc["server"].id
  <2> DEFINE z == 0
  <2>1. z \in 0 .. 5 /\ z \in {0} \cup Identities
    OBVIOUS
  <2>2. q = [proc["server"] EXCEPT !.pc = "up", !.n = z, !.key = z]
    OBVIOUS
  <2> HIDE DEF z, q
  <2>3. QED
    BY <1>3, <2>1, <2>2 DEF Processes
<1> HIDE DEF q
<1>5. InitKnown(q) /\ Loaded(q) /\ ~Writing(q)
  BY <1>2, <1>3, <1>4 DEF InitKnown, Loaded, Writing
<1>6. QED
  BY <1>1, <1>2, <1>4, <1>5, OffFacts, HostFacts, QuietStep

(* A process that dies leaves the files as they are. *)
LEMMA CrashKeepsHost ==
    ASSUME HostOK, NEW p \in Procs, Crash(p)
    PROVE  HostOK'
BY OffFacts, HostFacts, QuietStep DEF Crash

(* A rotation takes the four files away while nothing runs. *)
LEMMA RotateKeepsHost ==
    ASSUME HostOK, Rotate
    PROVE  HostOK'
<1>1. \A p \in Procs : proc[p].pc = "off"
  BY DEF Rotate
<1>2. \A p \in Procs : ~Writing(proc[p])
  BY <1>1 DEF Writing
<1>3. disk \in [Names -> Contents] /\ Absent \notin Identities
  BY HostFacts, AdmissionAssumption DEF HostOK, Identities
<1>4. /\ disk' \in [Names -> Contents]
      /\ disk'["x"] = Absent /\ disk'["xpub"] = Absent
      /\ disk'["e"] = Absent /\ disk'["epub"] = Absent
  BY <1>3 DEF Rotate, Names, Contents
<1>5. FirstFirst(disk') /\ OneIdentity(disk')
  BY <1>3, <1>4 DEF FirstFirst, OneIdentity
<1>6. proc' = proc /\ made' = made
  BY DEF Rotate
<1>7. QED
  BY <1>2, <1>4, <1>5, <1>6 DEF HostOK, HostInv

(* A step that leaves the host alone *)
LEMMA SameHost == HostOK /\ UNCHANGED host => HostOK'
BY DEF HostOK, HostInv, host
(* A file is created: the first only if there is none, and then nobody else *)
(* is writing.                                                              *)
LEMMA TearKeepsHost ==
    ASSUME HostOK, NEW p \in Procs, proc[p].pc = "create", ~Refuses(p), made' = made,
           disk' = [disk EXCEPT ![File(p)] = Torn], Goes(p, [proc[p] EXCEPT !.pc = "fill"])
    PROVE  HostOK'
<1> DEFINE r == proc[p]
           q == [r EXCEPT !.pc = "fill"]
           d == disk'
<1>1. /\ r \in Processes /\ r.n \in 1 .. 5 /\ r.key \in Identities
      /\ FirstFirst(disk) /\ OneIdentity(disk) /\ disk \in [Names -> Contents]
      /\ made \in 0 .. MaxIdentities
      /\ Absent \notin Identities /\ Torn \notin Identities /\ Absent # Torn
  BY HostFacts DEF InitKnown
<1>2. File(p) \in Names
  BY <1>1, FileIs
<1>3. d \in [Names -> Contents] /\ \A f \in Names : d[f] = IF f = File(p) THEN Torn ELSE disk[f]
  BY <1>1, <1>2 DEF Contents
<1>4. q \in Processes /\ q.pc = "fill" /\ q.n = r.n /\ q.key = r.key
  BY <1>1 DEF Processes
<1> HIDE DEF q, d
<1>5. Writing(r) \/ (r.n = 1 /\ disk["x"] = Absent)
  BY <1>1, FileIs DEF Writing, Refuses, Secret
<1>6. \A s \in Procs \ {p} : ~Writing(proc[s])
  <2>1. CASE Writing(r)
    BY <2>1 DEF HostOK, HostInv
  <2>2. CASE disk["x"] = Absent
    BY <2>2, HostFacts
  <2>3. QED
    BY <1>5, <2>1, <2>2
<1>7. Progressed(disk, r) \/ (r.n = 1 /\ disk["x"] = Absent /\ disk["xpub"] = Absent
                              /\ disk["e"] = Absent /\ disk["epub"] = Absent)
  BY <1>1, <1>5, HostFacts DEF FirstFirst
<1>8. /\ disk["x"] = IF 1 < r.n THEN r.key ELSE Absent
      /\ disk["xpub"] = IF 2 < r.n THEN r.key ELSE Absent
      /\ disk["e"] = IF 3 < r.n THEN r.key ELSE Absent
      /\ disk["epub"] = IF 4 < r.n THEN r.key ELSE Absent
  <2>1. CASE Progressed(disk, r)
    BY <1>1, <2>1 DEF Progressed, Progress
  <2>2. QED
    BY <1>7, <2>1
<1>9. Progressed(d, q)
  <2>1. \A f \in {"x", "xpub", "e", "epub"} : d[f] = IF f = File(p) THEN Torn ELSE disk[f]
    BY <1>3 DEF Names
  <2>2. /\ r.n = 1 <=> File(p) = "x"
        /\ r.n = 2 <=> File(p) = "xpub"
        /\ r.n = 3 <=> File(p) = "e"
        /\ r.n = 4 <=> File(p) = "epub"
    BY <1>1, FileIs
  <2> DEFINE n == r.n
  <2>3. /\ d["x"] = IF n = 1 THEN Torn ELSE IF 1 < n THEN r.key ELSE Absent
        /\ d["xpub"] = IF n = 2 THEN Torn ELSE IF 2 < n THEN r.key ELSE Absent
        /\ d["e"] = IF n = 3 THEN Torn ELSE IF 3 < n THEN r.key ELSE Absent
        /\ d["epub"] = IF n = 4 THEN Torn ELSE IF 4 < n THEN r.key ELSE Absent
    BY <1>8, <2>1, <2>2
  <2>4. n \in 1 .. 5 /\ q.n = n /\ q.key = r.key /\ q.pc = "fill"
    BY <1>1, <1>4
  <2> HIDE DEF n
  <2>5. QED
    BY <2>3, <2>4 DEF Progressed, Progress
<1>10. FirstFirst(d) /\ OneIdentity(d)
  <2>1. d["x"] # Absent /\ \A f \in {"x", "xpub", "e", "epub"} : d[f] \in {r.key, Torn, Absent}
    BY <1>1, <1>4, <1>9 DEF Progressed, Progress
  <2>2. QED
    BY <1>1, <2>1 DEF FirstFirst, OneIdentity
<1>11. InitKnown(q) /\ Loaded(q)
  BY <1>1, <1>4 DEF InitKnown, Loaded
<1>12. Goes(p, q) /\ disk' = d /\ made' \in 0 .. MaxIdentities
  BY <1>1 DEF q, d
<1>13. QED
  BY <1>3, <1>4, <1>6, <1>9, <1>10, <1>11, <1>12, HostStep

(* The next file of an initialisation: there already, refused, or created.  *)
LEMMA CreateKeepsHost ==
    ASSUME HostOK, NEW p \in Procs, Create(p)
    PROVE  HostOK'
<1>1. proc[p].pc = "create" /\ made' = made /\ made \in 0 .. MaxIdentities
  BY HostFacts DEF Create
<1>2. CASE Goes(p, Initialised(p)) /\ disk' = disk
  BY <1>1, <1>2, InitialisedFacts, QuietStep
<1>3. CASE Goes(p, Off) /\ disk' = disk
  BY <1>1, <1>3, OffFacts, QuietStep
<1>4. CASE /\ ~Refuses(p) /\ disk' = [disk EXCEPT ![File(p)] = Torn]
           /\ Goes(p, [proc[p] EXCEPT !.pc = "fill"])
  BY <1>1, <1>4, TearKeepsHost
<1>5. QED
  BY <1>2, <1>3, <1>4 DEF Create

(* A file that was created is written: it is of the identity of those       *)
(* before it, and there are none after it.                                  *)
LEMMA FillKeepsHost ==
    ASSUME HostOK, NEW p \in Procs, Fill(p)
    PROVE  HostOK'
<1> DEFINE r == proc[p]
           d == disk'
<1>1. /\ r \in Processes /\ r.n \in 1 .. 5 /\ r.key \in Identities
      /\ r.pc = "fill" /\ Writing(r) /\ Progressed(disk, r)
      /\ disk \in [Names -> Contents] /\ made \in 0 .. MaxIdentities /\ made' = made
      /\ Absent \notin Identities /\ Torn \notin Identities /\ Absent # Torn
  BY HostFacts DEF InitKnown, Writing, Fill
<1>2. File(p) \in Names
  BY <1>1, FileIs
<1>3. \A s \in Procs \ {p} : ~Writing(proc[s])
  BY <1>1 DEF HostOK, HostInv
<1>4. CASE r.n = 5
  <2>1. File(p) = "age" /\ Goes(p, Initialised(p))
    BY <1>1, <1>4, FileIs DEF Fill
  <2>2. d \in [Names -> Contents] /\ \A f \in Names \ {"age"} : d[f] = disk[f]
    BY <1>1, <2>1 DEF Fill, Contents
  <2>3. d["x"] = disk["x"] /\ d["xpub"] = disk["xpub"] /\ d["e"] = disk["e"] /\ d["epub"] = disk["epub"]
    BY <2>2 DEF Names
  <2> HIDE DEF d
  <2>4. FirstFirst(d) /\ OneIdentity(d)
    BY <2>3, HostFacts DEF FirstFirst, OneIdentity
  <2>5. disk' = d /\ made' \in 0 .. MaxIdentities
    BY <1>1 DEF d
  <2> DEFINE q == Initialised(p)
  <2>6. q \in Processes /\ InitKnown(q) /\ Loaded(q) /\ ~Writing(q) /\ Goes(p, q)
    BY <1>1, <2>1, InitialisedFacts
  <2> HIDE DEF q
  <2>7. QED
    BY <1>3, <2>2, <2>4, <2>5, <2>6, HostStep
<1>5. CASE r.n # 5
  <2> DEFINE n == r.n
             m == n + 1
             q == [r EXCEPT !.pc = "create", !.n = m]
  <2>1. /\ File(p) # "age" /\ disk' = [disk EXCEPT ![File(p)] = r.key] /\ Goes(p, q)
    BY <1>1, <1>5, FileIs DEF Fill
  <2>2. d \in [Names -> Contents] /\ \A f \in Names : d[f] = IF f = File(p) THEN r.key ELSE disk[f]
    BY <1>1, <1>2, <2>1 DEF Contents
  <2>3. n \in 1 .. 4 /\ m \in 2 .. 5 /\ m \in 0 .. 5 /\ m = n + 1
    BY <1>1, <1>5
  <2>4. disk' = d /\ made' \in 0 .. MaxIdentities
    BY <1>1
  <2> HIDE DEF d, m
  <2>5. q \in Processes /\ q.pc = "create" /\ q.n = m /\ q.key = r.key
    BY <1>1, <2>3 DEF Processes
  <2> HIDE DEF q
  <2>6. Progressed(d, q)
    <3>1. \A f \in {"x", "xpub", "e", "epub"} : d[f] = IF f = File(p) THEN r.key ELSE disk[f]
      BY <2>2 DEF Names
    <3>2. /\ n = 1 <=> File(p) = "x"
          /\ n = 2 <=> File(p) = "xpub"
          /\ n = 3 <=> File(p) = "e"
          /\ n = 4 <=> File(p) = "epub"
      BY <1>1, FileIs
    <3>3. /\ d["x"] = IF n = 1 THEN r.key ELSE Progress(r, 1)
          /\ d["xpub"] = IF n = 2 THEN r.key ELSE Progress(r, 2)
          /\ d["e"] = IF n = 3 THEN r.key ELSE Progress(r, 3)
          /\ d["epub"] = IF n = 4 THEN r.key ELSE Progress(r, 4)
      BY <1>1, <3>1, <3>2 DEF Progressed
    <3>4. \A i \in 1 .. 4 : Progress(q, i) = IF n = i THEN r.key ELSE Progress(r, i)
      <4>1. r.n = n /\ r.pc = "fill"
        BY <1>1
      <4> HIDE DEF n
      <4>2. QED
        BY <2>3, <2>5, <4>1 DEF Progress
    <3>5. QED
      BY <3>3, <3>4 DEF Progressed
  <2>7. FirstFirst(d) /\ OneIdentity(d)
    <3>1. d["x"] # Absent /\ \A f \in {"x", "xpub", "e", "epub"} : d[f] \in {r.key, Torn, Absent}
      <4> HIDE DEF n
      <4> QED BY <1>1, <2>3, <2>5, <2>6 DEF Progressed, Progress
    <3>2. QED
      BY <1>1, <3>1 DEF FirstFirst, OneIdentity
  <2>8. InitKnown(q) /\ Loaded(q)
    BY <1>1, <2>3, <2>5 DEF InitKnown, Loaded
  <2>9. Goes(p, q)
    BY <2>1 DEF q, m
  <2>10. QED
    BY <1>3, <2>2, <2>4, <2>5, <2>6, <2>7, <2>8, <2>9, HostStep
<1>6. QED
  BY <1>4, <1>5
-----------------------------------------------------------------------------
(* The handshake.  A client's state tells what it holds. *)
LEMMA ClientFacts ==
    ASSUME SessionsOK, NEW c \in Clients
    PROVE  /\ cl[c].pc = "sent" => cl[c] \in Hellos
           /\ cl[c].pc = "answered" => cl[c] \in Answers
           /\ Idle.pc = "idle"
<1>1. cl[c] \in {Idle} \cup Hellos \cup Answers \cup Sessions
  BY DEF SessionsOK
<1>2. \A r \in Hellos : r.pc = "sent"
  BY DEF Hellos
<1>3. \A r \in Answers : r.pc = "answered"
  BY DEF Answers
<1>4. \A r \in Sessions : r.pc = "up"
  BY DEF Sessions
<1>5. Idle.pc = "idle"
  BY DEF Idle
<1>6. QED
  BY <1>1, <1>2, <1>3, <1>4, <1>5

(* A step of one client, and perhaps a session more *)
LEMMA ClientStep ==
    ASSUME SessionsOK, NEW c \in Clients,
           NEW a \in {Idle} \cup Hellos \cup Answers \cup Sessions, cl' = [cl EXCEPT ![c] = a],
           opened \subseteq opened', Numbered(opened'),
           opened' \subseteq [client : Clients, n : Nat, keys : KeySets, identity : ServerIdentities],
           a.pc = "answered" => \E s \in opened' : FromServer(c, a, s),
           a.pc = "up" => \E s \in opened' : Agreed(c, a, s)
    PROVE  SessionsOK'
<1>1. /\ cl' \in [Clients -> {Idle} \cup Hellos \cup Answers \cup Sessions]
      /\ cl'[c] = a /\ \A u \in Clients \ {c} : cl'[u] = cl[u]
  BY DEF SessionsOK
<1>2. \A u \in Clients : cl[u].pc = "answered" => \E s \in opened : FromServer(u, cl[u], s)
  BY DEF SessionsOK, SessionInv
<1>3. \A u \in Clients : cl[u].pc = "up" => \E s \in opened : Agreed(u, cl[u], s)
  BY DEF SessionsOK, SessionInv
<1>4. ASSUME NEW u \in Clients, cl'[u].pc = "answered"
      PROVE  \E s \in opened' : FromServer(u, cl'[u], s)
  BY <1>1, <1>2, <1>4
<1>5. ASSUME NEW u \in Clients, cl'[u].pc = "up"
      PROVE  \E s \in opened' : Agreed(u, cl'[u], s)
  BY <1>1, <1>3, <1>5
<1>6. SessionInv'
  BY <1>4, <1>5 DEF SessionInv
<1>7. QED
  BY <1>1, <1>6 DEF SessionsOK

(* A step that opens nothing *)
LEMMA ClientAlone ==
    ASSUME SessionsOK, NEW c \in Clients, NEW a \in {Idle} \cup Hellos \cup Sessions,
           cl' = [cl EXCEPT ![c] = a], opened' = opened,
           a.pc = "up" => \E s \in opened : Agreed(c, a, s)
    PROVE  SessionsOK'
<1>1. a.pc # "answered"
  BY DEF Idle, Hellos, Sessions
<1>2. QED
  BY <1>1, ClientStep DEF SessionsOK, SessionInv

(* A client becomes idle again: it is refused, it gives up. *)
LEMMA IdleKeepsSessions ==
    ASSUME SessionsOK, NEW c \in Clients, cl' = [cl EXCEPT ![c] = Idle], opened' = opened
    PROVE  SessionsOK'
BY ClientAlone, ClientFacts

(* A client looks up its pin and sends its hello. *)
LEMMA ConnectKeepsSessions ==
    ASSUME SessionsOK, PinsOK, RateOK, NEW c \in Clients, NEW policy \in Policies,
           Connect(c, policy)
    PROVE  SessionsOK'
<1> DEFINE a == Hello(policy)
<1>1. cl' = [cl EXCEPT ![c] = a] /\ opened' = opened
  BY DEF Connect
<1>2. known[Home] \in Pins /\ now \in Times
  BY AdmissionAssumption DEF PinsOK, RateOK
<1>3. a \in Hellos /\ a.pc = "sent"
  BY <1>2 DEF Hello, Hellos
<1> HIDE DEF a
<1>4. QED
  BY <1>1, <1>3, ClientAlone

(* Transcripts and keys are what they are said to be. *)
LEMMA HandshakeTypes ==
    ASSUME NEW c \in Clients, NEW ts \in Times, NEW xpub \in Keys, NEW n \in Nat, NEW x \in Keys
    PROVE  /\ Transcript(c, ts, xpub, n) \in Transcripts
           /\ SessionKeys(x, c, Transcript(c, ts, xpub, n)) \in KeySets
<1> DEFINE t == Transcript(c, ts, xpub, n)
<1>1. t \in Transcripts /\ t[4] = n
  BY DEF Transcript, Transcripts
<1> HIDE DEF t
<1>2. SessionKeys(x, c, t) \in KeySets
  BY <1>1 DEF SessionKeys, KeySets
<1>3. QED
  BY <1>1, <1>2 DEF t

(* A session more has the next number. *)
LEMMA NumberedNext ==
    ASSUME NEW ss, Numbered(ss), \A u \in ss : u.n \in Nat, NEW s, s.n = Cardinality(ss) + 1
    PROVE  Numbered(ss \cup {s})
<1> DEFINE k == Cardinality(ss)
<1>1. IsFiniteSet(ss) /\ k \in Nat
  BY FS_CardinalityType DEF Numbered
<1>2. /\ \A u \in ss : u.n <= k
      /\ \A u, v \in ss : u.n = v.n => u = v
      /\ s.n = k + 1
  BY DEF Numbered
<1>3. \A u \in ss : u.n # k + 1
  <2> SUFFICES ASSUME NEW u \in ss, u.n = k + 1 PROVE FALSE
    OBVIOUS
  <2>1. k + 1 <= k
    BY <1>2
  <2> HIDE DEF k
  <2>2. QED
    BY <1>1, <2>1
<1>4. s \notin ss
  BY <1>2, <1>3
<1>5. IsFiniteSet(ss \cup {s}) /\ Cardinality(ss \cup {s}) = k + 1
  BY <1>1, <1>4, FS_AddElement
<1> HIDE DEF k
<1>6. \A u, v \in ss \cup {s} : u.n = v.n => u = v
  BY <1>2, <1>3
<1>7. \A u \in ss \cup {s} : u.n <= k + 1
  BY <1>1, <1>2
<1>8. QED
  BY <1>5, <1>6, <1>7 DEF Numbered
(* The server answers from its identity; the session has the next number.   *)
LEMMA AnswerKeepsSessions ==
    ASSUME SessionsOK, HostOK, NEW c \in Clients, ServerAnswers(c)
    PROVE  SessionsOK'
<1> DEFINE id == proc["server"].id
           k == Cardinality(opened)
           n == k + 1
           ts == cl[c].ts
           t == Transcript(c, ts, id.xpub, n)
           ks == SessionKeys(id.x, c, t)
           m == [measurement |-> proc["server"].backend, userdata |-> t]
           g == [by |-> id.e, of |-> t]
           a == Answered(c)
           s == [client |-> c, n |-> a.n, keys |-> a.prefixes, identity |-> id]
<1>1. cl[c].pc = "sent" /\ cl' = [cl EXCEPT ![c] = a] /\ opened' = opened \cup {s}
  BY DEF ServerAnswers
<1>2. cl[c].pin \in Pins /\ ts \in Times /\ cl[c].policy \in Policies
  BY <1>1, ClientFacts DEF Hellos
<1>3. id \in ServerIdentities /\ proc["server"].backend \in Backends
  BY DEF HostOK, Processes, Procs
<1>4. id.x \in Keys /\ id.xpub \in Keys /\ id.e \in Keys /\ id.epub \in Keys
  BY <1>3 DEF ServerIdentities
<1>5. Numbered(opened) /\ k \in Nat
  BY FS_CardinalityType DEF SessionsOK, SessionInv, Numbered
<1>6. n \in Nat
  BY <1>5
<1>7. a = [pc |-> "answered", pin |-> cl[c].pin, ts |-> ts, policy |-> cl[c].policy,
           n |-> n, xpub |-> id.xpub, epub |-> id.epub, sig |-> g, prefixes |-> ks, report |-> m]
  BY DEF Answered, ServerTimestamp, Report
<1>8. t \in Transcripts /\ ks \in KeySets
  BY <1>2, <1>4, <1>6, HandshakeTypes
<1> HIDE DEF id, n, ts, t, ks, a
<1>9. m \in [measurement : Backends, userdata : Transcripts] /\ m.userdata = t
  BY <1>3, <1>8
<1>10. g \in [by : Keys, of : Transcripts]
  BY <1>4, <1>8
<1> HIDE DEF m, g
<1>11. a \in Answers
  BY <1>2, <1>4, <1>6, <1>7, <1>8, <1>9, <1>10 DEF Answers
<1>12. /\ a.pc = "answered" /\ a.n = n /\ a.ts = ts /\ a.xpub = id.xpub /\ a.epub = id.epub
       /\ a.sig = g /\ a.prefixes = ks /\ a.report = m
  BY <1>7
<1>13. /\ s \in [client : Clients, n : Nat, keys : KeySets, identity : ServerIdentities]
       /\ s.client = c /\ s.n = n /\ s.keys = ks /\ s.identity = id
  BY <1>3, <1>6, <1>8, <1>12
<1> HIDE DEF s
<1>14. FromServer(c, a, s)
  <2>1. t = Transcript(c, a.ts, id.xpub, a.n)
    BY <1>12 DEF t
  <2>2. a.sig = [by |-> id.e, of |-> t] /\ a.prefixes = SessionKeys(id.x, c, t)
    BY <1>12 DEF g, ks
  <2>3. QED
    BY <1>9, <1>12, <1>13, <2>1, <2>2 DEF FromServer
<1>15. Numbered(opened')
  <2>1. s.n = Cardinality(opened) + 1
    BY <1>13 DEF n
  <2>2. \A u \in opened : u.n \in Nat
    BY DEF SessionsOK
  <2>3. Numbered(opened \cup {s})
    BY <1>5, <2>1, <2>2, NumberedNext
  <2>4. QED
    BY <1>1, <2>3
<1>16. opened' \subseteq [client : Clients, n : Nat, keys : KeySets, identity : ServerIdentities]
       /\ opened \subseteq opened' /\ s \in opened'
  BY <1>1, <1>13 DEF SessionsOK
<1>17. QED
  BY <1>1, <1>11, <1>12, <1>14, <1>15, <1>16, ClientStep

(* What the client has accepted is of a server with the pinned key. *)
LEMMA DeriveKeepsSessions ==
    ASSUME SessionsOK, NEW c \in Clients, Derive(c)
    PROVE  SessionsOK'
<1> DEFINE ks == SessionKeys(cl[c].xpub, c, Mine(c))
           a == [pc |-> "up", n |-> cl[c].n, pin |-> cl[c].pin, policy |-> cl[c].policy,
                 keys |-> ks]
<1>1. cl[c].pc = "answered" /\ opened' = opened
      /\ cl' = [cl EXCEPT ![c] = IF Accepts(c) THEN a ELSE Idle]
  BY DEF Derive
<1>2. CASE ~Accepts(c)
  BY <1>1, <1>2, IdleKeepsSessions
<1>3. CASE Accepts(c)
  <2>1. /\ cl[c] \in Answers /\ cl[c].n \in Nat /\ cl[c].pin \in Pins
        /\ cl[c].policy \in Policies /\ cl[c].prefixes \in KeySets
    BY <1>1, ClientFacts DEF Answers
  <2>2. cl[c].prefixes = ks /\ cl[c].xpub = cl[c].pin
    BY <1>3 DEF Accepts, PrefixesMatch, KeyMatches
  <2>3. PICK s \in opened : FromServer(c, cl[c], s)
    BY <1>1 DEF SessionsOK, SessionInv
  <2>4. ks.dh2 = {cl[c].xpub, c}
    BY DEF SessionKeys
  <2>5. cl[c].prefixes.dh2 = {s.identity.x, c}
    BY <2>3 DEF FromServer, SessionKeys
  <2>6. s.identity.x = cl[c].pin
    <3>1. {s.identity.x, c} = {cl[c].xpub, c}
      BY <2>2, <2>4, <2>5
    <3>2. QED
      BY <2>2, <3>1
  <2> HIDE DEF ks
  <2>7. a \in Sessions /\ a.pc = "up" /\ a.n = cl[c].n /\ a.pin = cl[c].pin /\ a.keys = ks
    BY <2>1, <2>2 DEF Sessions
  <2>8. cl' = [cl EXCEPT ![c] = a]
    BY <1>1, <1>3 DEF ks
  <2> HIDE DEF a
  <2>9. s.client = c /\ s.n = cl[c].n /\ s.keys = cl[c].prefixes
    BY <2>3 DEF FromServer
  <2>10. Agreed(c, a, s)
    BY <2>2, <2>6, <2>7, <2>9 DEF Agreed
  <2>11. QED
    BY <1>1, <2>3, <2>7, <2>8, <2>10, ClientAlone
<1>4. QED
  BY <1>2, <1>3

(* A step that leaves the clients and the sessions alone *)
LEMMA SameSessions == SessionsOK /\ UNCHANGED <<opened, cl>> => SessionsOK'
BY DEF SessionsOK, SessionInv

-----------------------------------------------------------------------------
(* Nothing has happened yet. *)
LEMMA InitIInv == Init => IInv
<1> SUFFICES ASSUME Init PROVE IInv
  OBVIOUS
<1>1. HostOK
  <2>1. /\ \A p \in Procs : proc[p] = Off
        /\ proc \in [Procs -> Processes]
    BY OffFacts DEF Init
  <2>2. /\ disk \in [Names -> Contents] /\ made \in 0 .. MaxIdentities
        /\ \A f \in {"x", "xpub", "e", "epub"} : disk[f] = Absent
    BY AdmissionAssumption DEF Init, Names, Contents
  <2>3. Absent \notin Identities
    BY AdmissionAssumption DEF Identities
  <2>4. FirstFirst(disk) /\ OneIdentity(disk)
    BY <2>2, <2>3 DEF FirstFirst, OneIdentity
  <2>5. QED
    BY <2>1, <2>2, <2>4, OffFacts DEF HostOK, HostInv
<1>2. PinsOK
  <2>1. NoPins \in [Hosts -> Pins]
    BY DEF NoPins, Pins
  <2>2. Busy = {}
    BY DEF Init, Busy
  <2>3. QED
    BY <2>1, <2>2 DEF Init, PinsOK, PinsInv
<1>3. RateOK
  <2>1. /\ bucket.tokens = CAPACITY /\ bucket.last = 0 /\ now = 0
        /\ bucket \in [tokens : 0 .. CAPACITY, last : Times] /\ now \in Times
    BY AdmissionAssumption DEF Init, NoBucket, Times
  <2>2. (now - bucket.last) * RATE = 0
    BY <2>1, AdmissionAssumption
  <2>3. Refilled = CAPACITY
    BY <2>1, <2>2, AdmissionAssumption DEF Refilled, Smaller
  <2>4. \A r \in Spans : level[r] = 0
    BY DEF Init
  <2>5. level \in [Spans -> Nat] /\ through \subseteq Clients
    BY DEF Init
  <2>6. ASSUME NEW r \in Spans PROVE level[r] + Refilled <= CAPACITY * (r + 1)
    BY <2>3, <2>4, Allowance
  <2>7. QED
    BY <2>1, <2>5, <2>6 DEF RateOK, RateInv
<1>4. SessionsOK
  <2>1. \A c \in Clients : cl[c] = Idle
    BY DEF Init
  <2>2. Idle.pc = "idle" /\ opened = {} /\ Numbered({})
    BY FS_EmptySet DEF Init, Idle, Numbered
  <2>3. cl \in [Clients -> {Idle} \cup Hellos \cup Answers \cup Sessions]
    BY DEF Init
  <2>4. QED
    BY <2>1, <2>2, <2>3 DEF SessionsOK, SessionInv
<1>5. QED
  BY <1>1, <1>2, <1>3, <1>4 DEF IInv
(* Time, and the server's processes *)
LEMMA HostSteps ==
    ASSUME IInv,
           \/ Tick \/ Boot \/ Rotate
           \/ \E p \in Procs, b \in Backends : StartInit(p, b)
           \/ \E b \in Backends : StartLoad(b)
           \/ \E p \in Procs : Create(p) \/ Fill(p) \/ Crash(p)
    PROVE  IInv'
<1> USE DEF IInv
<1>1. CASE Tick
  <2>1. UNCHANGED <<host, opened, pins, cl>>
    BY <1>1 DEF Tick
  <2>2. QED
    BY <1>1, <2>1, TickKeepsRate, SameHost, SamePins, SameSessions
<1>2. CASE Boot
  <2>1. UNCHANGED <<now, traffic, opened, pins, cl>>
    BY <1>2 DEF Boot
  <2>2. QED
    BY <1>2, <2>1, BootKeepsHost, SameRate, SamePins, SameSessions
<1>3. ASSUME NEW p \in Procs, Crash(p) PROVE IInv'
  <2>1. UNCHANGED <<now, opened, pins, cl>> /\ (UNCHANGED traffic \/ Forgets)
    BY <1>3 DEF Crash
  <2>2. RateOK'
    BY <2>1, SameRate, ForgetsKeepsRate
  <2>3. QED
    BY <1>3, <2>1, <2>2, CrashKeepsHost, SamePins, SameSessions
<1>4. CASE Rotate
  <2>1. UNCHANGED <<now, traffic, opened, pins, cl>>
    BY <1>4 DEF Rotate
  <2>2. QED
    BY <1>4, <2>1, RotateKeepsHost, SameRate, SamePins, SameSessions
<1>5. ASSUME NEW p \in Procs, NEW b \in Backends, StartInit(p, b) \/ StartLoad(b) PROVE IInv'
  <2>1. UNCHANGED <<now, traffic, opened, pins, cl>>
    BY <1>5 DEF StartInit, StartLoad
  <2>2. QED
    BY <1>5, <2>1, StartInitKeepsHost, StartLoadKeepsHost, SameRate, SamePins, SameSessions
<1>6. ASSUME NEW p \in Procs, Create(p) \/ Fill(p) PROVE IInv'
  <2>1. UNCHANGED <<now, traffic, opened, pins, cl>>
    BY <1>6 DEF Create, Fill
  <2>2. QED
    BY <1>6, <2>1, CreateKeepsHost, FillKeepsHost, SameRate, SamePins, SameSessions
<1>7. "server" \in Procs
  BY DEF Procs
<1>8. QED
  <2> HIDE DEF IInv
  <2> QED BY <1>1, <1>2, <1>3, <1>4, <1>5, <1>6, <1>7

(* The trust commands *)
LEMMA TrustSteps ==
    ASSUME IInv, NEW k \in Trusters,
           (\E h \in Hosts : Load(k, h)) \/ Truncate(k) \/ WriteRows(k) \/ Kill(k)
    PROVE  IInv'
<1>1. UNCHANGED <<now, traffic, opened, cl>> /\ UNCHANGED host
  BY DEF Load, Truncate, WriteRows, Kill
<1>2. HostOK' /\ RateOK' /\ SessionsOK'
  BY <1>1, SameHost, SameRate, SameSessions DEF IInv
<1>3. PinsOK'
  BY LoadKeepsPins, TruncateKeepsPins, WriteKeepsPins, KillKeepsPins DEF IInv, HostOK
<1>4. QED
  BY <1>2, <1>3 DEF IInv

(* Requests, and the clients *)
LEMMA RequestSteps ==
    ASSUME IInv,
           \/ \E size \in Sizes : OtherRequest(size)
           \/ \E c \in Clients, policy \in Policies : Connect(c, policy)
           \/ \E c \in Clients : ServerAnswers(c) \/ ServerRefuses(c) \/ Derive(c) \/ GiveUp(c)
    PROVE  IInv'
<1>1. UNCHANGED host /\ UNCHANGED pins /\ now' = now
  BY DEF OtherRequest, Connect, ServerAnswers, ServerRefuses, Derive, GiveUp
<1>2. HostOK' /\ PinsOK'
  BY <1>1, SameHost, SamePins DEF IInv
<1>3. RateOK'
  <2>1. (Allowed \/ Limited) \/ UNCHANGED traffic
    BY DEF OtherRequest, Connect, ServerAnswers, ServerRefuses, Derive, GiveUp
  <2>2. UNCHANGED traffic \/ through' = through \/ \E c \in Clients : through' = through \cup {c}
    BY DEF OtherRequest, Connect, ServerAnswers, ServerRefuses, Derive, GiveUp
  <2>3. UNCHANGED traffic \/ through' \subseteq Clients
    BY <2>2 DEF IInv, RateOK
  <2>4. QED
    BY <1>1, <2>1, <2>3, RequestKeepsRate, SameRate DEF IInv
<1>4. SessionsOK'
  <2>1. ASSUME NEW size \in Sizes, OtherRequest(size) PROVE SessionsOK'
    BY <2>1, SameSessions DEF OtherRequest, IInv
  <2>2. ASSUME NEW c \in Clients, NEW policy \in Policies, Connect(c, policy) PROVE SessionsOK'
    BY <2>2, ConnectKeepsSessions DEF IInv
  <2>3. ASSUME NEW c \in Clients, ServerAnswers(c) \/ Derive(c) PROVE SessionsOK'
    BY <2>3, AnswerKeepsSessions, DeriveKeepsSessions DEF IInv
  <2>4. ASSUME NEW c \in Clients, ServerRefuses(c) \/ GiveUp(c) PROVE SessionsOK'
    BY <2>4, IdleKeepsSessions DEF ServerRefuses, GiveUp, IInv
  <2>5. QED
    BY <2>1, <2>2, <2>3, <2>4
<1>5. QED
  BY <1>2, <1>3, <1>4 DEF IInv

(* The invariant is inductive. *)
LEMMA NextIInv == IInv /\ [Next]_vars => IInv'
<1> SUFFICES ASSUME IInv, [Next]_vars PROVE IInv'
  OBVIOUS
<1>1. CASE UNCHANGED vars
  <2>1. UNCHANGED host /\ UNCHANGED pins /\ UNCHANGED <<now, traffic>>
        /\ UNCHANGED <<opened, cl>>
    BY <1>1 DEF vars
  <2>2. QED
    BY <2>1, SameHost, SamePins, SameRate, SameSessions DEF IInv
<1>2. QED
  BY <1>1, HostSteps, TrustSteps, RequestSteps DEF Next

(* The inductive invariant holds throughout. *)
LEMMA Invariance == Spec => []IInv
<1>1. IInv /\ [Next]_vars => IInv'
  BY NextIInv
<1>2. QED
  BY InitIInv, <1>1, PTL DEF Spec

-----------------------------------------------------------------------------
(* Files, processes, pins, bucket, clients and sessions keep their types:   *)
(* no file but a key's own gets a key, no bucket is overfull (keystore.py,  *)
(* known_hosts.py, rate_limit.py, both handshake.py).                       *)
THEOREM TypesHold == Spec => []TypeOK
<1>1. IInv => TypeOK
  BY DEF IInv, TypeOK, HostOK, PinsOK, RateOK, SessionsOK
<1>2. QED
  BY <1>1, Invariance, PTL

(* The key files and the running server are of one identity, whatever       *)
(* bootstraps, boots and crashes overlap, with whole rotations between      *)
(* them: O_EXCL on the first file makes the writer the only one             *)
(* (init_server_identity, load_server_identity).                            *)
THEOREM IdentityIsWhole == Spec => []NoMixedIdentity
<1>1. IInv => NoMixedIdentity
  <2> SUFFICES ASSUME IInv PROVE NoMixedIdentity
    OBVIOUS
  <2>1. OneIdentity(disk) /\ Loaded(proc["server"])
    BY DEF IInv, HostOK, HostInv, Procs
  <2>2. Up => OfOneIdentity(proc["server"].id)
    BY <2>1 DEF Up, Loaded
  <2>3. QED
    BY <2>1, <2>2 DEF NoMixedIdentity, OneIdentity, OfOneIdentity
<1>2. QED
  BY <1>1, Invariance, PTL

(* A client with a session shares its keys with a server that had the       *)
(* secret half of the pinned key (derive_session, perform_handshake).       *)
THEOREM PinnedServerHasKeys == Spec => []SessionAgreed
<1>1. IInv => SessionAgreed
  BY DEF IInv, SessionsOK, SessionInv, SessionAgreed, Agreed
<1>2. QED
  BY <1>1, Invariance, PTL

(* A client with the right pin accepts the answer when no report is sent    *)
(* and none is needed, or when its verifier is there to check the report    *)
(* and the measurement is the pinned one (derive_session,                   *)
(* perform_handshake).                                                      *)
THEOREM HonestServerIsAccepted == Spec => []HonestIsAccepted
<1>1. ASSUME IInv, NEW c \in Clients, cl[c].pc = "answered", NEW s \in opened, s.n = cl[c].n,
             s.identity = [f \in {"x", "xpub", "e", "epub"} |-> cl[c].pin],
             Satisfiable(cl[c].policy, cl[c].report.measurement)
      PROVE  Accepts(c)
  <2>1. PICK o \in opened : FromServer(c, cl[c], o)
    BY <1>1 DEF IInv, SessionsOK, SessionInv
  <2>2. o = s
    BY <1>1, <2>1 DEF IInv, SessionsOK, SessionInv, Numbered, FromServer
  <2> DEFINE k == cl[c].pin
             t == Transcript(c, cl[c].ts, k, cl[c].n)
  <2>3. s.identity.x = k /\ s.identity.xpub = k /\ s.identity.e = k /\ s.identity.epub = k
    BY <1>1
  <2>4. /\ cl[c].xpub = k /\ cl[c].epub = k /\ cl[c].sig = [by |-> k, of |-> t]
        /\ cl[c].prefixes = SessionKeys(k, c, t) /\ cl[c].report.userdata = t
    BY <2>1, <2>2, <2>3 DEF FromServer
  <2>5. Mine(c) = t
    BY <2>4 DEF Mine
  <2>6. KeyMatches(cl[c]) /\ SignatureValid(c) /\ PrefixesMatch(c)
    BY <2>4, <2>5 DEF KeyMatches, SignatureValid, PrefixesMatch
  <2>7. AttestationOK(c)
    BY <1>1, <2>4, <2>5 DEF AttestationOK, Verifies, Satisfiable
  <2>8. QED
    BY <2>6, <2>7 DEF Accepts
<1>2. IInv => HonestIsAccepted
  BY <1>1 DEF HonestIsAccepted
<1>3. QED
  BY <1>2, Invariance, PTL

(* Trusts that do not overlap leave the newest key of every host (trust).   *)
THEOREM NewestTrustStands == Spec => []LastTrustWins
<1>1. IInv => LastTrustWins
  BY TrustFacts DEF IInv, PinsOK, PinsInv, LastTrustWins
<1>2. QED
  BY <1>1, Invariance, PTL

(* In no stretch of time is more let through than RATE allows and one full  *)
(* bucket, and one bucket more for every restart of the server within the   *)
(* stretch, whatever the cost of a request, the capacity and the rate are   *)
(* in units of a token (RateLimitMiddleware).                               *)
THEOREM RateIsKept == Spec => []RateBound
<1>1. IInv => RateBound
  <2> SUFFICES ASSUME IInv, NEW r \in Spans PROVE level[r] <= CAPACITY * (r + 1)
    BY DEF RateBound
  <2> DEFINE top == CAPACITY * (r + 1)
  <2>1. level[r] \in Nat /\ Refilled \in Nat /\ level[r] + Refilled <= top
    BY RateFacts DEF IInv
  <2>2. top \in Nat
    BY Allowance
  <2> HIDE DEF top
  <2>3. level[r] <= top
    BY <2>1, <2>2
  <2>4. QED
    BY <2>3 DEF top
<1>2. QED
  BY <1>1, Invariance, PTL
=============================================================================
