--------------------------- MODULE StreamingProofs ---------------------------
(***************************************************************************)
(* The safety of a streamed answer for any size of the queue and of the    *)
(* connection and any number of chunks: nothing is lost, repeated or       *)
(* reordered, and the stream keeps the promise of StreamPromise.           *)
(***************************************************************************)
EXTENDS Streaming, TLAPS

(* How the parts of the server stand to each other *)
Control ==
    /\ over = "no" <=> worker \in {"next", "put"}
    /\ error <=> over = "raise"
    /\ task # "none" <=> router = "wait"
    /\ worker = "put" => held \in Chunks
    /\ orphan => client = "left"
    /\ over = "gone" => client = "left"
    /\ cancelled => client = "left" \/ (worker = "returned" /\ router = "over")

(* Nothing comes after the end of the stream. *)
NothingLeft == queue = <<>> /\ worker = "returned"

(* The end mark travels last, and the normal end is not that of an error.   *)
EndIsLast ==
    /\ \A i \in 1 .. Len(queue) : queue[i] = DONE => i = Len(queue) /\ worker = "returned"
    /\ task = "got" /\ item = DONE => NothingLeft
    /\ router = "yield" /\ out = END => NothingLeft /\ ~error
    /\ router = "over" => NothingLeft
    /\ \A i \in 1 .. Len(wire) :
          wire[i] = END => i = Len(wire) /\ router = "over" /\ ~error
    /\ conn = "broken" => router = "over" /\ error

(* The chunks at the places of the pipeline: up to b on the wire, then at   *)
(* most one with the router, up to e in the queue, then the worker's.       *)
AtYield == router = "yield" /\ IsChunk(out)
InTask == task = "got" /\ IsChunk(item)
Places(b, q, e) ==
    /\ \A i \in 1 .. Len(shown) : shown[i] = i
    /\ InOrder(wire, Len(shown), b)
    /\ AtYield => out = b + 1
    /\ InTask => item = b + 1
    /\ q = IF AtYield \/ InTask THEN b + 1 ELSE b
    /\ InOrder(queue, q, e)
    /\ IF worker = "put" THEN held = e + 1 /\ made = e + 1
       ELSE e <= made /\ (over # "cut" => made = e)

Ordered == \E b, q, e \in Nat : Places(b, q, e)

IInv == TypeOK /\ Control /\ (client # "left" => EndIsLast)
               /\ (client = "reading" => Ordered)

-----------------------------------------------------------------------------
(* Sequences of chunks and marks *)

Entries == {END, KEEPALIVE} \cup Chunks

(* A sequence without entries has no chunks. *)
LEMMA InOrderEmpty ==
    ASSUME NEW a \in Nat, NEW b \in Nat
    PROVE  InOrder(<<>>, a, b) <=> a = b
BY DEF InOrder

(* A mark may follow a sequence in order, *)
LEMMA InOrderMark ==
    ASSUME NEW s \in Seq(Int), NEW a \in Nat, NEW b \in Nat, InOrder(s, a, b),
           NEW x \in Int, ~IsChunk(x)
    PROVE  InOrder(Append(s, x), a, b)
<1> DEFINE r == Append(s, x)
<1>1. r \in Seq(Int) /\ Len(r) = Len(s) + 1 /\ r[Len(s) + 1] = x
      /\ \A i \in 1 .. Len(s) : r[i] = s[i]
  OBVIOUS
<1>2. Len(s) \in Nat
  OBVIOUS
<1> HIDE DEF r
<1>3. \A i \in 1 .. Len(r) : IsChunk(r[i]) => i \in 1 .. Len(s) /\ r[i] = s[i]
  BY <1>1, <1>2
<1>4. \A i \in 1 .. Len(s) : i \in 1 .. Len(r)
  BY <1>1, <1>2
<1>5. QED
  BY <1>1, <1>3, <1>4 DEF InOrder, r

(* and the next chunk may. *)
LEMMA InOrderNext ==
    ASSUME NEW s \in Seq(Int), NEW a \in Nat, NEW b \in Nat, InOrder(s, a, b)
    PROVE  InOrder(Append(s, b + 1), a, b + 1)
<1> DEFINE r == Append(s, b + 1)
<1>1. r \in Seq(Int) /\ Len(r) = Len(s) + 1 /\ r[Len(s) + 1] = b + 1
      /\ \A i \in 1 .. Len(s) : r[i] = s[i] /\ s[i] \in Int
  OBVIOUS
<1>2. Len(s) \in Nat
  OBVIOUS
<1> HIDE DEF r
<1>3. \A i \in 1 .. Len(r) : i = Len(s) + 1 \/ i \in 1 .. Len(s)
  BY <1>1, <1>2
<1>4. \A i \in 1 .. Len(s) : i \in 1 .. Len(r)
  BY <1>1, <1>2
<1>5. \A i, j \in 1 .. Len(r) : i < j /\ IsChunk(r[i]) /\ IsChunk(r[j]) => r[i] < r[j]
  <2> SUFFICES ASSUME NEW i \in 1 .. Len(r), NEW j \in 1 .. Len(r),
                      i < j, IsChunk(r[i]), IsChunk(r[j])
               PROVE  r[i] < r[j]
    OBVIOUS
  <2>1. i \in 1 .. Len(s)
    BY <1>1, <1>2
  <2>2. s[i] \in a + 1 .. b
    BY <1>1, <2>1 DEF InOrder
  <2>3. CASE j \in 1 .. Len(s)
    BY <1>1, <2>1, <2>3 DEF InOrder
  <2>4. CASE j = Len(s) + 1
    BY <1>1, <2>1, <2>2, <2>4
  <2>5. QED
    BY <1>3, <2>3, <2>4
<1>6. \A i \in 1 .. Len(r) : IsChunk(r[i]) => r[i] \in a + 1 .. b + 1
  <2> SUFFICES ASSUME NEW i \in 1 .. Len(r), IsChunk(r[i]) PROVE r[i] \in a + 1 .. b + 1
    OBVIOUS
  <2>1. a <= b
    BY DEF InOrder
  <2>2. CASE i = Len(s) + 1
    BY <1>1, <2>1, <2>2
  <2>3. CASE i \in 1 .. Len(s)
    <3>1. r[i] = s[i]
      BY <1>1, <2>3
    <3>2. s[i] \in a + 1 .. b
      BY <2>3, <3>1 DEF InOrder
    <3>3. QED
      BY <3>1, <3>2
  <2>4. QED
    BY <1>3, <2>2, <2>3
<1>7. ASSUME NEW k \in a + 1 .. b + 1 PROVE \E i \in 1 .. Len(r) : r[i] = k
  <2>1. CASE k = b + 1
    BY <1>1, <1>2, <2>1
  <2>2. CASE k # b + 1
    <3>1. k \in a + 1 .. b
      BY <2>2
    <3>2. PICK i \in 1 .. Len(s) : s[i] = k
      BY <3>1 DEF InOrder
    <3>3. i \in 1 .. Len(r) /\ r[i] = k
      BY <1>1, <1>4, <3>2
    <3>4. QED
      BY <3>3
  <2>3. QED
    BY <2>1, <2>2
<1>8. a <= b + 1
  BY DEF InOrder
<1>9. InOrder(r, a, b + 1)
  BY <1>5, <1>6, <1>7, <1>8 DEF InOrder
<1>10. QED
  BY <1>9 DEF r

(* Taking the first entry away: a mark, or the first of the chunks. *)
LEMMA InOrderTail ==
    ASSUME NEW s \in Seq(Int), NEW a \in Nat, NEW b \in Nat, InOrder(s, a, b), s # <<>>
    PROVE  /\ ~IsChunk(Head(s)) => InOrder(Tail(s), a, b)
           /\ IsChunk(Head(s)) => Head(s) = a + 1 /\ a + 1 <= b /\ InOrder(Tail(s), a + 1, b)
<1> DEFINE r == Tail(s)
<1>1. /\ r \in Seq(Int) /\ Len(s) \in Nat \ {0} /\ Len(r) = Len(s) - 1
      /\ Head(s) = s[1] /\ \A i \in 1 .. Len(r) : r[i] = s[i + 1]
  OBVIOUS
<1>2. \A i \in 1 .. Len(s) : s[i] \in Int
  OBVIOUS
<1> HIDE DEF r
<1>3. \A i \in 1 .. Len(r) : i + 1 \in 1 .. Len(s)
  BY <1>1
<1>4. \A i \in 1 .. Len(s) : i = 1 \/ (i - 1 \in 1 .. Len(r) /\ r[i - 1] = s[i])
  BY <1>1
<1>5. \A i, j \in 1 .. Len(r) : i < j /\ IsChunk(r[i]) /\ IsChunk(r[j]) => r[i] < r[j]
  <2> SUFFICES ASSUME NEW i \in 1 .. Len(r), NEW j \in 1 .. Len(r),
                      i < j, IsChunk(r[i]), IsChunk(r[j])
               PROVE  r[i] < r[j]
    OBVIOUS
  <2>1. i + 1 \in 1 .. Len(s) /\ j + 1 \in 1 .. Len(s) /\ i + 1 < j + 1
    BY <1>1, <1>3
  <2>2. r[i] = s[i + 1] /\ r[j] = s[j + 1]
    BY <1>1
  <2>3. QED
    BY <2>1, <2>2 DEF InOrder
<1>6. CASE ~IsChunk(Head(s))
  <2>1. \A i \in 1 .. Len(r) : IsChunk(r[i]) => r[i] \in a + 1 .. b
    BY <1>1, <1>3 DEF InOrder
  <2>2. ASSUME NEW k \in a + 1 .. b PROVE \E i \in 1 .. Len(r) : r[i] = k
    <3>1. PICK i \in 1 .. Len(s) : s[i] = k
      BY DEF InOrder
    <3>2. i # 1
      BY <1>1, <1>6, <3>1 DEF IsChunk
    <3>3. QED
      BY <1>4, <3>1, <3>2
  <2>3. QED
    BY <1>5, <1>6, <2>1, <2>2 DEF InOrder, r
<1>7. CASE IsChunk(Head(s))
  <2>1. 1 \in 1 .. Len(s) /\ s[1] \in a + 1 .. b
    BY <1>1, <1>7 DEF InOrder
  <2>2. \A i \in 1 .. Len(s) : i # 1 /\ IsChunk(s[i]) => s[1] < s[i]
    BY <1>1, <1>7, <2>1 DEF InOrder
  <2>3. s[1] = a + 1
    <3>1. a + 1 \in a + 1 .. b
      BY <2>1
    <3>2. PICK i \in 1 .. Len(s) : s[i] = a + 1
      BY <3>1 DEF InOrder
    <3>3. IsChunk(s[i])
      BY <3>2 DEF IsChunk
    <3>4. QED
      BY <2>1, <2>2, <3>2, <3>3
  <2>4. \A i \in 1 .. Len(r) : IsChunk(r[i]) => r[i] \in (a + 1) + 1 .. b
    <3> SUFFICES ASSUME NEW i \in 1 .. Len(r), IsChunk(r[i]) PROVE r[i] \in (a + 1) + 1 .. b
      OBVIOUS
    <3>1. i + 1 \in 1 .. Len(s) /\ i + 1 # 1 /\ r[i] = s[i + 1] /\ s[i + 1] \in Int
      BY <1>1, <1>2, <1>3, SMTT(30)
    <3>2. s[i + 1] \in a + 1 .. b
      BY <3>1 DEF InOrder
    <3>3. s[1] < s[i + 1]
      BY <2>2, <3>1
    <3>4. QED
      BY <2>3, <3>1, <3>2, <3>3
  <2>5. ASSUME NEW k \in (a + 1) + 1 .. b PROVE \E i \in 1 .. Len(r) : r[i] = k
    <3>1. k \in a + 1 .. b /\ k # a + 1
      OBVIOUS
    <3>2. PICK i \in 1 .. Len(s) : s[i] = k
      BY <3>1 DEF InOrder
    <3>3. QED
      BY <1>4, <2>3, <3>1, <3>2
  <2>6. QED
    BY <1>1, <1>5, <1>7, <2>1, <2>3, <2>4, <2>5 DEF InOrder, r
<1>8. QED
  BY <1>6, <1>7

(* Two sequences in order, the second where the first ends *)
LEMMA InOrderConcat ==
    ASSUME NEW s \in Seq(Int), NEW t \in Seq(Int), NEW a \in Nat, NEW b \in Nat, NEW c \in Nat,
           InOrder(s, a, b), InOrder(t, b, c)
    PROVE  InOrder(s \o t, a, c) /\ s \o t \in Seq(Int)
<1> DEFINE r == s \o t
           m == Len(s)
           n == Len(t)
<1>1. /\ r \in Seq(Int) /\ Len(r) = m + n /\ m \in Nat /\ n \in Nat
      /\ \A i \in 1 .. m : r[i] = s[i] /\ s[i] \in Int
      /\ \A i \in 1 .. n : r[m + i] = t[i] /\ t[i] \in Int
  OBVIOUS
<1> HIDE DEF r, m, n
<1>2. \A i \in 1 .. m + n : i \in 1 .. m \/ (i - m \in 1 .. n /\ m + (i - m) = i)
  BY <1>1
<1>3. \A i \in 1 .. m : IsChunk(s[i]) => s[i] \in a + 1 .. b
  BY DEF InOrder, m
<1>4. \A i \in 1 .. n : IsChunk(t[i]) => t[i] \in b + 1 .. c
  BY DEF InOrder, n
<1>5. ASSUME NEW i \in 1 .. m + n, NEW j \in 1 .. m + n, i < j, IsChunk(r[i]), IsChunk(r[j])
      PROVE  r[i] < r[j]
  <2>1. CASE j \in 1 .. m
    <3>1. i \in 1 .. m
      BY <1>1, <1>5, <2>1
    <3>2. QED
      BY <1>1, <1>5, <2>1, <3>1 DEF InOrder, m
  <2>2. CASE i \in 1 .. m /\ j \notin 1 .. m
    <3>1. j - m \in 1 .. n /\ r[j] = t[j - m] /\ r[i] = s[i]
      BY <1>1, <1>2, <2>2
    <3>2. QED
      BY <1>1, <1>3, <1>4, <1>5, <2>2, <3>1, SMTT(30)
  <2>3. CASE i \notin 1 .. m
    <3>1. i - m \in 1 .. n /\ r[i] = t[i - m]
      BY <1>1, <1>2, <2>3
    <3>2. j - m \in 1 .. n /\ r[j] = t[j - m] /\ i - m < j - m
      <4>1. j \notin 1 .. m
        BY <1>1, <1>5, <2>3
      <4>2. QED
        BY <1>1, <1>2, <1>5, <4>1
    <3>3. QED
      BY <1>1, <1>5, <3>1, <3>2 DEF InOrder, n
  <2>4. QED
    BY <2>1, <2>2, <2>3
<1>6. a <= b /\ b <= c
  BY DEF InOrder
<1>7. ASSUME NEW i \in 1 .. m + n, IsChunk(r[i]) PROVE r[i] \in a + 1 .. c
  <2>1. CASE i \in 1 .. m
    <3>1. r[i] = s[i]
      BY <1>1, <2>1
    <3>2. s[i] \in a + 1 .. b
      BY <1>3, <1>7, <2>1, <3>1
    <3>3. QED
      BY <1>6, <3>1, <3>2
  <2>2. CASE i - m \in 1 .. n /\ m + (i - m) = i
    <3>1. r[i] = t[i - m]
      BY <1>1, <2>2
    <3>2. t[i - m] \in b + 1 .. c
      BY <1>4, <1>7, <2>2, <3>1
    <3>3. QED
      BY <1>6, <3>1, <3>2
  <2>3. QED
    BY <1>2, <2>1, <2>2
<1>8. ASSUME NEW k \in a + 1 .. c PROVE \E i \in 1 .. m + n : r[i] = k
  <2>1. CASE k \in a + 1 .. b
    <3>1. PICK i \in 1 .. m : s[i] = k
      BY <2>1 DEF InOrder, m
    <3>2. i \in 1 .. m + n /\ r[i] = k
      BY <1>1, <3>1
    <3>3. QED
      BY <3>2
  <2>2. CASE k \in b + 1 .. c
    <3>1. PICK i \in 1 .. n : t[i] = k
      BY <2>2 DEF InOrder, n
    <3>2. m + i \in 1 .. m + n /\ r[m + i] = k
      BY <1>1, <3>1
    <3>3. QED
      BY <3>2
  <2>3. QED
    BY <1>6, <2>1, <2>2
<1>9. InOrder(r, a, c)
  <2>1. a <= c /\ Len(r) = m + n
    BY <1>1, <1>6
  <2>2. QED
    BY <1>5, <1>7, <1>8, <2>1 DEF InOrder
<1>10. QED
  BY <1>1, <1>9 DEF r

(* One entry in order: the next chunk, or a mark *)
LEMMA InOrderOne ==
    ASSUME NEW x \in Int, NEW a \in Nat, NEW b \in Nat,
           IsChunk(x) => x = a + 1 /\ b = a + 1,
           ~IsChunk(x) => b = a
    PROVE  InOrder(<<x>>, a, b) /\ <<x>> \in Seq(Int)
<1> DEFINE nil == <<>>
<1>1. InOrder(nil, a, a) /\ nil \in Seq(Int) /\ Append(nil, x) = <<x>> /\ <<x>> \in Seq(Int)
  BY InOrderEmpty
<1> HIDE DEF nil
<1>2. CASE IsChunk(x)
  BY <1>1, <1>2, InOrderNext
<1>3. CASE ~IsChunk(x)
  BY <1>1, <1>3, InOrderMark
<1>4. QED
  BY <1>2, <1>3

(* No chunks in order: none in between *)
LEMMA InOrderNone ==
    ASSUME NEW s, NEW a \in Nat, NEW b \in Nat, InOrder(s, a, b),
           \A i \in 1 .. Len(s) : ~IsChunk(s[i])
    PROVE  a = b
<1> SUFFICES ASSUME a # b PROVE FALSE
  OBVIOUS
<1>1. a + 1 \in a + 1 .. b
  BY DEF InOrder
<1>2. PICK i \in 1 .. Len(s) : s[i] = a + 1
  BY <1>1 DEF InOrder
<1>3. QED
  BY <1>2 DEF IsChunk

-----------------------------------------------------------------------------
(* The entries of a sequence with one more, and with one less *)
LEMMA AppendEntries ==
    ASSUME NEW S, NEW s \in Seq(S), NEW x \in S
    PROVE  \A i \in 1 .. Len(Append(s, x)) :
              \/ i \in 1 .. Len(s) /\ Append(s, x)[i] = s[i]
              \/ i = Len(Append(s, x)) /\ Append(s, x)[i] = x
OBVIOUS

(* What is left of a queue after its first element. *)
LEMMA TailEntries ==
    ASSUME NEW S, NEW s \in Seq(S), s # <<>>
    PROVE  /\ Tail(s) \in Seq(S) /\ Len(s) = Len(Tail(s)) + 1 /\ Len(Tail(s)) \in Nat
           /\ Head(s) \in S /\ Head(s) = s[1]
           /\ \A i \in 1 .. Len(Tail(s)) : i + 1 \in 1 .. Len(s) /\ Tail(s)[i] = s[i + 1]
OBVIOUS

(* The invariant holds at the start, *)

(* Chunks and marks are integers. *)
LEMMA IntSeqs == TypeOK => queue \in Seq(Int) /\ wire \in Seq(Int) /\ shown \in Seq(Int)
BY SizeAssumption DEF TypeOK, Chunks, DONE, END, KEEPALIVE

(* Nothing has been made yet. *)
LEMMA InitIInv == Init => IInv
<1> SUFFICES ASSUME Init PROVE IInv
  OBVIOUS
<1>0. Len(<<>>) = 0
  OBVIOUS
<1>1. TypeOK
  <2>1. /\ <<>> \in Seq({DONE} \cup Chunks) /\ <<>> \in Seq({END, KEEPALIVE} \cup Chunks)
        /\ <<>> \in Seq(Chunks)
    OBVIOUS
  <2>2. 0 \in 0 .. MaxChunks /\ Len(<<>>) <= MAXSIZE /\ Len(<<>>) <= WIRE
    BY <1>0, SizeAssumption
  <2>3. QED
    BY <2>1, <2>2 DEF Init, TypeOK, DONE, KEEPALIVE
<1>2. Control
  BY DEF Init, Control
<1>3. EndIsLast
  BY <1>0 DEF Init, EndIsLast
<1>4. Ordered
  <2>1. InOrder(<<>>, 0, 0)
    BY InOrderEmpty
  <2>2. Places(0, 0, 0)
    BY <1>0, <2>1 DEF Init, Places, AtYield, InTask
  <2>3. QED
    BY <2>2 DEF Ordered
<1>5. QED
  BY <1>1, <1>2, <1>3, <1>4 DEF IInv

(* and every step keeps it: the worker's, *)

(* The end mark goes into the queue, or waits for room. *)
LEMMA FinishStep ==
    ASSUME NEW q \in Seq({DONE} \cup Chunks), Len(q) <= MAXSIZE, Finish(q)
    PROVE  /\ queue' \in Seq({DONE} \cup Chunks) /\ Len(queue') <= MAXSIZE
           /\ \/ worker' = "returned" /\ queue' = Append(q, DONE)
              \/ worker' = "fin" /\ queue' = q
BY SizeAssumption DEF Finish

(* A chunk handed over by a worker that is not cancelled *)
LEMMA HandedStep ==
    ASSUME IInv, NEW x \in Chunks, Len(queue) < MAXSIZE, worker \in {"next", "put"}, Handed(x)
    PROVE  /\ queue' \in Seq({DONE} \cup Chunks) /\ Len(queue') <= MAXSIZE
           /\ \/ over' = over /\ worker' = "next" /\ queue' = Append(queue, x)
              \/ over' = "gone" /\ worker' \in {"returned", "fin"} /\ client = "left"
<1>1. Append(queue, x) \in Seq({DONE} \cup Chunks) /\ Len(Append(queue, x)) <= MAXSIZE
  BY SizeAssumption DEF IInv, TypeOK
<1>2. CASE cancelled
  <2>1. client = "left"
    BY <1>2 DEF IInv, Control
  <2>2. Finish(Append(queue, x)) /\ over' = "gone"
    BY <1>2 DEF Handed
  <2>3. QED
    BY <1>1, <2>1, <2>2, FinishStep
<1>3. CASE ~cancelled
  BY <1>1, <1>3 DEF Handed
<1>4. QED
  BY <1>2, <1>3

(* The generator makes a chunk. *)
LEMMA NextChunkStep == ASSUME IInv, NextChunk PROVE IInv'
<1>1. made + 1 \in Chunks /\ made' = made + 1 /\ made \in Nat
  BY SizeAssumption DEF IInv, TypeOK, NextChunk, Chunks
<1>2. \/ /\ Len(queue) < MAXSIZE /\ held' = 0
         /\ over' = over /\ worker' = "next" /\ queue' = Append(queue, made + 1)
      \/ held' = 0 /\ over' = "gone" /\ worker' \in {"returned", "fin"} /\ client = "left"
      \/ worker' = "put" /\ held' = made + 1 /\ over' = over /\ queue' = queue
  BY <1>1, HandedStep DEF NextChunk
<1>3. queue' \in Seq({DONE} \cup Chunks) /\ Len(queue') <= MAXSIZE
  BY <1>1, HandedStep DEF NextChunk, IInv, TypeOK
<1>4. worker = "next" /\ over = "no" /\ UNCHANGED <<error, cancelled, encoder, wire, conn, client, shown>>
  BY DEF NextChunk, IInv, Control
<1>5. TypeOK'
  BY <1>1, <1>2, <1>3, <1>4, SizeAssumption DEF IInv, TypeOK, Chunks, encoder
<1>6. Control'
  BY <1>1, <1>2, <1>4 DEF IInv, Control, encoder, Chunks
<1>7. ASSUME client' # "left" PROVE EndIsLast'
  <2>1. queue' = Append(queue, made + 1) \/ queue' = queue
    BY <1>2, <1>4, <1>7
  <2>2. \A i \in 1 .. Len(queue) : queue[i] # DONE
    BY <1>4, <1>7 DEF IInv, EndIsLast
  <2>3. \A i \in 1 .. Len(queue') : queue'[i] # DONE
    BY <1>1, <2>1, <2>2, AppendEntries DEF IInv, TypeOK, DONE
  <2>4. QED
    BY <1>4, <1>7, <2>3 DEF IInv, EndIsLast, NothingLeft, encoder
<1>8. ASSUME client' = "reading" PROVE Ordered'
  <2>1. PICK b, q, e \in Nat : Places(b, q, e)
    BY <1>4, <1>8 DEF IInv, Ordered
  <2>2. made = e
    BY <1>4, <2>1 DEF Places
  <2>3. InOrder(Append(queue, e + 1), q, e + 1)
    BY <2>1, IntSeqs, InOrderNext DEF Places, IInv
  <2>4. CASE worker' = "next" /\ queue' = Append(queue, made + 1)
    <3>1. Places(b, q, e + 1)'
      BY <1>1, <1>4, <2>1, <2>2, <2>3, <2>4 DEF Places, AtYield, InTask, encoder
    <3>2. QED
      BY <3>1 DEF Ordered
  <2>5. CASE worker' = "put" /\ held' = made + 1 /\ queue' = queue
    <3>1. Places(b, q, e)'
      BY <1>1, <1>4, <2>1, <2>2, <2>5 DEF Places, AtYield, InTask, encoder
    <3>2. QED
      BY <3>1 DEF Ordered
  <2>6. QED
    BY <1>2, <1>4, <1>8, <2>4, <2>5
<1>9. QED
  BY <1>5, <1>6, <1>7, <1>8 DEF IInv

(* The worker puts what it holds. *)
LEMMA PutChunkStep == ASSUME IInv, PutChunk PROVE IInv'
<1>1. held \in Chunks /\ worker = "put" /\ over = "no"
      /\ UNCHANGED <<made, error, cancelled, encoder, wire, conn, client, shown>>
  BY DEF PutChunk, IInv, Control
<1>2. /\ held' = 0
      /\ \/ over' = over /\ worker' = "next" /\ queue' = Append(queue, held)
         \/ over' = "gone" /\ worker' \in {"returned", "fin"} /\ client = "left"
      /\ queue' \in Seq({DONE} \cup Chunks) /\ Len(queue') <= MAXSIZE
  BY <1>1, HandedStep DEF PutChunk
<1>3. TypeOK'
  BY <1>1, <1>2 DEF IInv, TypeOK, Chunks, encoder
<1>4. Control'
  BY <1>1, <1>2 DEF IInv, Control, encoder, Chunks
<1>5. ASSUME client' # "left" PROVE EndIsLast'
  <2>1. queue' = Append(queue, held)
    BY <1>1, <1>2, <1>5
  <2>2. \A i \in 1 .. Len(queue) : queue[i] # DONE
    BY <1>1, <1>5 DEF IInv, EndIsLast
  <2>3. held # DONE
    BY <1>1 DEF Chunks, DONE
  <2>4. \A i \in 1 .. Len(queue') : queue'[i] # DONE
    BY <1>1, <2>1, <2>2, <2>3, AppendEntries DEF IInv, TypeOK
  <2>5. QED
    BY <1>1, <1>5, <2>4 DEF IInv, EndIsLast, NothingLeft, encoder
<1>6. ASSUME client' = "reading" PROVE Ordered'
  <2>1. PICK b, q, e \in Nat : Places(b, q, e)
    BY <1>1, <1>6 DEF IInv, Ordered
  <2>2. held = e + 1 /\ made = e + 1
    BY <1>1, <2>1 DEF Places
  <2>3. InOrder(Append(queue, e + 1), q, e + 1)
    BY <2>1, IntSeqs, InOrderNext DEF Places, IInv
  <2>4. worker' = "next" /\ queue' = Append(queue, e + 1)
    BY <1>1, <1>2, <1>6, <2>2
  <2>5. InOrder(queue, q, e + 1)'
    BY <2>3, <2>4
  <2>6. made' = e + 1
    BY <1>1, <2>2
  <2>7. Places(b, q, e + 1)'
    BY <1>1, <2>1, <2>4, <2>5, <2>6 DEF Places, AtYield, InTask, encoder
  <2>8. QED
    BY <2>7 DEF Ordered
<1>7. QED
  BY <1>3, <1>4, <1>5, <1>6 DEF IInv

(* The generation ends in some way (over') and the end mark is put if there *)
(* is room.                                                                 *)
LEMMA EndingStep ==
    ASSUME IInv, worker \in {"next", "put", "fin"}, Finish(queue),
           \/ worker = "next" /\ held' = held /\ over' = "stop" /\ error' = error
           \/ worker = "next" /\ held' = held /\ over' = "raise" /\ error' = TRUE
           \/ worker \in {"next", "put"} /\ held' = 0 /\ over' = "cut" /\ error' = error
           \/ worker = "fin" /\ held' = held /\ over' = over /\ error' = error,
           UNCHANGED <<made, cancelled, encoder, wire, conn, client, shown>>
    PROVE  IInv'
<1>1. /\ queue' \in Seq({DONE} \cup Chunks) /\ Len(queue') <= MAXSIZE
      /\ \/ worker' = "returned" /\ queue' = Append(queue, DONE)
         \/ worker' = "fin" /\ queue' = queue
  BY FinishStep DEF IInv, TypeOK
<1>2. TypeOK'
  <2>1. held' \in {0} \cup Chunks /\ over' \in {"no", "stop", "raise", "gone", "cut"}
    BY DEF IInv, TypeOK
  <2>2. error' \in BOOLEAN /\ worker' \in {"next", "put", "fin", "returned", "dropped"}
    BY <1>1 DEF IInv, TypeOK
  <2>3. QED
    BY <1>1, <2>1, <2>2 DEF IInv, TypeOK, Chunks, encoder
<1>3. Control'
  BY <1>1 DEF IInv, Control, encoder, Chunks
<1>4. ASSUME client' # "left" PROVE EndIsLast'
  <2>1. /\ \A i \in 1 .. Len(queue) : queue[i] # DONE
        /\ ~(task = "got" /\ item = DONE) /\ ~(router = "yield" /\ out = END) /\ router # "over"
        /\ \A i \in 1 .. Len(wire) : wire[i] # END
        /\ conn # "broken"
    BY <1>4 DEF IInv, EndIsLast, NothingLeft
  <2>2. \A i \in 1 .. Len(queue') : queue'[i] = DONE => i = Len(queue') /\ worker' = "returned"
    <3>1. CASE worker' = "returned" /\ queue' = Append(queue, DONE)
      <4>1. \A i \in 1 .. Len(queue') : \/ i \in 1 .. Len(queue) /\ queue'[i] = queue[i]
                                       \/ i = Len(queue')
        BY <3>1, AppendEntries DEF IInv, TypeOK
      <4>2. QED
        BY <2>1, <3>1, <4>1
    <3>2. CASE worker' = "fin" /\ queue' = queue
      BY <2>1, <3>2
    <3>3. QED
      BY <1>1, <3>1, <3>2
  <2>3. QED
    BY <2>1, <2>2 DEF EndIsLast, encoder
<1>5. ASSUME client' = "reading" PROVE Ordered'
  <2>1. PICK b, q, e \in Nat : Places(b, q, e)
    BY <1>5 DEF IInv, Ordered
  <2>2. made \in Nat
    BY SizeAssumption DEF IInv, TypeOK
  <2>3. e <= made /\ (over' # "cut" => made = e)
    BY <2>1, <2>2 DEF Places, IInv, Control
  <2>4. DONE \in Int /\ ~IsChunk(DONE)
    BY DEF DONE, IsChunk
  <2>5. InOrder(queue, q, e)' 
    <3>1. InOrder(queue, q, e)
      BY <2>1 DEF Places
    <3>2. InOrder(Append(queue, DONE), q, e)
      BY <2>1, <2>4, <3>1, IntSeqs, InOrderMark DEF IInv
    <3>3. QED
      BY <1>1, <3>1, <3>2
  <2>6. Places(b, q, e)'
    BY <1>1, <2>1, <2>3, <2>5 DEF Places, AtYield, InTask, encoder
  <2>7. QED
    BY <2>6 DEF Ordered
<1>6. QED
  BY <1>2, <1>3, <1>4, <1>5 DEF IInv

(* An unload cancels the worker. *)
LEMMA CancelWorkerStep == ASSUME IInv, CancelWorker PROVE IInv'
<1>1. CASE worker \in {"next", "put"}
  BY <1>1, EndingStep DEF CancelWorker
<1>2. CASE worker = "fin" /\ worker' = "dropped" /\ UNCHANGED <<over, held, queue>>
  <2>1. UNCHANGED <<made, over, held, queue, error, cancelled, encoder, wire, conn, client, shown>>
    BY <1>2 DEF CancelWorker
  <2>2. TypeOK'
    BY <1>2, <2>1 DEF IInv, TypeOK, encoder, Chunks
  <2>3. Control'
    BY <1>2, <2>1 DEF IInv, Control, encoder, Chunks
  <2>4. ASSUME client' # "left" PROVE EndIsLast'
    BY <1>2, <2>1, <2>4 DEF IInv, EndIsLast, NothingLeft, encoder
  <2>5. ASSUME client' = "reading" PROVE Ordered'
    <3>1. PICK b, q, e \in Nat : Places(b, q, e)
      BY <2>1, <2>5 DEF IInv, Ordered
    <3>2. Places(b, q, e)'
      BY <1>2, <2>1, <3>1 DEF Places, AtYield, InTask, encoder
    <3>3. QED
      BY <3>2 DEF Ordered
  <2>6. QED
    BY <2>2, <2>3, <2>4, <2>5 DEF IInv
<1>3. QED
  BY <1>1, <1>2 DEF CancelWorker

(* Any step of the worker. *)
LEMMA PumpStep == ASSUME IInv, Pump PROVE IInv'
<1>1. CASE GeneratorStops
  BY <1>1, EndingStep DEF GeneratorStops
<1>2. CASE GeneratorRaises
  BY <1>2, EndingStep DEF GeneratorRaises
<1>3. CASE PutEnd
  BY <1>3, EndingStep DEF PutEnd
<1>4. QED
  BY <1>1, <1>2, <1>3, NextChunkStep, PutChunkStep DEF Pump

-----------------------------------------------------------------------------
(* the encoder's and the router's, *)

(* The waiting task takes a chunk. *)
LEMMA TaskGetsStep == ASSUME IInv, TaskGets PROVE IInv'
<1>1. /\ task = "waiting" /\ queue # <<>> /\ task' = "got"
      /\ item' = Head(queue) /\ queue' = Tail(queue)
      /\ UNCHANGED <<made, over, worker, held, error, cancelled, orphan, router, out, wire,
                     conn, client, shown>>
  BY DEF TaskGets
<1>2. /\ queue' \in Seq({DONE} \cup Chunks) /\ Len(queue) = Len(queue') + 1 /\ Len(queue') \in Nat
      /\ item' \in {DONE} \cup Chunks /\ item' = queue[1]
      /\ \A i \in 1 .. Len(queue') : i + 1 \in 1 .. Len(queue) /\ queue'[i] = queue[i + 1]
  BY <1>1, TailEntries DEF IInv, TypeOK
<1>3. router = "wait"
  BY <1>1 DEF IInv, Control
<1>4. TypeOK'
  <2>1. Len(queue') <= MAXSIZE
    BY <1>2, SizeAssumption DEF IInv, TypeOK
  <2>2. QED
    BY <1>1, <1>2, <2>1 DEF IInv, TypeOK, Chunks
<1>5. Control'
  BY <1>1, <1>3 DEF IInv, Control, Chunks
<1>6. ASSUME client' # "left" PROVE EndIsLast'
  <2>1. EndIsLast
    BY <1>1, <1>6 DEF IInv
  <2>2. \A i \in 1 .. Len(queue') : queue'[i] = DONE => i = Len(queue') /\ worker' = "returned"
    <3> SUFFICES ASSUME NEW i \in 1 .. Len(queue'), queue'[i] = DONE
                 PROVE  i = Len(queue') /\ worker' = "returned"
      OBVIOUS
    <3>1. i + 1 \in 1 .. Len(queue) /\ queue[i + 1] = DONE
      BY <1>2
    <3>2. i + 1 = Len(queue) /\ worker = "returned"
      BY <2>1, <3>1 DEF EndIsLast
    <3>3. i + 1 = Len(queue') + 1 /\ Len(queue') \in Nat
      BY <1>2, <3>2, Zenon
    <3>4. i = Len(queue')
      BY <3>3
    <3>5. QED
      BY <1>1, <3>2, <3>4
  <2>3. ASSUME item' = DONE PROVE queue' = <<>> /\ worker' = "returned"
    <3>1. 1 \in 1 .. Len(queue)
      BY <1>2
    <3>2. Len(queue) = 1 /\ worker = "returned"
      BY <1>2, <2>1, <2>3, <3>1 DEF EndIsLast
    <3>3. Len(queue') = 0
      <4>1. Len(queue') + 1 = 1 /\ Len(queue') \in Nat
        BY <1>2, <3>2, Zenon
      <4>2. QED
        BY <4>1
    <3>4. QED
      BY <1>1, <1>2, <3>2, <3>3
  <2>4. QED
    BY <1>1, <1>3, <2>1, <2>2, <2>3 DEF EndIsLast, NothingLeft
<1>7. ASSUME client' = "reading" PROVE Ordered'
  <2>1. PICK b, q, e \in Nat : Places(b, q, e)
    BY <1>1, <1>7 DEF IInv, Ordered
  <2>2. q = b /\ ~AtYield /\ ~AtYield' /\ InOrder(queue, q, e)
    BY <1>1, <1>3, <2>1 DEF Places, AtYield, InTask
  <2>3. /\ ~IsChunk(item') => InOrder(queue', q, e)
        /\ IsChunk(item') => item' = q + 1 /\ InOrder(queue', q + 1, e)
    BY <1>1, <2>1, <2>2, IntSeqs, InOrderTail DEF IInv
  <2>4. CASE IsChunk(item')
    <3>1. Places(b, b + 1, e)'
      BY <1>1, <2>1, <2>2, <2>3, <2>4 DEF Places, AtYield, InTask
    <3>2. QED
      BY <3>1 DEF Ordered
  <2>5. CASE ~IsChunk(item')
    <3>1. Places(b, b, e)'
      BY <1>1, <2>1, <2>2, <2>3, <2>5 DEF Places, AtYield, InTask
    <3>2. QED
      BY <3>1 DEF Ordered
  <2>6. QED
    BY <2>4, <2>5
<1>8. QED
  BY <1>4, <1>5, <1>6, <1>7 DEF IInv

(* So does a task whose response is gone. *)
LEMMA OrphanGetsStep == ASSUME IInv, OrphanGets PROVE IInv'
<1>1. /\ queue # <<>> /\ orphan' = FALSE /\ queue' = Tail(queue) /\ orphan
      /\ UNCHANGED <<made, over, worker, held, error, cancelled, task, item, router, out, wire,
                     conn, client, shown>>
  BY DEF OrphanGets
<1>2. client' = "left"
  BY <1>1 DEF IInv, Control
<1>3. queue' \in Seq({DONE} \cup Chunks) /\ Len(queue') <= MAXSIZE
  BY <1>1, TailEntries, SizeAssumption DEF IInv, TypeOK
<1>4. TypeOK'
  <2>1. orphan' \in BOOLEAN
    BY <1>1, Zenon
  <2>2. QED
    BY <1>1, <1>3, <2>1 DEF IInv, TypeOK, Chunks
<1>5. Control'
  BY <1>1 DEF IInv, Control, Chunks
<1>6. QED
  BY <1>2, <1>4, <1>5 DEF IInv

(* A frame is brought to the router's yield. *)
LEMMA YieldStep ==
    ASSUME IInv, router = "wait", NEW x \in {END, KEEPALIVE} \cup Chunks, Yield(x),
           \/ task = "got" /\ item # DONE /\ x = item
           \/ task = "got" /\ item = DONE /\ ~error /\ x = END
           \/ task = "waiting" /\ x = KEEPALIVE,
           UNCHANGED <<stream, cancelled, orphan, wire, conn, client, shown>>
    PROVE  IInv'
<1>1. /\ router' = "yield" /\ out' = x /\ task' = "none" /\ item' = 0
      /\ UNCHANGED <<made, over, worker, held, queue, error, cancelled, orphan, wire, conn,
                     client, shown>>
  BY DEF Yield, stream
<1>2. TypeOK'
  BY <1>1 DEF IInv, TypeOK, Chunks, DONE
<1>3. Control'
  BY <1>1 DEF IInv, Control, Chunks
<1>4. x = END => task = "got" /\ item = DONE /\ ~error
  BY DEF IInv, TypeOK, END, KEEPALIVE, Chunks, DONE
<1>5. ASSUME client' # "left" PROVE EndIsLast'
  BY <1>1, <1>4, <1>5 DEF IInv, EndIsLast, NothingLeft
<1>6. ASSUME client' = "reading" PROVE Ordered'
  <2>1. PICK b, q, e \in Nat : Places(b, q, e)
    BY <1>1, <1>6 DEF IInv, Ordered
  <2>2. IsChunk(x) <=> InTask
    BY DEF IInv, TypeOK, IsChunk, InTask, END, KEEPALIVE, DONE, Chunks
  <2>3. IsChunk(x) => x = item
    BY DEF IInv, TypeOK, IsChunk, END, KEEPALIVE, DONE, Chunks
  <2>4. ~AtYield /\ ~InTask' /\ (AtYield' <=> IsChunk(x))
    BY <1>1 DEF AtYield, InTask
  <2>5. Places(b, q, e)'
    BY <1>1, <2>1, <2>2, <2>3, <2>4 DEF Places
  <2>6. QED
    BY <2>5 DEF Ordered
<1>7. QED
  BY <1>2, <1>3, <1>5, <1>6 DEF IInv

(* The model has failed. *)
LEMMA StreamRaisedStep == ASSUME IInv, StreamRaised PROVE IInv'
<1>1. /\ router = "wait" /\ task = "got" /\ item = DONE /\ error
      /\ router' = "over" /\ task' = "none" /\ item' = 0 /\ out' = 0
      /\ conn' = "broken" /\ cancelled' = TRUE
      /\ UNCHANGED <<made, over, worker, held, queue, error, orphan, wire, client, shown>>
  BY DEF StreamRaised, stream
<1>2. TypeOK'
  BY <1>1 DEF IInv, TypeOK, Chunks, DONE, KEEPALIVE
<1>3. Control'
  BY <1>1 DEF IInv, Control, Chunks, EndIsLast, NothingLeft
<1>4. ASSUME client' # "left" PROVE EndIsLast'
  BY <1>1, <1>4 DEF IInv, EndIsLast, NothingLeft
<1>5. ASSUME client' = "reading" PROVE Ordered'
  <2>1. PICK b, q, e \in Nat : Places(b, q, e)
    BY <1>1, <1>5 DEF IInv, Ordered
  <2>2. ~AtYield /\ ~InTask /\ ~AtYield' /\ ~InTask'
    BY <1>1 DEF AtYield, InTask, IsChunk, DONE
  <2>3. Places(b, q, e)'
    BY <1>1, <2>1, <2>2 DEF Places
  <2>4. QED
    BY <2>3 DEF Ordered
<1>6. QED
  BY <1>2, <1>3, <1>4, <1>5 DEF IInv

(* A frame goes into the connection, if somebody reads. *)
LEMMA SendsType ==
    ASSUME IInv, Sends
    PROVE  /\ wire' \in Seq({END, KEEPALIVE} \cup Chunks) /\ Len(wire') <= WIRE
           /\ router = "yield" /\ (client # "left" => wire' = Append(wire, out))
<1>1. CASE client = "left"
  <2>1. wire' = <<>> /\ router = "yield"
    BY <1>1 DEF Sends
  <2>2. <<>> \in Seq({END, KEEPALIVE} \cup Chunks) /\ Len(<<>>) = 0
    OBVIOUS
  <2>3. QED
    BY <1>1, <2>1, <2>2, SizeAssumption
<1>2. CASE client # "left"
  BY <1>2, SizeAssumption DEF Sends, IInv, TypeOK
<1>3. QED
  BY <1>1, <1>2

(* The last frame. *)
LEMMA SendLastStep == ASSUME IInv, SendLast PROVE IInv'
<1>1. /\ out = END /\ router' = "over" /\ out' = 0 /\ conn' = "ended" /\ cancelled' = TRUE
      /\ UNCHANGED <<made, over, worker, held, queue, error, task, item, orphan, client, shown>>
  BY DEF SendLast, stream
<1>2. /\ wire' \in Seq({END, KEEPALIVE} \cup Chunks) /\ Len(wire') <= WIRE
      /\ router = "yield" /\ (client # "left" => wire' = Append(wire, out))
  BY SendsType DEF SendLast
<1>3. TypeOK'
  BY <1>1, <1>2 DEF IInv, TypeOK, Chunks, KEEPALIVE
<1>4. Control'
  BY <1>1, <1>2 DEF IInv, Control, Chunks, EndIsLast, NothingLeft
<1>5. ASSUME client' # "left" PROVE EndIsLast'
  <2>1. \A i \in 1 .. Len(wire) : wire[i] # END
    BY <1>1, <1>2, <1>5 DEF IInv, EndIsLast
  <2>2. \A i \in 1 .. Len(wire') : \/ i \in 1 .. Len(wire) /\ wire'[i] = wire[i]
                                   \/ i = Len(wire')
    <3>1. wire' = Append(wire, out) /\ wire \in Seq({END, KEEPALIVE} \cup Chunks)
          /\ out \in {END, KEEPALIVE} \cup Chunks
      BY <1>1, <1>2, <1>5 DEF IInv, TypeOK
    <3>2. QED
      BY <3>1, AppendEntries
  <2>3. NothingLeft /\ ~error
    BY <1>1, <1>2, <1>5 DEF IInv, EndIsLast
  <2>4. QED
    BY <1>1, <1>2, <1>5, <2>1, <2>2, <2>3 DEF IInv, EndIsLast, NothingLeft
<1>6. ASSUME client' = "reading" PROVE Ordered'
  <2>1. PICK b, q, e \in Nat : Places(b, q, e)
    BY <1>1, <1>6 DEF IInv, Ordered
  <2>2. END \in Int /\ ~IsChunk(END)
    BY DEF END, IsChunk
  <2>3. ~AtYield /\ ~AtYield' /\ (InTask' <=> InTask)
    BY <1>1, <2>2 DEF AtYield, InTask
  <2>4. Len(shown) \in Nat
    BY DEF IInv, TypeOK
  <2>5. InOrder(Append(wire, END), Len(shown), b)
    BY <2>1, <2>2, <2>4, IntSeqs, InOrderMark DEF Places, IInv
  <2>6. Places(b, q, e)'
    BY <1>1, <1>2, <1>6, <2>1, <2>3, <2>5 DEF Places
  <2>7. QED
    BY <2>6 DEF Ordered
<1>7. QED
  BY <1>3, <1>4, <1>5, <1>6 DEF IInv

(* Any other frame. *)
LEMMA SendNextStep == ASSUME IInv, SendNext PROVE IInv'
<1>1. /\ out # END /\ cancelled' \in {cancelled} \cup {client = "left"}
      /\ \/ cancelled' /\ router' = "yield" /\ out' = END /\ task' = "none"
         \/ ~cancelled' /\ router' = "wait" /\ out' = 0 /\ task' = "waiting"
      /\ UNCHANGED <<made, over, worker, held, queue, error, item, orphan, conn, client, shown>>
  BY DEF SendNext, stream
<1>2. /\ wire' \in Seq({END, KEEPALIVE} \cup Chunks) /\ Len(wire') <= WIRE
      /\ router = "yield" /\ (client # "left" => wire' = Append(wire, out))
  BY SendsType DEF SendNext
<1>3. client # "left" => ~cancelled'
  BY <1>1, <1>2 DEF IInv, Control
<1>4. TypeOK'
  <2>1. cancelled' \in BOOLEAN
    BY <1>1, Zenon DEF IInv, TypeOK
  <2>2. QED
    BY <1>1, <1>2, <2>1 DEF IInv, TypeOK, Chunks, KEEPALIVE
<1>5. Control'
  BY <1>1, <1>2, <1>3 DEF IInv, Control, Chunks
<1>6. ASSUME client' # "left" PROVE EndIsLast'
  <2>1. EndIsLast /\ client # "left" /\ router' = "wait" /\ task' = "waiting"
    BY <1>1, <1>3, <1>6 DEF IInv
  <2>2. wire' = Append(wire, out) /\ wire \in Seq({END, KEEPALIVE} \cup Chunks)
        /\ out \in {END, KEEPALIVE} \cup Chunks
    BY <1>2, <2>1 DEF IInv, TypeOK
  <2>3. \A i \in 1 .. Len(wire) : wire[i] # END
    BY <1>2, <2>1 DEF EndIsLast
  <2>4. \A i \in 1 .. Len(wire') : wire'[i] # END
    BY <1>1, <2>2, <2>3, AppendEntries
  <2>5. conn # "broken"
    BY <1>2, <2>1 DEF EndIsLast
  <2>6. QED
    BY <1>1, <2>1, <2>4, <2>5 DEF EndIsLast, NothingLeft
<1>7. ASSUME client' = "reading" PROVE Ordered'
  <2>1. PICK b, q, e \in Nat : Places(b, q, e)
    BY <1>1, <1>7 DEF IInv, Ordered
  <2>2. router' = "wait" /\ task' = "waiting" /\ wire' = Append(wire, out)
    BY <1>1, <1>2, <1>3, <1>7
  <2>3. ~InTask /\ ~AtYield' /\ ~InTask' /\ (AtYield <=> IsChunk(out))
    BY <1>2, <2>2 DEF AtYield, InTask, IInv, Control
  <2>4. Len(shown) \in Nat /\ out \in Int /\ wire \in Seq(Int) /\ shown' = shown
    BY <1>1, IntSeqs, SizeAssumption DEF IInv, TypeOK, END, KEEPALIVE, Chunks
  <2>5. CASE IsChunk(out)
    <3>1. out = b + 1 /\ q = b + 1
      BY <2>1, <2>3, <2>5 DEF Places
    <3>2. InOrder(Append(wire, b + 1), Len(shown), b + 1)
      BY <2>1, <2>4, InOrderNext DEF Places
    <3>3. InOrder(wire, Len(shown), b + 1)'
      BY <2>2, <2>4, <3>1, <3>2
    <3>4. Places(b + 1, q, e)'
      BY <1>1, <2>1, <2>3, <3>1, <3>3 DEF Places
    <3>5. QED
      BY <3>4 DEF Ordered
  <2>6. CASE ~IsChunk(out)
    <3>1. q = b
      BY <2>1, <2>3, <2>6 DEF Places
    <3>2. InOrder(Append(wire, out), Len(shown), b)
      BY <2>1, <2>4, <2>6, InOrderMark DEF Places
    <3>3. InOrder(wire, Len(shown), b)'
      BY <2>2, <2>4, <3>2
    <3>4. Places(b, q, e)'
      BY <1>1, <2>1, <2>3, <3>1, <3>3 DEF Places
    <3>5. QED
      BY <3>4 DEF Ordered
  <2>7. QED
    BY <2>5, <2>6
<1>8. QED
  BY <1>4, <1>5, <1>6, <1>7 DEF IInv

(* Any step of the encoder with its router. *)
LEMMA EncodeStep == ASSUME IInv, Encode \/ Keepalive PROVE IInv'
<1>1. CASE ChunkArrived
  <2>1. item \in {END, KEEPALIVE} \cup Chunks
    BY <1>1 DEF ChunkArrived, IInv, TypeOK
  <2>2. QED
    BY <1>1, <2>1, YieldStep DEF ChunkArrived
<1>2. CASE StreamStopped
  BY <1>2, YieldStep DEF StreamStopped
<1>3. CASE Keepalive
  BY <1>3, YieldStep DEF Keepalive
<1>4. QED
  BY <1>1, <1>2, <1>3, StreamRaisedStep, SendLastStep, SendNextStep DEF Encode

(* The response is cancelled. *)
LEMMA ResponseCancelledStep == ASSUME IInv, ResponseCancelled PROVE IInv'
<1>1. /\ client' = "left" /\ client = "left"
      /\ router' = "over" /\ out' = 0 /\ task' = "none" /\ item' = 0
      /\ orphan' = (task = "waiting")
      /\ cancelled' = TRUE /\ conn' = "broken" /\ wire' = <<>>
      /\ UNCHANGED <<made, over, worker, held, queue, error, shown>>
  BY DEF ResponseCancelled, stream
<1>2. TypeOK'
  <2>1. orphan' \in BOOLEAN /\ cancelled' \in BOOLEAN
    BY <1>1, Zenon
  <2>2. <<>> \in Seq({END, KEEPALIVE} \cup Chunks) /\ Len(<<>>) = 0
    OBVIOUS
  <2>3. wire' \in Seq({END, KEEPALIVE} \cup Chunks) /\ Len(wire') <= WIRE
    BY <1>1, <2>2, SizeAssumption
  <2>4. QED
    BY <1>1, <2>1, <2>3 DEF IInv, TypeOK, Chunks, KEEPALIVE, DONE
<1>3. Control'
  BY <1>1 DEF IInv, Control, Chunks
<1>4. QED
  BY <1>1, <1>2, <1>3 DEF IInv

-----------------------------------------------------------------------------
(* and the client's. *)

(* The client reads a frame. *)
LEMMA ReadFrameStep == ASSUME IInv, ReadFrame PROVE IInv'
<1>1. /\ client = "reading" /\ wire # <<>> /\ wire' = Tail(wire)
      /\ client' = IF Head(wire) = END THEN "done" ELSE client
      /\ shown' = IF Head(wire) \in {END, KEEPALIVE} THEN shown ELSE Append(shown, Head(wire))
      /\ UNCHANGED <<made, over, worker, held, queue, error, cancelled, task, item, orphan,
                     router, out, conn>>
  BY DEF ReadFrame, stream, encoder
<1>2. /\ wire' \in Seq({END, KEEPALIVE} \cup Chunks) /\ Len(wire) = Len(wire') + 1
      /\ Len(wire') \in Nat /\ Head(wire) \in {END, KEEPALIVE} \cup Chunks /\ Head(wire) = wire[1]
      /\ \A i \in 1 .. Len(wire') : i + 1 \in 1 .. Len(wire) /\ wire'[i] = wire[i + 1]
  BY <1>1, TailEntries DEF IInv, TypeOK
<1>3. TypeOK'
  <2>1. Len(wire') <= WIRE
    BY <1>2, SizeAssumption DEF IInv, TypeOK
  <2>2. shown' \in Seq(Chunks) /\ client' \in {"reading", "done", "error", "left"}
    BY <1>1, <1>2 DEF IInv, TypeOK
  <2>3. QED
    BY <1>1, <1>2, <2>1, <2>2 DEF IInv, TypeOK, Chunks
<1>4. Control'
  BY <1>1 DEF IInv, Control, Chunks
<1>5. EndIsLast'
  <2>1. EndIsLast
    BY <1>1 DEF IInv
  <2>2. ASSUME NEW i \in 1 .. Len(wire'), wire'[i] = END
        PROVE  i = Len(wire') /\ router = "over" /\ ~error
    <3>1. i + 1 \in 1 .. Len(wire) /\ wire[i + 1] = END
      BY <1>2, <2>2
    <3>2. i + 1 = Len(wire) /\ router = "over" /\ ~error
      BY <2>1, <3>1 DEF EndIsLast
    <3>3. i + 1 = Len(wire') + 1 /\ Len(wire') \in Nat
      BY <1>2, <3>2, Zenon
    <3>4. i = Len(wire')
      BY <3>3
    <3>5. QED
      BY <3>2, <3>4
  <2>3. QED
    BY <1>1, <2>1, <2>2 DEF EndIsLast, NothingLeft
<1>6. ASSUME client' = "reading" PROVE Ordered'
  <2>1. PICK b, q, e \in Nat : Places(b, q, e)
    BY <1>1 DEF IInv, Ordered
  <2>2. Len(shown) \in Nat /\ wire \in Seq(Int) /\ shown \in Seq(Int) /\ Head(wire) \in Int
    BY <1>2, IntSeqs, SizeAssumption DEF IInv, TypeOK, END, KEEPALIVE, Chunks
  <2>3. /\ ~IsChunk(Head(wire)) => InOrder(wire', Len(shown), b)
        /\ IsChunk(Head(wire)) => Head(wire) = Len(shown) + 1 /\ InOrder(wire', Len(shown) + 1, b)
    BY <1>1, <2>1, <2>2, InOrderTail DEF Places
  <2>4. IsChunk(Head(wire)) <=> Head(wire) \notin {END, KEEPALIVE}
    BY <1>2, SizeAssumption DEF IsChunk, END, KEEPALIVE, Chunks
  <2>5. /\ \A i \in 1 .. Len(shown') : shown'[i] = i
        /\ InOrder(wire', Len(shown'), b)
    <3>1. CASE IsChunk(Head(wire))
      <4>1. shown' = Append(shown, Len(shown) + 1)
        BY <1>1, <2>3, <2>4, <3>1
      <4>2. Len(shown') = Len(shown) + 1 /\ shown'[Len(shown) + 1] = Len(shown) + 1
            /\ \A i \in 1 .. Len(shown) : shown'[i] = shown[i]
        BY <2>2, <4>1
      <4>3. \A i \in 1 .. Len(shown) : shown[i] = i
        BY <2>1 DEF Places
      <4>4. \A i \in 1 .. Len(shown') : shown'[i] = i
        BY <2>2, <4>2, <4>3
      <4>5. QED
        BY <2>3, <3>1, <4>2, <4>4
    <3>2. CASE ~IsChunk(Head(wire))
      BY <1>1, <2>1, <2>3, <2>4, <3>2 DEF Places
    <3>3. QED
      BY <3>1, <3>2
  <2>6. Places(b, q, e)'
    BY <1>1, <2>1, <2>5 DEF Places, AtYield, InTask
  <2>7. QED
    BY <2>6 DEF Ordered
<1>7. QED
  BY <1>3, <1>4, <1>5, <1>6 DEF IInv

(* The client finds the connection broken. *)
LEMMA ReadBrokenStep == ASSUME IInv, ReadBroken PROVE IInv'
<1>1. /\ client = "reading" /\ client' = "error"
      /\ UNCHANGED <<made, over, worker, held, queue, error, cancelled, task, item, orphan,
                     router, out, wire, conn, shown>>
  BY DEF ReadBroken, stream, encoder
<1>2. TypeOK'
  BY <1>1 DEF IInv, TypeOK, Chunks
<1>3. Control' /\ EndIsLast'
  BY <1>1 DEF IInv, Control, Chunks, EndIsLast, NothingLeft
<1>4. QED
  BY <1>1, <1>2, <1>3 DEF IInv

(* The user leaves. *)
LEMMA LeaveStep == ASSUME IInv, Leave PROVE IInv'
<1>1. /\ client' = "left" /\ wire' = <<>>
      /\ UNCHANGED <<made, over, worker, held, queue, error, cancelled, task, item, orphan,
                     router, out, conn, shown>>
  BY DEF Leave, stream, encoder
<1>2. <<>> \in Seq({END, KEEPALIVE} \cup Chunks) /\ Len(<<>>) = 0
  OBVIOUS
<1>3. wire' \in Seq({END, KEEPALIVE} \cup Chunks) /\ Len(wire') <= WIRE
  BY <1>1, <1>2, SizeAssumption
<1>4. TypeOK'
  BY <1>1, <1>3 DEF IInv, TypeOK, Chunks
<1>5. Control'
  BY <1>1 DEF IInv, Control, Chunks
<1>6. QED
  BY <1>1, <1>4, <1>5 DEF IInv

(* The invariant is inductive. *)
LEMMA NextIInv == IInv /\ [Next]_vars => IInv'
<1> SUFFICES ASSUME IInv, [Next]_vars PROVE IInv'
  OBVIOUS
<1>1. CASE UNCHANGED vars
  <2>1. UNCHANGED <<made, over, worker, held, queue, error, cancelled, task, item, orphan,
                     router, out, wire, conn, client, shown>>
    BY <1>1 DEF vars, stream, encoder
  <2>2. TypeOK' /\ Control'
    BY <2>1 DEF IInv, TypeOK, Control, Chunks
  <2>3. EndIsLast => EndIsLast'
    BY <2>1 DEF EndIsLast, NothingLeft
  <2>4. Ordered => Ordered'
    BY <2>1 DEF Ordered, Places, AtYield, InTask
  <2>5. QED
    BY <2>1, <2>2, <2>3, <2>4 DEF IInv
<1>2. CASE Over
  BY <1>1, <1>2 DEF Over
<1>3. QED
  BY <1>1, <1>2, PumpStep, CancelWorkerStep, TaskGetsStep, OrphanGetsStep, EncodeStep,
     ResponseCancelledStep, ReadFrameStep, ReadBrokenStep, LeaveStep DEF Next, Read

(* The inductive invariant holds throughout. *)
LEMMA Invariance == Spec => []IInv
BY InitIInv, NextIInv, PTL DEF Spec

-----------------------------------------------------------------------------
(* The results *)

(* The state keeps its types; the queue of StreamHandle stays within        *)
(* MAXSIZE and the connection's buffer within WIRE.                         *)
THEOREM TypesHold == Spec => []TypeOK
<1>1. IInv => TypeOK
  BY DEF IInv
<1>2. QED
  BY <1>1, Invariance, PTL

(* What has been shown is in order. *)
LEMMA ShownInOrder ==
    ASSUME NEW s \in Seq(Int), \A i \in 1 .. Len(s) : s[i] = i
    PROVE  InOrder(s, 0, Len(s))
<1>1. Len(s) \in Nat
  OBVIOUS
<1>2. QED
  BY <1>1 DEF InOrder, IsChunk

(* A place for one entry *)
LEMMA OptInOrder ==
    ASSUME NEW cond \in BOOLEAN, NEW x \in Int, NEW a \in Nat, NEW b \in Nat,
           cond /\ IsChunk(x) => x = a + 1 /\ b = a + 1,
           ~(cond /\ IsChunk(x)) => b = a
    PROVE  InOrder(Opt(cond, x), a, b) /\ Opt(cond, x) \in Seq(Int)
<1>1. CASE cond
  BY <1>1, InOrderOne DEF Opt
<1>2. CASE ~cond
  <2>1. InOrder(<<>>, a, b) /\ <<>> \in Seq(Int)
    BY <1>2, InOrderEmpty
  <2>2. QED
    BY <1>2, <2>1 DEF Opt
<1>3. QED
  BY <1>1, <1>2

(* While the user reads, every chunk the generator has yielded is in one    *)
(* place of the pipeline, in its order: the keepalives of                   *)
(* stream_chat_envelopes, the full queue and the slow connection lose none  *)
(* and repeat none.                                                         *)
THEOREM NoChunkIsLost == Spec => []NothingLost
<1>1. IInv => NothingLost
  <2> SUFFICES ASSUME IInv, client = "reading", over # "cut" PROVE InOrder(Pipeline, 0, made)
    BY DEF NothingLost
  <2>1. PICK b, q, e \in Nat : Places(b, q, e)
    BY DEF IInv, Ordered
  <2>2. /\ shown \in Seq(Int) /\ wire \in Seq(Int) /\ queue \in Seq(Int) /\ Len(shown) \in Nat
        /\ made \in Nat /\ held \in Int /\ out \in Int /\ item \in Int
    BY IntSeqs, SizeAssumption DEF IInv, TypeOK, END, KEEPALIVE, DONE, Chunks
  <2> DEFINE m == IF AtYield THEN b + 1 ELSE b
             p1 == shown \o wire
             p2 == p1 \o Opt(router = "yield", out)
             p3 == p2 \o Opt(task = "got", item)
             p4 == p3 \o queue
             p5 == p4 \o Opt(worker = "put", held)
  <2>3. m \in Nat
    BY <2>1
  <2>4. InOrder(p1, 0, b) /\ p1 \in Seq(Int)
    BY <2>1, <2>2, ShownInOrder, InOrderConcat DEF Places
  <2>5. InOrder(Opt(router = "yield", out), b, m) /\ Opt(router = "yield", out) \in Seq(Int)
    <3>1. router = "yield" /\ IsChunk(out) => out = b + 1 /\ m = b + 1
      BY <2>1 DEF Places, AtYield
    <3>2. ~(router = "yield" /\ IsChunk(out)) => m = b
      BY DEF AtYield
    <3>3. QED
      BY <2>1, <2>2, <2>3, <3>1, <3>2, OptInOrder
  <2>6. InOrder(Opt(task = "got", item), m, q) /\ Opt(task = "got", item) \in Seq(Int)
    <3>1. ~(AtYield /\ InTask)
      BY DEF IInv, Control, AtYield, InTask
    <3>2. task = "got" /\ IsChunk(item) => item = m + 1 /\ q = m + 1
      BY <2>1, <3>1 DEF Places, InTask
    <3>3. ~(task = "got" /\ IsChunk(item)) => q = m
      BY <2>1 DEF Places, InTask
    <3>4. QED
      BY <2>1, <2>2, <2>3, <3>2, <3>3, OptInOrder
  <2>7. InOrder(queue, q, e)
    BY <2>1 DEF Places
  <2>8. InOrder(Opt(worker = "put", held), e, made) /\ Opt(worker = "put", held) \in Seq(Int)
    <3>1. worker = "put" => IsChunk(held)
      BY SizeAssumption DEF IInv, Control, Chunks, IsChunk
    <3>2. worker = "put" /\ IsChunk(held) => held = e + 1 /\ made = e + 1
      BY <2>1 DEF Places
    <3>3. ~(worker = "put" /\ IsChunk(held)) => made = e
      BY <2>1, <3>1 DEF Places
    <3>4. QED
      BY <2>1, <2>2, <3>2, <3>3, OptInOrder
  <2> HIDE DEF m, p1
  <2>9. InOrder(p2, 0, m) /\ p2 \in Seq(Int)
    BY <2>1, <2>3, <2>4, <2>5, InOrderConcat
  <2> HIDE DEF p2
  <2>10. InOrder(p3, 0, q) /\ p3 \in Seq(Int)
    BY <2>1, <2>3, <2>6, <2>9, InOrderConcat
  <2> HIDE DEF p3
  <2>11. InOrder(p4, 0, e) /\ p4 \in Seq(Int)
    BY <2>1, <2>2, <2>7, <2>10, InOrderConcat
  <2> HIDE DEF p4
  <2>12. InOrder(p5, 0, made)
    BY <2>1, <2>2, <2>8, <2>11, InOrderConcat
  <2>13. QED
    BY <2>12 DEF Pipeline, p1, p2, p3, p4, p5
<1>2. QED
  BY <1>1, Invariance, PTL

(* Chunks that are on their way are counted: fewer are shown than made, and *)
(* all are shown when nothing is under way.                                 *)
LEMMA ShownUpToMade ==
    ASSUME IInv, client = "reading"
    PROVE  /\ wire # <<>> /\ IsChunk(Head(wire)) => Head(wire) = Len(shown) + 1 /\ Len(shown) < made
           /\ /\ \A i \in 1 .. Len(wire) : ~IsChunk(wire[i])
              /\ router = "over" /\ queue = <<>> /\ worker = "returned" /\ over # "cut"
              => Len(shown) = made
<1>1. PICK b, q, e \in Nat : Places(b, q, e)
  BY DEF IInv, Ordered
<1>2. wire \in Seq(Int) /\ Len(shown) \in Nat /\ made \in Nat
  BY IntSeqs, SizeAssumption DEF IInv, TypeOK
<1>3. InOrder(wire, Len(shown), b) /\ InOrder(queue, q, e)
  BY <1>1 DEF Places
<1>4. b <= q /\ q <= e /\ e <= made
  BY <1>1, <1>2, <1>3 DEF Places, InOrder
<1>5. ASSUME wire # <<>>, IsChunk(Head(wire)) PROVE Head(wire) = Len(shown) + 1 /\ Len(shown) < made
  <2>1. Head(wire) = Len(shown) + 1 /\ Len(shown) + 1 <= b
    BY <1>1, <1>2, <1>3, <1>5, InOrderTail
  <2>2. QED
    BY <1>1, <1>2, <1>4, <2>1
<1>6. ASSUME \A i \in 1 .. Len(wire) : ~IsChunk(wire[i]),
             router = "over", queue = <<>>, worker = "returned", over # "cut"
      PROVE  Len(shown) = made
  <2>1. Len(shown) = b
    BY <1>1, <1>2, <1>3, <1>6, InOrderNone
  <2>2. q = b
    BY <1>1, <1>6 DEF Places, AtYield, InTask, IInv, Control
  <2>3. q = e
    BY <1>1, <1>3, <1>6, InOrderEmpty
  <2>4. made = e
    BY <1>1, <1>6 DEF Places
  <2>5. QED
    BY <2>1, <2>2, <2>3, <2>4
<1>7. QED
  BY <1>5, <1>6

(* The whole streaming path behaves for its user as StreamPromise says: the *)
(* chunks in order and each once, a normal end only after the last one, an  *)
(* error only when the model failed and after the chunks it had made.       *)
THEOREM StreamKeepsPromise == Spec => KeepsPromise
<1>1. Init => Promise!Init
  BY DEF Init, Promise!Init
<1>2. IInv /\ [Next]_vars => [Promise!Next]_(Promise!vars)
  <2> SUFFICES ASSUME IInv, [Next]_vars PROVE Promise!Next \/ UNCHANGED Promise!vars
    OBVIOUS
  <2>1. CASE NextChunk
    <3>1. over = "no" /\ made' = made + 1 /\ UNCHANGED <<shown, client>>
      BY <2>1 DEF NextChunk, IInv, Control
    <3>2. over' = "no" \/ (over' = "gone" /\ client = "left")
      <4>1. made + 1 \in Chunks
        BY <2>1, SizeAssumption DEF NextChunk, IInv, TypeOK, Chunks
      <4>2. QED
        BY <2>1, <3>1, <4>1, HandedStep DEF NextChunk
    <3>3. Promise!Produce
      BY <3>1, <3>2 DEF Promise!Produce, Promise!Early
    <3>4. QED
      BY <3>3 DEF Promise!Next
  <2>2. CASE PutChunk
    <3>1. over = "no" /\ held \in Chunks /\ UNCHANGED <<made, shown, client>>
      BY <2>2 DEF PutChunk, IInv, Control
    <3>2. over' = over \/ (over' = "gone" /\ client = "left")
      BY <2>2, <3>1, HandedStep DEF PutChunk
    <3>3. CASE over' = over
      BY <3>1, <3>3 DEF Promise!vars
    <3>4. CASE over' = "gone" /\ client = "left"
      <4>1. Promise!End
        BY <3>1, <3>4 DEF Promise!End, Promise!Early
      <4>2. QED
        BY <4>1 DEF Promise!Next
    <3>5. QED
      BY <3>2, <3>3, <3>4
  <2>3. CASE GeneratorStops \/ GeneratorRaises \/ (CancelWorker /\ worker # "fin")
    <3>1. over = "no" /\ over' \in {"stop", "raise", "cut"} /\ UNCHANGED <<made, shown, client>>
      BY <2>3 DEF GeneratorStops, GeneratorRaises, CancelWorker, IInv, Control
    <3>2. Promise!End
      BY <3>1 DEF Promise!End
    <3>3. QED
      BY <3>2 DEF Promise!Next
  <2>4. CASE ReadFrame
    <3>1. /\ client = "reading" /\ wire # <<>>
          /\ client' = IF Head(wire) = END THEN "done" ELSE client
          /\ shown' = IF Head(wire) \in {END, KEEPALIVE} THEN shown ELSE Append(shown, Head(wire))
          /\ UNCHANGED <<made, over>>
      BY <2>4 DEF ReadFrame, stream
    <3>2. Head(wire) = wire[1] /\ Head(wire) \in {END, KEEPALIVE} \cup Chunks /\ Len(wire) \in Nat \ {0}
      BY <3>1 DEF IInv, TypeOK
    <3>3. CASE Head(wire) = END
      <4>1. 1 \in 1 .. Len(wire)
        BY <3>2
      <4>2. 1 = Len(wire) /\ router = "over" /\ ~error /\ NothingLeft
        BY <3>1, <3>2, <3>3, <4>1 DEF IInv, EndIsLast
      <4>3. \A i \in 1 .. Len(wire) : ~IsChunk(wire[i])
        <5>1. \A i \in 1 .. Len(wire) : i = 1
          BY <4>2
        <5>2. \A i \in 1 .. Len(wire) : wire[i] = END
          BY <3>2, <3>3, <5>1, Zenon
        <5>3. QED
          BY <5>2 DEF IsChunk, END
      <4>4. over = "cut" \/ (over = "stop" /\ Len(shown) = made)
        <5>1. over \in {"stop", "cut"}
          BY <3>1, <4>2 DEF IInv, TypeOK, Control, NothingLeft
        <5>2. QED
          BY <3>1, <4>2, <4>3, <5>1, ShownUpToMade DEF NothingLeft
      <4>5. Promise!Done
        BY <3>1, <3>3, <4>4 DEF Promise!Done
      <4>6. QED
        BY <4>5 DEF Promise!Next
    <3>4. CASE Head(wire) = KEEPALIVE
      BY <3>1, <3>4 DEF Promise!vars, END, KEEPALIVE
    <3>5. CASE Head(wire) \in Chunks
      <4>1. IsChunk(Head(wire)) /\ Head(wire) \notin {END, KEEPALIVE}
        BY <3>5, SizeAssumption DEF IsChunk, Chunks, END, KEEPALIVE
      <4>2. Head(wire) = Len(shown) + 1 /\ Len(shown) < made
        BY <3>1, <4>1, ShownUpToMade
      <4>3. shown' = Append(shown, Len(shown) + 1) /\ client' = client
        BY <3>1, <4>1, <4>2, Zenon
      <4>4. Promise!Show
        BY <3>1, <4>2, <4>3 DEF Promise!Show
      <4>5. QED
        BY <4>4 DEF Promise!Next
    <3>6. QED
      BY <3>2, <3>3, <3>4, <3>5
  <2>5. CASE ReadBroken
    <3>1. client = "reading" /\ wire = <<>> /\ conn = "broken" /\ client' = "error"
          /\ UNCHANGED <<made, over, shown>>
      BY <2>5 DEF ReadBroken, stream
    <3>2. router = "over" /\ error /\ NothingLeft
      BY <3>1 DEF IInv, EndIsLast
    <3>3. over = "raise"
      BY <3>2 DEF IInv, Control
    <3>4. \A i \in 1 .. Len(wire) : ~IsChunk(wire[i])
      BY <3>1
    <3>5. Len(shown) = made
      BY <3>1, <3>2, <3>3, <3>4, ShownUpToMade DEF NothingLeft
    <3>6. Promise!Fail
      BY <3>1, <3>3, <3>5 DEF Promise!Fail
    <3>7. QED
      BY <3>6 DEF Promise!Next
  <2>6. CASE Leave
    <3>1. Promise!Leave
      BY <2>6 DEF Leave, Promise!Leave, stream
    <3>2. QED
      BY <3>1 DEF Promise!Next
  <2>7. CASE \/ PutEnd \/ (CancelWorker /\ worker = "fin") \/ TaskGets \/ OrphanGets
             \/ Keepalive \/ Encode \/ ResponseCancelled \/ Over \/ UNCHANGED vars
    <3>1. CASE PutEnd \/ (CancelWorker /\ worker = "fin") \/ TaskGets \/ OrphanGets
      BY <3>1 DEF PutEnd, CancelWorker, TaskGets, OrphanGets, Promise!vars
    <3>2. CASE Keepalive \/ Encode
      BY <3>2 DEF Keepalive, Encode, ChunkArrived, StreamStopped, StreamRaised, SendLast,
                  SendNext, stream, Promise!vars
    <3>3. CASE ResponseCancelled \/ Over \/ UNCHANGED vars
      BY <3>3 DEF ResponseCancelled, Over, vars, stream, Promise!vars
    <3>4. QED
      BY <2>7, <3>1, <3>2, <3>3
  <2>8. QED
    BY <2>1, <2>2, <2>3, <2>4, <2>5, <2>6, <2>7 DEF Next, Pump, Read
<1>3. QED
  BY <1>1, <1>2, Invariance, PTL DEF Spec, KeepsPromise, Promise!Spec
=============================================================================
