--------------------------- MODULE RegistryProofs ---------------------------
(***************************************************************************)
(* The catalog on disk and in memory, for any ids, contents and number of  *)
(* download threads.                                                       *)
(***************************************************************************)
EXTENDS Registry, FiniteSetTheorems, WellFoundedInduction, TLAPS

(* An operation in flight knows its entry, which was asked for and whose    *)
(* registry is open.                                                        *)
About(o) == o.id \in Ids /\ o.sha \in asked[o.id] /\ DirOf(o.id) \in opened

Shape ==
    /\ \A t \in Threads : dl[t] = Idle \/ (t \in Active /\ About(dl[t]))
    /\ rm = Idle \/ (rm.pc # "idle" /\ About(rm))

(* What an index or a sidecar names was downloaded, into its directory.     *)
Origins ==
    /\ \A id \in Ids : index[id] # NoSha => index[id] \in asked[id]
    /\ \A s \in Shas : meta[s] \in Ids => s \in asked[meta[s]]
    /\ \A id \in Models : asked[id] \subseteq ModelShas
    /\ \A id \in Loras : asked[id] \subseteq LoraShas

(* Two operations on one id or one content are on record. *)
Meet(o, p) == o.id = p.id \/ o.sha = p.sha
Recorded ==
    /\ \A t, u \in Active : t # u /\ Meet(dl[t], dl[u]) => dl[t].id \in crossed
    /\ \A t \in Active : rm # Idle /\ Meet(dl[t], rm) => {dl[t].id, rm.id} \subseteq crossed

(* A file is open in threads that have yet to close it. *)
Writing(f, s) == f # NoFile => \A t \in f.by : t \in Threads /\ dl[t].pc = "close" /\ dl[t].sha = s
Writers == \A s \in Shas : Writing(tmp[s], s) /\ Writing(blob[s], s)

(* What a download will rename is whole, or is the file of two downloads.   *)
TmpIsWhole ==
    \A t \in Threads : LET s == dl[t].sha IN
       dl[t].pc \in {"close", "replace"} /\ tmp[s] # NoFile /\ (tmp[s].bad \/ Contended(t)) =>
          tmp[s].shared

(* Two downloads of the content s have met. *)
Met(s) == \E id \in crossed : s \in asked[id]
SharedHaveMet ==
    \A s \in Shas : /\ tmp[s] # NoFile /\ tmp[s].shared => Met(s)
                    /\ blob[s] # NoFile /\ blob[s].shared => Met(s)

(* An id with one content of its own and no overlapping operations *)
Sole(id, s) == /\ id \notin crossed /\ asked[id] = {s}
               /\ \A other \in Ids \ {id} : s \notin asked[other]

At(id, pcs) == \E t \in Threads : dl[t].id = id /\ dl[t].pc \in pcs

(* The blob is there while it is needed ... *)
HasBlob(id, s) ==
    /\ At(id, {"meta", "sidecar", "index"}) => blob[s] # NoFile
    /\ (rm.id # id \/ rm.pc = "blob") /\ meta[s] = id /\ s \notin cut => blob[s] # NoFile
    /\ rm.id # id /\ index[id] = s /\ s \notin cut => blob[s] # NoFile

(* ... and the index lists what has a sidecar: between two operations, and  *)
(* in every phase of one.                                                   *)
Listed(id, s, ix) == (meta[s] = id => ix[id] = s) /\ (ix[id] = s => meta[s] \in {id, Corrupt})
HasEntry(id, s) ==
    /\ rm.id # id /\ DirOf(id) \in opened /\ ~At(id, {"sidecar", "index"}) => Listed(id, s, index)
    /\ At(id, {"sidecar"}) => meta[s] = Corrupt
    /\ At(id, {"index"}) => meta[s] = id
    /\ rm.id = id => index[id] = NoSha

Mirrors(id, s) == HasBlob(id, s) /\ HasEntry(id, s)

Mirror == \A id \in Ids, s \in Shas : Sole(id, s) => Mirrors(id, s)

IInv == /\ TypeOK /\ Shape /\ Origins /\ Recorded /\ Writers /\ TmpIsWhole /\ SharedHaveMet
        /\ BlobIsWhole /\ Mirror

-----------------------------------------------------------------------------
(* Sums of sizes: a sum is counted in cells, one for every byte.            *)

Cells(S, w) == {p \in S \X Nat : 1 <= p[2] /\ p[2] <= w[p[1]]}
Weight(S, w) == Cardinality(Cells(S, w))

(* A set of numbers has a least one: what induction is replaced by here.    *)
LEMMA Least ==
    ASSUME NEW T, T \subseteq Nat, T # {}
    PROVE  \E x \in T : \A y \in T : x <= y
<1> DEFINE R == OpToRel(<, Nat)
<1>1. IsWellFoundedOn(R, Nat)
  BY NatLessThanWellFounded
<1>2. \A x, y \in Nat : x < y => <<x, y>> \in R
  BY DEF OpToRel
<1> HIDE DEF R
<1>3. PICK x \in T : \A y \in T : ~(<<y, x>> \in R)
  BY <1>1, WFMin, Zenon
<1>4. \A y \in T : ~(y < x)
  BY <1>2, <1>3
<1>5. \A y \in T : x <= y
  BY <1>4
<1>6. QED
  BY <1>5

(* The numbers up to n are n. *)
LEMMA UpTo == \A n \in Nat : IsFiniteSet(1 .. n) /\ Cardinality(1 .. n) = n
BY FS_Interval

(* A sum is a number, and no more than the number of terms times a bound    *)
(* of theirs.                                                               *)
LEMMA WeightBound ==
    ASSUME NEW S, IsFiniteSet(S), NEW w, NEW b \in Nat, \A s \in S : w[s] \in 0 .. b
    PROVE  /\ IsFiniteSet(Cells(S, w)) /\ Weight(S, w) \in Nat
           /\ Cardinality(S) \in Nat /\ Weight(S, w) <= Cardinality(S) * b
<1>1. IsFiniteSet(1 .. b) /\ Cardinality(1 .. b) = b
  BY UpTo
<1>2. IsFiniteSet(S \X (1 .. b)) /\ Cardinality(S \X (1 .. b)) = Cardinality(S) * b
  BY <1>1, FS_Product
<1>3. Cells(S, w) \in SUBSET (S \X (1 .. b))
  BY DEF Cells
<1>4. IsFiniteSet(Cells(S, w)) /\ Cardinality(Cells(S, w)) <= Cardinality(S \X (1 .. b))
  BY <1>2, <1>3, FS_Subset
<1>5. QED
  BY <1>2, <1>4, FS_CardinalityType DEF Weight

(* The empty sum *)
LEMMA WeightEmpty == ASSUME NEW w PROVE Weight({}, w) = 0
<1>1. Cells({}, w) = {}
  BY DEF Cells
<1>2. QED
  BY <1>1, FS_EmptySet DEF Weight

(* One more term *)
LEMMA WeightAdd ==
    ASSUME NEW S, IsFiniteSet(S), NEW x, x \notin S, NEW w, NEW b \in Nat,
           \A s \in S \cup {x} : w[s] \in 0 .. b
    PROVE  Weight(S \cup {x}, w) = Weight(S, w) + w[x]
<1>1. Cells(S \cup {x}, w) = Cells(S, w) \cup Cells({x}, w)
  BY DEF Cells
<1>2. Cells(S, w) \cap Cells({x}, w) = {}
  BY DEF Cells
<1>3. Cells({x}, w) = {x} \X (1 .. w[x])
  BY DEF Cells
<1>4. IsFiniteSet({x}) /\ Cardinality({x}) = 1
  BY FS_Singleton
<1>5. w[x] \in Nat
  OBVIOUS
<1>6. IsFiniteSet(1 .. w[x]) /\ Cardinality(1 .. w[x]) = w[x]
  BY <1>5, UpTo
<1>7. IsFiniteSet(Cells({x}, w)) /\ Cardinality(Cells({x}, w)) = 1 * w[x]
  <2>1. /\ IsFiniteSet({x} \X (1 .. w[x]))
        /\ Cardinality({x} \X (1 .. w[x])) = Cardinality({x}) * Cardinality(1 .. w[x])
    BY <1>4, <1>6, FS_Product
  <2>2. QED
    BY <1>3, <1>4, <1>6, <2>1
<1>8. IsFiniteSet(Cells(S, w)) /\ Weight(S, w) \in Nat
  BY WeightBound
<1>9. Cardinality(Cells(S, w) \cup Cells({x}, w)) =
         Cardinality(Cells(S, w)) + Cardinality(Cells({x}, w))
            - Cardinality(Cells(S, w) \cap Cells({x}, w))
  BY <1>7, <1>8, FS_Union
<1>10. Weight(S \cup {x}, w) = Weight(S, w) + 1 * w[x] - 0
  BY <1>1, <1>2, <1>7, <1>9, FS_EmptySet DEF Weight
<1>11. QED
  BY <1>5, <1>8, <1>10

(* Fewer terms *)
LEMMA WeightSubset ==
    ASSUME NEW S, IsFiniteSet(S), NEW T \in SUBSET S, NEW w, NEW b \in Nat,
           \A s \in S : w[s] \in 0 .. b
    PROVE  Weight(T, w) <= Weight(S, w)
<1>1. Cells(T, w) \in SUBSET Cells(S, w)
  BY DEF Cells
<1>2. IsFiniteSet(Cells(S, w))
  BY WeightBound
<1>3. QED
  BY <1>1, <1>2, FS_Subset DEF Weight

(* Equal terms *)
LEMMA WeightSame ==
    ASSUME NEW S, NEW w, NEW v, \A s \in S : w[s] = v[s]
    PROVE  Weight(S, w) = Weight(S, v)
<1>1. Cells(S, w) = Cells(S, v)
  BY DEF Cells
<1>2. QED
  BY <1>1 DEF Weight

-----------------------------------------------------------------------------
(* The sizes of the contents *)

FileSize == [s \in Shas |-> SizeOf[s] + OVERHEAD]
Largest == Max({SizeOf[s] : s \in Shas})

(* There is a bound on the sizes of finitely many contents. *)
LEMMA SizesBounded == \E b \in Nat : \A s \in Shas : SizeOf[s] <= b
<1> DEFINE n == Cardinality(Shas)
<1>1. n \in Nat /\ ExistsBijection(1 .. n, Shas)
  BY RegistryAssumption, FS_CardinalityType
<1>2. PICK f \in [1 .. n -> Shas] : \A s \in Shas : \E i \in 1 .. n : f[i] = s
  BY <1>1 DEF ExistsBijection, Bijection, Surjection
<1> HIDE DEF n
<1> DEFINE Bounded(k) == \E b \in Nat : \A i \in 1 .. n : i <= k => SizeOf[f[i]] <= b
           T == {k \in Nat : ~Bounded(k)}
<1>3. T = {}
  <2> SUFFICES ASSUME T # {} PROVE FALSE
    OBVIOUS
  <2>1. PICK k \in T : \A j \in T : k <= j
    BY Least
  <2>2. Bounded(0)
    BY <1>1
  <2>3a. k \in Nat /\ k # 0
    BY <2>1, <2>2
  <2>3b. k - 1 \in Nat /\ ~(k <= k - 1)
    BY <2>3a
  <2>3. k \in Nat /\ k # 0 /\ k - 1 \in Nat /\ k - 1 \notin T
    BY <2>1, <2>3a, <2>3b
  <2>4. PICK b \in Nat : \A i \in 1 .. n : i <= k - 1 => SizeOf[f[i]] <= b
    BY <2>3
  <2>5. CASE k \in 1 .. n
    <3>1. f[k] \in Shas /\ SizeOf[f[k]] \in Nat
      BY <1>2, <2>5, RegistryAssumption
    <3>2. \A i \in 1 .. n : i <= k => i <= k - 1 \/ i = k
      BY <1>1, <2>3
    <3>3. \A i \in 1 .. n : SizeOf[f[i]] \in Nat
      BY <1>2, RegistryAssumption
    <3>4. PICK c \in Nat : c = SizeOf[f[k]]
      BY <3>1
    <3>5. Bounded(k)
      <4>1. b + c \in Nat /\ b <= b + c /\ c <= b + c
        OBVIOUS
      <4>2. ASSUME NEW i \in 1 .. n, i <= k PROVE SizeOf[f[i]] <= b + c
        <5>1. SizeOf[f[i]] <= b \/ SizeOf[f[i]] = c
          BY <2>4, <3>2, <3>4, <4>2
        <5>2. PICK e \in Nat : e = SizeOf[f[i]]
          BY <3>3
        <5>3. e <= b \/ e = c
          BY <5>1, <5>2
        <5>4. e <= b + c
          BY <5>3
        <5>5. QED
          BY <5>2, <5>4
      <4>3. QED
        BY <4>1, <4>2
    <3>6. QED
      BY <3>5
  <2>6. CASE k \notin 1 .. n
    <3>1. \A i \in 1 .. n : i <= k => i <= k - 1
      BY <1>1, <2>3, <2>6
    <3>2. Bounded(k)
      BY <2>4, <3>1
    <3>3. QED
      BY <3>2
  <2>7. QED
    BY <2>5, <2>6
<1>4. Bounded(n)
  BY <1>1, <1>3
<1>5. PICK b \in Nat : \A i \in 1 .. n : i <= n => SizeOf[f[i]] <= b
  BY <1>4
<1>6. \A i \in 1 .. n : SizeOf[f[i]] <= b
  BY <1>1, <1>5
<1>7. QED
  BY <1>2, <1>6

(* The largest size is one of them and bounds them. *)
LEMMA LargestBounds ==
    ASSUME Shas # {}
    PROVE  Largest \in Nat /\ \A s \in Shas : SizeOf[s] <= Largest
<1> DEFINE T == {b \in Nat : \A s \in Shas : SizeOf[s] <= b}
<1>1. T # {}
  BY SizesBounded
<1>2. PICK b \in T : \A c \in T : b <= c
  BY <1>1, Least
<1>3. \A s \in Shas : SizeOf[s] \in Nat /\ SizeOf[s] <= b
  BY RegistryAssumption
<1>4. \E s \in Shas : SizeOf[s] = b
  <2>1. CASE b = 0
    BY <1>3, <2>1
  <2>2. CASE b # 0
    <3>1. b - 1 \in Nat /\ b - 1 \notin T
      BY <1>2, <2>2
    <3>2. PICK s \in Shas : ~(SizeOf[s] <= b - 1)
      BY <3>1
    <3>3. QED
      BY <1>3, <3>2
  <2>3. QED
    BY <2>1, <2>2
<1>5. \E x \in {SizeOf[s] : s \in Shas} : \A y \in {SizeOf[s] : s \in Shas} : x >= y
  BY <1>3, <1>4
<1>6. /\ Largest \in {SizeOf[s] : s \in Shas}
      /\ \A y \in {SizeOf[s] : s \in Shas} : Largest >= y
  BY <1>5 DEF Largest, Max
<1>7. QED
  BY <1>3, <1>6

(* The quota check adds up the files of a directory. *)
LEMMA SumIsWeight ==
    ASSUME NEW S \in SUBSET Shas
    PROVE  MapThenSumSet(LAMBDA s : SizeOf[s] + OVERHEAD, S) = Weight(S, FileSize)
<1> DEFINE Adds(it) == it = [s \in SUBSET S |->
                               IF s = {} THEN 0
                               ELSE LET x == CHOOSE x \in s : TRUE
                                    IN  (SizeOf[x] + OVERHEAD) + it[s \ {x}]]
           W(s) == Weight(s, FileSize)
<1>1. MapThenSumSet(LAMBDA s : SizeOf[s] + OVERHEAD, S) = (CHOOSE it : Adds(it))[S]
  BY DEF MapThenSumSet, MapThenFoldSet
<1>2. PICK b \in Nat : \A s \in Shas : SizeOf[s] <= b
  BY SizesBounded
<1>3. b + OVERHEAD \in Nat /\ \A s \in Shas : FileSize[s] \in 0 .. (b + OVERHEAD)
  BY <1>2, RegistryAssumption DEF FileSize
<1>4. \A s \in SUBSET S : IsFiniteSet(s) /\ Cardinality(s) \in Nat
  BY RegistryAssumption, FS_Subset, FS_CardinalityType
<1>5. ASSUME NEW s \in SUBSET S, NEW x \in s
      PROVE  W(s) = (SizeOf[x] + OVERHEAD) + W(s \ {x})
  <2>1. s = (s \ {x}) \cup {x} /\ x \notin s \ {x} /\ s \ {x} \in SUBSET S /\ x \in Shas
    OBVIOUS
  <2>2. \A y \in s : FileSize[y] \in 0 .. (b + OVERHEAD)
    BY <1>3
  <2>3. W((s \ {x}) \cup {x}) = W(s \ {x}) + FileSize[x]
    BY <1>3, <1>4, <2>1, <2>2, WeightAdd
  <2>4. W(s \ {x}) \in Nat
    BY <1>3, <1>4, <2>1, <2>2, WeightBound
  <2>5. FileSize[x] = SizeOf[x] + OVERHEAD /\ FileSize[x] \in Nat
    BY <1>3, <2>1 DEF FileSize
  <2>6. W(s) = W(s \ {x}) + FileSize[x]
    BY <2>1, <2>3
  <2> HIDE DEF W
  <2>7. QED
    BY <2>4, <2>5, <2>6
<1>6. W({}) = 0
  BY WeightEmpty
<1> HIDE DEF W
<1>7. Adds([s \in SUBSET S |-> W(s)])
  <2> DEFINE it == [s \in SUBSET S |-> W(s)]
  <2>1. ASSUME NEW s \in SUBSET S
        PROVE  W(s) = IF s = {} THEN 0
                      ELSE LET x == CHOOSE x \in s : TRUE
                           IN  (SizeOf[x] + OVERHEAD) + it[s \ {x}]
    <3>1. CASE s = {}
      BY <1>6, <3>1
    <3>2. CASE s # {}
      <4> DEFINE x == CHOOSE x \in s : TRUE
      <4>1. x \in s /\ s \ {x} \in SUBSET S
        BY <3>2
      <4>2. QED
        BY <1>5, <3>2, <4>1
    <3>3. QED
      BY <3>1, <3>2
  <2>2. QED
    BY <2>1
<1>8. ASSUME NEW it, Adds(it) PROVE \A s \in SUBSET S : it[s] = W(s)
  <2> DEFINE T == {Cardinality(s) : s \in {s \in SUBSET S : it[s] # W(s)}}
  <2> SUFFICES ASSUME NEW s0 \in SUBSET S, it[s0] # W(s0) PROVE FALSE
    OBVIOUS
  <2>1. T \subseteq Nat /\ T # {}
    BY <1>4
  <2>2. PICK n \in T : \A m \in T : n <= m
    BY <2>1, Least
  <2>3. PICK s \in SUBSET S : it[s] # W(s) /\ Cardinality(s) = n
    OBVIOUS
  <2> HIDE DEF T
  <2>4. it[s] = IF s = {} THEN 0
                ELSE LET x == CHOOSE x \in s : TRUE
                     IN  (SizeOf[x] + OVERHEAD) + it[s \ {x}]
    BY <1>8
  <2>5. s # {}
    BY <1>6, <2>3, <2>4
  <2> DEFINE x == CHOOSE x \in s : TRUE
  <2>6. x \in s /\ s \ {x} \in SUBSET S
    BY <2>5
  <2>7. it[s] = (SizeOf[x] + OVERHEAD) + it[s \ {x}]
    BY <2>4, <2>5
  <2> HIDE DEF x
  <2>8. it[s \ {x}] # W(s \ {x})
    BY <1>5, <2>3, <2>6, <2>7
  <2>9. Cardinality(s \ {x}) = Cardinality(s) - 1
    BY <1>4, <2>6, FS_RemoveElement
  <2>10. Cardinality(s \ {x}) \in T
    BY <2>6, <2>8 DEF T
  <2>11. QED
    BY <1>4, <2>2, <2>3, <2>9, <2>10
<1>9. Adds(CHOOSE it : Adds(it))
  BY <1>7, Zenon
<1> HIDE DEF Adds
<1>10. QED
  BY <1>1, <1>8, <1>9 DEF W

-----------------------------------------------------------------------------
(* Types and shapes *)

Downloads == [Threads -> [pc : Phases, id : Ids \cup {NoId}, sha : Shas \cup {NoSha}]]
FileMaps == [Shas -> Files]

(* Thread t goes on with v: with its download in another phase, or with     *)
(* nothing.                                                                 *)
Later(t, v) == v = Idle \/ \E pc \in Phases \ {"idle"} : v = Operation(pc, dl[t].id, dl[t].sha)
Moves(t, v) == /\ t \in Active /\ Later(t, v) /\ dl' = [dl EXCEPT ![t] = v]
               /\ UNCHANGED <<rm, asked, crossed, opened>>

(* An operation in flight is about an entry. *)
LEMMA Entries ==
    ASSUME TypeOK, Shape
    PROVE  /\ \A t \in Active : /\ t \in Threads /\ About(dl[t]) /\ dl[t].id \in Ids
                                /\ dl[t].sha \in Shas
           /\ \A t \in Threads : t \notin Active => dl[t] = Idle
           /\ rm # Idle => About(rm) /\ rm.id \in Ids /\ rm.sha \in Shas /\ rm.pc # "idle"
           /\ Idle.pc = "idle" /\ Idle.id = NoId /\ Idle.sha = NoSha /\ NoId \notin Ids
           /\ NoSha \notin Shas
<1>1. \A id \in Ids : asked[id] \subseteq Shas
  BY DEF TypeOK
<1>2. Idle.pc = "idle" /\ Idle.id = NoId /\ Idle.sha = NoSha
  BY DEF Idle, Operation
<1>3. QED
  BY <1>1, <1>2, RegistryAssumption DEF Shape, Active, About

(* A step to another phase changes nothing else of a download. *)
LEMMA GoesMoves ==
    ASSUME TypeOK, NEW t \in Active, NEW pc \in Phases \ {"idle"},
           UNCHANGED <<rm, asked, crossed, opened>>
    PROVE  /\ Goes(t, pc) => Moves(t, Operation(pc, dl[t].id, dl[t].sha))
           /\ Ends(t) => Moves(t, Idle)
<1>1. dl \in Downloads /\ t \in Threads
  BY DEF TypeOK, Downloads, Active
<1>2. Goes(t, pc) => dl' = [dl EXCEPT ![t] = Operation(pc, dl[t].id, dl[t].sha)]
  BY <1>1 DEF Goes, Operation, Downloads
<1>3. QED
  BY <1>2 DEF Ends, Moves, Later

(* A file, by its parts *)
Whatever == [by : SUBSET Threads, bad : BOOLEAN, shared : BOOLEAN]

LEMMA FileParts ==
    /\ \A b \in SUBSET Threads, x, y \in BOOLEAN : File(b, x, y) \in Files \ {NoFile}
    /\ \A f \in Files \ {NoFile} :
          /\ f \in Whatever /\ f.by \in SUBSET Threads /\ f.bad \in BOOLEAN /\ f.shared \in BOOLEAN
          /\ f = File(f.by, f.bad, f.shared)
<1>1. \A b \in SUBSET Threads, x, y \in BOOLEAN : File(b, x, y) \in Whatever
  BY DEF File, Whatever
<1>2. NoFile \notin Whatever /\ Files = Whatever \cup {NoFile}
  BY RegistryAssumption DEF Files, Whatever
<1>3. \A f \in Whatever : /\ f.by \in SUBSET Threads /\ f.bad \in BOOLEAN /\ f.shared \in BOOLEAN
                          /\ f = File(f.by, f.bad, f.shared)
  BY DEF File, Whatever
<1> HIDE DEF Whatever
<1>4. QED
  BY <1>1, <1>2, <1>3

(* What a crash leaves of a file is a file. *)
LEMMA TornFile ==
    ASSUME NEW f \in Files
    PROVE  /\ Torn(f) \in Files /\ (Torn(f) = NoFile <=> f = NoFile)
           /\ f # NoFile => Torn(f) = IF f.by = {} THEN f ELSE File({}, TRUE, f.shared)
<1>1. CASE f = NoFile
  BY <1>1 DEF Torn
<1>2. CASE f # NoFile
  <2>1. f.shared \in BOOLEAN /\ f = File(f.by, f.bad, f.shared)
    BY <1>2, FileParts
  <2>2. CASE f.by = {}
    BY <1>2, <2>2 DEF Torn
  <2>3. CASE f.by # {}
    <3>1. Torn(f) = File({}, TRUE, f.shared)
      BY <1>2, <2>3 DEF Torn
    <3>2. File({}, TRUE, f.shared) \in Files \ {NoFile}
      BY <2>1, FileParts
    <3>3. QED
      BY <1>2, <2>3, <3>1, <3>2
  <2>4. QED
    BY <2>2, <2>3
<1>3. QED
  BY <1>1, <1>2

(* The files that the steps of a download leave are files. *)
LEMMA FileTypes ==
    ASSUME NEW f \in Files, NEW t \in Threads
    PROVE  /\ Released(f, t) \in Files /\ Broken(f, t) \in Files
           /\ Released(f, t) = NoFile <=> f = NoFile
           /\ Broken(f, t) = NoFile <=> f = NoFile
           /\ f # NoFile =>
                 /\ f \in Whatever /\ f.by \in SUBSET Threads
                 /\ Released(f, t) = File(f.by \ {t}, f.bad, f.shared)
                 /\ Broken(f, t) = IF t \in f.by THEN File(f.by \ {t}, TRUE, f.shared) ELSE f
<1>1. CASE f = NoFile
  BY <1>1 DEF Released, Broken
<1>2. CASE f # NoFile
  <2>1. /\ f \in Whatever /\ f.by \in SUBSET Threads /\ f.bad \in BOOLEAN /\ f.shared \in BOOLEAN
        /\ f = File(f.by, f.bad, f.shared)
    BY <1>2, FileParts
  <2>2. Released(f, t) = File(f.by \ {t}, f.bad, f.shared)
    BY <1>2 DEF Released
  <2>3. Broken(f, t) = IF t \in f.by THEN File(f.by \ {t}, TRUE, f.shared) ELSE f
    BY <1>2 DEF Broken
  <2>4. /\ File(f.by \ {t}, f.bad, f.shared) \in Files \ {NoFile}
        /\ File(f.by \ {t}, TRUE, f.shared) \in Files \ {NoFile}
    BY <2>1, FileParts
  <2>5. Released(f, t) \in Files \ {NoFile}
    BY <2>2, <2>4
  <2>6. Broken(f, t) \in Files \ {NoFile}
    BY <1>2, <2>3, <2>4
  <2>7. QED
    BY <1>2, <2>1, <2>2, <2>3, <2>5, <2>6
<1>3. QED
  BY <1>1, <1>2

(* Opening a registry yields indexes over the entries. *)
LEMMA OpenedType ==
    ASSUME TypeOK, NEW d \in Dirs, NEW ix \in ForTenant(d)
    PROVE  ix \in Indexes
BY DEF TypeOK, ForTenant, ModelRegistry, LoraRegistry, Dirs

(* The entries have directories. *)
LEMMA DirTypes == (\A id : DirOf(id) \in Dirs) /\ (\A s : Dir(s) \in Dirs)
BY DEF DirOf, Dir, Dirs

(* Overlaps are between entries. *)
LEMMA OverlappedType ==
    ASSUME TypeOK, Shape, NEW id \in Ids, NEW s
    PROVE  Overlapped(id, s) \subseteq Ids
<1>1. rm.id \in Ids \cup {NoId}
  BY DEF TypeOK
<1>2. QED
  BY <1>1, Entries DEF Overlapped

(* A thread that goes on keeps the types, if what it writes is of its type. *)
LEMMA MovesType ==
    ASSUME TypeOK, Shape, NEW t, NEW v, Moves(t, v),
           index' \in Indexes, blob' \in FileMaps, tmp' \in FileMaps,
           meta' \in [Shas -> Ids \cup {NoId, Corrupt}], raced' \subseteq Dirs, started' = started,
           cut' \subseteq Shas
    PROVE  TypeOK'
<1>1. t \in Threads /\ dl \in Downloads
  BY DEF TypeOK, Downloads, Moves, Active
<1>2. v \in [pc : Phases, id : Ids \cup {NoId}, sha : Shas \cup {NoSha}]
  BY <1>1 DEF Moves, Later, Idle, Operation, Phases, Downloads
<1>3. dl' \in Downloads
  BY <1>1, <1>2 DEF Moves, Downloads
<1>4. QED
  BY <1>3 DEF TypeOK, Moves, Downloads, FileMaps

(* Every step of a download after the first keeps the types and moves its   *)
(* thread.                                                                  *)
LEMMA ThreadType ==
    ASSUME TypeOK, Shape, NEW t \in Threads,
           \/ CheckQuota(t) \/ OpenTmp(t) \/ CloseTmp(t) \/ Replace(t)
           \/ OpenMeta(t) \/ WriteMeta(t) \/ WriteFails(t) \/ Add(t)
    PROVE  TypeOK' /\ \E v : Moves(t, v)
<1>1. t \in Active
  BY DEF Active, CheckQuota, OpenTmp, CloseTmp, Replace, OpenMeta, WriteMeta, WriteFails, Add
<1>2. /\ dl[t].id \in Ids /\ dl[t].sha \in Shas
  BY <1>1, Entries
<1>3. /\ index \in Indexes /\ blob \in FileMaps /\ tmp \in FileMaps /\ raced \subseteq Dirs
      /\ cut \subseteq Shas
      /\ meta \in [Shas -> Ids \cup {NoId, Corrupt}]
  BY DEF TypeOK, FileMaps
<1>4. {"open", "close", "replace", "meta", "sidecar", "index"} \subseteq Phases \ {"idle"}
  BY DEF Phases
<1>5. CASE CheckQuota(t)
  <2>1. raced' \subseteq Dirs
    BY <1>3, <1>5, DirTypes DEF CheckQuota
  <2>2. UNCHANGED <<rm, asked, crossed, opened, index, blob, tmp, meta, started, cut>>
    BY <1>5 DEF CheckQuota, registries, disk
  <2>3. Goes(t, "open") \/ Ends(t)
    BY <1>5 DEF CheckQuota
  <2>4. PICK v : Moves(t, v)
    BY <1>1, <1>4, <2>2, <2>3, GoesMoves
  <2>5. QED
    BY <1>3, <2>1, <2>2, <2>4, MovesType
<1>6. CASE OpenTmp(t)
  <2>1. Goes(t, "close") /\ UNCHANGED <<rm, asked, crossed, opened, index, blob, meta, started, raced, cut>>
    BY <1>6 DEF OpenTmp, registries, history
  <2>2. tmp' \in FileMaps
    <3> DEFINE f == tmp[dl[t].sha]
    <3>1. PICK bad \in BOOLEAN :
             tmp' = [tmp EXCEPT ![dl[t].sha] = File({t} \cup (IF f = NoFile THEN {} ELSE f.by), bad, Contended(t))]
      BY <1>6 DEF OpenTmp
    <3>2. f \in Files
      BY <1>2, <1>3 DEF FileMaps
    <3>3. (IF f = NoFile THEN {} ELSE f.by) \subseteq Threads
      BY <3>2, FileTypes
    <3>4. File({t} \cup (IF f = NoFile THEN {} ELSE f.by), bad, Contended(t)) \in Files
      <4>1. Contended(t) \in BOOLEAN
        BY DEF Contended
      <4>2. QED
        BY <3>3, <4>1 DEF File, Files
    <3> HIDE DEF f
    <3>5. QED
      BY <1>3, <3>1, <3>4 DEF FileMaps
  <2>3. Moves(t, Operation("close", dl[t].id, dl[t].sha))
    BY <1>1, <1>4, <2>1, GoesMoves
  <2>4. QED
    BY <1>3, <2>1, <2>2, <2>3, MovesType
<1>7. CASE CloseTmp(t)
  <2>1. Goes(t, "replace") /\ UNCHANGED <<rm, asked, crossed, opened, index, meta, started, raced, cut>>
    BY <1>7 DEF CloseTmp, registries, history
  <2>2. tmp' \in FileMaps /\ blob' \in FileMaps
    BY <1>3, <1>7, FileTypes DEF CloseTmp, FileMaps
  <2>3. Moves(t, Operation("replace", dl[t].id, dl[t].sha))
    BY <1>1, <1>4, <2>1, GoesMoves
  <2>4. QED
    BY <1>3, <2>1, <2>2, <2>3, MovesType
<1>8. CASE Replace(t)
  <2>1. UNCHANGED <<rm, asked, crossed, opened, index, meta, started, raced>> /\ cut' \subseteq Shas
    BY <1>3, <1>8 DEF Replace, registries
  <2>2. tmp' \in FileMaps /\ blob' \in FileMaps
    BY <1>2, <1>3, <1>8 DEF Replace, FileMaps, Files
  <2>3. Goes(t, "meta") \/ Ends(t)
    BY <1>8 DEF Replace
  <2>4. PICK v : Moves(t, v)
    BY <1>1, <1>4, <2>1, <2>3, GoesMoves
  <2>5. QED
    BY <1>3, <2>1, <2>2, <2>4, MovesType
<1>9. CASE OpenMeta(t)
  <2>1. Goes(t, "sidecar") /\ UNCHANGED <<rm, asked, crossed, opened, index, blob, tmp, started, raced, cut>>
    BY <1>9 DEF OpenMeta, registries, history
  <2>2. meta' \in [Shas -> Ids \cup {NoId, Corrupt}]
    BY <1>3, <1>9 DEF OpenMeta
  <2>3. Moves(t, Operation("sidecar", dl[t].id, dl[t].sha))
    BY <1>1, <1>4, <2>1, GoesMoves
  <2>4. QED
    BY <1>3, <2>1, <2>2, <2>3, MovesType
<1>10. CASE WriteMeta(t)
  <2>1. Goes(t, "index") /\ UNCHANGED <<rm, asked, crossed, opened, index, blob, tmp, started, raced, cut>>
    BY <1>10 DEF WriteMeta, registries, history
  <2>2. meta' \in [Shas -> Ids \cup {NoId, Corrupt}]
    BY <1>2, <1>3, <1>10 DEF WriteMeta
  <2>3. Moves(t, Operation("index", dl[t].id, dl[t].sha))
    BY <1>1, <1>4, <2>1, GoesMoves
  <2>4. QED
    BY <1>3, <2>1, <2>2, <2>3, MovesType
<1>11. CASE Add(t)
  <2>1. Ends(t) /\ UNCHANGED <<rm, asked, crossed, opened, blob, tmp, meta, started, raced, cut>>
    BY <1>11 DEF Add, disk, history
  <2>2. index' \in Indexes
    BY <1>2, <1>3, <1>11 DEF Add, Indexes
  <2>3. Moves(t, Idle)
    BY <1>1, <1>4, <2>1, GoesMoves
  <2>4. QED
    BY <1>3, <2>1, <2>2, <2>3, MovesType
<1>12. CASE WriteFails(t)
  <2>1. Ends(t) /\ UNCHANGED <<rm, asked, crossed, opened, index, meta, started, raced, cut>>
    BY <1>12 DEF WriteFails, registries, history
  <2>2. tmp' \in FileMaps /\ blob' \in FileMaps
    BY <1>3, <1>12, FileTypes DEF WriteFails, FileMaps
  <2>3. Moves(t, Idle)
    BY <1>1, <1>4, <2>1, GoesMoves
  <2>4. QED
    BY <1>3, <2>1, <2>2, <2>3, MovesType
<1>13. QED
  BY <1>5, <1>6, <1>7, <1>8, <1>9, <1>10, <1>11, <1>12

(* The other actions keep the types. *)
LEMMA OtherTypes ==
    ASSUME TypeOK, Shape
    PROVE  /\ \A d \in Dirs : Opens(d) => TypeOK'
           /\ \A t \in Threads, id \in Ids, s \in Shas : Fetched(t, id, s) => TypeOK'
           /\ \A id \in Ids : Pop(id) => TypeOK'
           /\ UnlinkBlob \/ UnlinkMeta \/ Restart => TypeOK'
<1>1. /\ index \in Indexes /\ opened \subseteq Dirs /\ blob \in FileMaps /\ tmp \in FileMaps
      /\ meta \in [Shas -> Ids \cup {NoId, Corrupt}] /\ dl \in Downloads
      /\ rm \in [pc : {"idle", "blob", "meta"}, id : Ids \cup {NoId}, sha : Shas \cup {NoSha}]
      /\ asked \in [Ids -> SUBSET Shas] /\ crossed \subseteq Ids /\ raced \subseteq Dirs
      /\ started \in 0 .. MaxDownloads /\ cut \subseteq Shas
  BY DEF TypeOK, FileMaps, Downloads
<1>2. ASSUME NEW d \in Dirs, Opens(d) PROVE TypeOK'
  <2>1. index' \in Indexes /\ opened' \subseteq Dirs
    BY <1>1, <1>2, OpenedType DEF Opens
  <2>2. UNCHANGED <<blob, tmp, meta, dl, rm, started, asked, crossed, raced, cut>>
    BY <1>2 DEF Opens, disk, history
  <2>3. QED
    BY <2>1, <2>2 DEF TypeOK
<1>3. ASSUME NEW t \in Threads, NEW id \in Ids, NEW s \in Shas, Fetched(t, id, s) PROVE TypeOK'
  <2>1. index' \in Indexes /\ opened' \subseteq Dirs
    BY <1>1, <1>3, OpenedType, DirTypes DEF Fetched
  <2>2. started' \in 0 .. MaxDownloads
    BY <1>1, <1>3, RegistryAssumption DEF Fetched
  <2>3. dl' \in Downloads
    BY <1>1, <1>3 DEF Fetched, Downloads, Operation, Phases
  <2>4. asked' \in [Ids -> SUBSET Shas]
    BY <1>1, <1>3 DEF Fetched
  <2>5. crossed' \subseteq Ids
    BY <1>1, <1>3, OverlappedType DEF Fetched
  <2>6. UNCHANGED <<blob, tmp, meta, rm, raced, cut>>
    BY <1>3 DEF Fetched, disk
  <2>7. QED
    BY <1>1, <2>1, <2>2, <2>3, <2>4, <2>5, <2>6 DEF TypeOK, Downloads
<1>4. ASSUME NEW id \in Ids, Pop(id) PROVE TypeOK'
  <2>1. PICK ix \in ForTenant(DirOf(id)) :
           /\ ix[id] # NoSha
           /\ rm' = Operation("blob", id, ix[id])
           /\ index' = [ix EXCEPT ![id] = NoSha]
           /\ crossed' = crossed \cup Overlapped(id, ix[id])
    BY <1>4 DEF Pop
  <2>2. ix \in Indexes
    BY OpenedType, DirTypes
  <2>3. index' \in Indexes /\ ix[id] \in Shas
    BY <2>1, <2>2 DEF Indexes
  <2>4. rm' \in [pc : {"idle", "blob", "meta"}, id : Ids \cup {NoId}, sha : Shas \cup {NoSha}]
    BY <2>1, <2>3 DEF Operation
  <2>5. opened' \subseteq Dirs /\ crossed' \subseteq Ids
    BY <1>1, <1>4, <2>1, OverlappedType, DirTypes DEF Pop
  <2>6. UNCHANGED <<blob, tmp, meta, dl, started, asked, raced, cut>>
    BY <1>4 DEF Pop, disk
  <2>7. QED
    BY <2>3, <2>4, <2>5, <2>6 DEF TypeOK
<1>5. ASSUME UnlinkBlob PROVE TypeOK'
  <2>1. blob' \in FileMaps
    BY <1>1, <1>5 DEF UnlinkBlob, FileMaps, Files
  <2>2. rm' \in [pc : {"idle", "blob", "meta"}, id : Ids \cup {NoId}, sha : Shas \cup {NoSha}]
    BY <1>1, <1>5 DEF UnlinkBlob
  <2>3. UNCHANGED <<index, opened, tmp, meta, dl, started, asked, crossed, raced, cut>>
    BY <1>5 DEF UnlinkBlob, registries, history
  <2>4. QED
    BY <2>1, <2>2, <2>3 DEF TypeOK, FileMaps
<1>6. ASSUME UnlinkMeta PROVE TypeOK'
  <2>1. meta' \in [Shas -> Ids \cup {NoId, Corrupt}]
    BY <1>1, <1>6 DEF UnlinkMeta
  <2>2. rm' \in [pc : {"idle", "blob", "meta"}, id : Ids \cup {NoId}, sha : Shas \cup {NoSha}]
    BY <1>6 DEF UnlinkMeta, Idle, Operation
  <2>3. UNCHANGED <<index, opened, blob, tmp, dl, started, asked, crossed, raced>> /\ cut' \subseteq Shas
    BY <1>1, <1>6 DEF UnlinkMeta, registries
  <2>4. QED
    BY <2>1, <2>2, <2>3 DEF TypeOK, FileMaps
<1>7. ASSUME Restart PROVE TypeOK'
  <2>1. \A s \in Shas : Torn(blob[s]) \in Files /\ Torn(tmp[s]) \in Files
    BY <1>1, TornFile DEF FileMaps
  <2>2. blob' \in FileMaps /\ tmp' \in FileMaps
    BY <1>7, <2>1 DEF Restart, FileMaps
  <2>3. /\ rm' \in [pc : {"idle", "blob", "meta"}, id : Ids \cup {NoId}, sha : Shas \cup {NoSha}]
        /\ dl' \in Downloads /\ index' \in Indexes
    BY <1>7 DEF Restart, Idle, Operation, Downloads, Phases, Empty, Indexes
  <2>4. cut' \subseteq Shas
    <3>1. rm.pc = "meta" => rm.sha \in Shas
      BY Entries
    <3>2. QED
      BY <1>1, <1>7, <3>1 DEF Restart
  <2>5. opened' \subseteq Dirs /\ UNCHANGED <<meta, started, asked, crossed, raced>>
    BY <1>7 DEF Restart
  <2>6. QED
    BY <1>1, <2>2, <2>3, <2>4, <2>5 DEF TypeOK, FileMaps, Downloads
<1>8. QED
  BY <1>2, <1>3, <1>4, <1>5, <1>6, <1>7

-----------------------------------------------------------------------------
(* What the operations are about *)

(* A registry that is opened holds what the sidecars say; one that is open  *)
(* stays as it is.                                                          *)
LEMMA OpenedFacts ==
    ASSUME TypeOK, Origins, NEW d \in Dirs, NEW ix \in ForTenant(d), NEW id \in Ids
    PROVE  /\ ix[id] # NoSha => ix[id] \in asked[id]
           /\ d \in opened \/ DirOf(id) # d => ix[id] = index[id]
           /\ d \notin opened /\ DirOf(id) = d /\ ix[id] # NoSha => meta[ix[id]] = id
           /\ d \notin opened /\ DirOf(id) = d /\ ix[id] = NoSha => \A s \in Shas : meta[s] # id
<1>1. CASE d \in opened
  BY <1>1 DEF ForTenant, Origins
<1>2. CASE d \notin opened /\ d = "models"
  <2>1. ix \in ModelRegistry
    BY <1>2 DEF ForTenant
  <2>2. CASE id \in Models
    <3>1. ix[id] \in OneOf(ModelSidecars(id)) /\ DirOf(id) = d
      BY <1>2, <2>1, <2>2 DEF ModelRegistry, DirOf
    <3>2. \A s \in Shas : meta[s] = id => s \in ModelSidecars(id)
      BY <2>2 DEF Origins, ModelSidecars
    <3>3. ModelSidecars(id) \subseteq Shas
      BY DEF ModelSidecars, Shas
    <3>4. QED
      BY <1>2, <3>1, <3>2, <3>3, RegistryAssumption DEF OneOf, ModelSidecars, Origins
  <2>3. CASE id \notin Models
    <3>1. ix[id] = index[id] /\ DirOf(id) # d
      BY <1>2, <2>1, <2>3 DEF ModelRegistry, DirOf, Ids
    <3>2. QED
      BY <3>1 DEF Origins
  <2>4. QED
    BY <2>2, <2>3
<1>3. CASE d \notin opened /\ d = "loras"
  <2>1. ix \in LoraRegistry
    BY <1>3 DEF ForTenant
  <2>2. CASE id \in Loras
    <3>1. ix[id] \in OneOf(LoraSidecars(id)) /\ DirOf(id) = d
      BY <1>3, <2>1, <2>2, RegistryAssumption DEF LoraRegistry, DirOf
    <3>2. \A s \in Shas : meta[s] = id => s \in LoraSidecars(id)
      BY <2>2 DEF Origins, LoraSidecars
    <3>3. LoraSidecars(id) \subseteq Shas
      BY DEF LoraSidecars, Shas
    <3>4. QED
      BY <1>3, <3>1, <3>2, <3>3, RegistryAssumption DEF OneOf, LoraSidecars, Origins
  <2>3. CASE id \notin Loras
    <3>1. ix[id] = index[id] /\ DirOf(id) # d
      BY <1>3, <2>1, <2>3 DEF LoraRegistry, DirOf, Ids
    <3>2. QED
      BY <3>1 DEF Origins
  <2>4. QED
    BY <2>2, <2>3
<1>4. QED
  BY <1>1, <1>2, <1>3 DEF Dirs

(* A step of a download leaves the others, and its own entry, as they are.  *)
LEMMA MovesFacts ==
    ASSUME TypeOK, Shape, NEW t, NEW v, Moves(t, v)
    PROVE  /\ \A u \in Threads : u # t => dl'[u] = dl[u]
           /\ dl'[t] = v /\ t \in Threads
           /\ \A u \in Active' : u \in Active /\ dl'[u].id = dl[u].id /\ dl'[u].sha = dl[u].sha
           /\ v = Idle \/ (v.pc # "idle" /\ v.id = dl[t].id /\ v.sha = dl[t].sha)
<1>1. t \in Threads /\ dl \in Downloads
  BY DEF TypeOK, Downloads, Moves, Active
<1>2. \A u \in Threads : dl'[u] = IF u = t THEN v ELSE dl[u]
  BY <1>1 DEF Moves, Downloads
<1>3. v = Idle \/ (v.pc # "idle" /\ v.id = dl[t].id /\ v.sha = dl[t].sha)
  BY DEF Moves, Later, Operation
<1>4. Idle.pc = "idle"
  BY DEF Idle, Operation
<1>5. t \in Active
  BY DEF Moves
<1>6. QED
  BY <1>1, <1>2, <1>3, <1>4, <1>5 DEF Active

(* ... so what the operations are about stays on record. *)
LEMMA MovesShape ==
    ASSUME TypeOK, Shape, Recorded, NEW t, NEW v, Moves(t, v)
    PROVE  Shape' /\ Recorded'
<1>1. UNCHANGED <<rm, asked, crossed, opened>>
  BY DEF Moves
<1>2. Shape'
  <2>1. ASSUME NEW u \in Threads PROVE (dl[u] = Idle \/ (u \in Active /\ About(dl[u])))'
    <3>1. CASE u # t
      <4>1. dl'[u] = dl[u]
        BY <3>1, MovesFacts
      <4>2. QED
        BY <1>1, <4>1 DEF Shape, Active, About
    <3>2. CASE u = t
      <4>1. dl'[t] = Idle \/ (dl'[t].pc # "idle" /\ dl'[t].id = dl[t].id /\ dl'[t].sha = dl[t].sha)
        BY MovesFacts
      <4>2. About(dl[t])
        BY Entries DEF Moves
      <4>3. QED
        BY <1>1, <3>2, <4>1, <4>2 DEF Active, About
    <3>3. QED
      BY <3>1, <3>2
  <2>2. QED
    BY <1>1, <2>1 DEF Shape, About
<1>3. Recorded'
  BY <1>1, MovesFacts DEF Recorded, Meet
<1>4. QED
  BY <1>2, <1>3

(* The steps of a download put into the index and the sidecars what was     *)
(* asked for.                                                               *)
LEMMA ThreadOrigins ==
    ASSUME TypeOK, Shape, Origins, NEW t \in Threads,
           \/ CheckQuota(t) \/ OpenTmp(t) \/ CloseTmp(t) \/ Replace(t)
           \/ OpenMeta(t) \/ WriteMeta(t) \/ WriteFails(t) \/ Add(t)
    PROVE  Origins'
<1>1. t \in Active
  BY DEF Active, CheckQuota, OpenTmp, CloseTmp, Replace, OpenMeta, WriteMeta, WriteFails, Add
<1>2. dl[t].id \in Ids /\ dl[t].sha \in Shas /\ dl[t].sha \in asked[dl[t].id]
  BY <1>1, Entries DEF About
<1>3. /\ index \in Indexes /\ meta \in [Shas -> Ids \cup {NoId, Corrupt}]
      /\ Corrupt \notin Ids /\ asked' = asked
  BY RegistryAssumption DEF TypeOK, CheckQuota, OpenTmp, CloseTmp, Replace, OpenMeta, WriteMeta,
     WriteFails, Add, history
<1>4. CASE CheckQuota(t) \/ OpenTmp(t) \/ CloseTmp(t) \/ Replace(t) \/ WriteFails(t)
  <2>1. UNCHANGED <<index, meta>>
    BY <1>4 DEF CheckQuota, OpenTmp, CloseTmp, Replace, WriteFails, registries, disk
  <2>2. QED
    BY <1>3, <2>1 DEF Origins
<1>5. CASE OpenMeta(t)
  <2>1. index' = index /\ meta' = [meta EXCEPT ![dl[t].sha] = Corrupt]
    BY <1>5 DEF OpenMeta, registries
  <2>2. QED
    BY <1>3, <2>1 DEF Origins
<1>6. CASE WriteMeta(t)
  <2>1. index' = index /\ meta' = [meta EXCEPT ![dl[t].sha] = dl[t].id]
    BY <1>6 DEF WriteMeta, registries
  <2>2. \A s \in Shas : meta'[s] \in Ids => s \in asked[meta'[s]]
    BY <1>2, <1>3, <2>1 DEF Origins
  <2>3. QED
    BY <1>3, <2>1, <2>2 DEF Origins
<1>7. CASE Add(t)
  <2>1. meta' = meta /\ index' = [index EXCEPT ![dl[t].id] = dl[t].sha]
    BY <1>7 DEF Add, disk
  <2>2. \A id \in Ids : index'[id] # NoSha => index'[id] \in asked[id]
    BY <1>2, <1>3, <2>1 DEF Origins, Indexes
  <2>3. QED
    BY <1>3, <2>1, <2>2 DEF Origins
<1>8. QED
  BY <1>4, <1>5, <1>6, <1>7

(* A registry is opened. *)
LEMMA OpensBooks ==
    ASSUME TypeOK, Shape, Origins, Recorded, NEW d \in Dirs, Opens(d)
    PROVE  Shape' /\ Origins' /\ Recorded'
<1>1. index' \in ForTenant(d) /\ opened \subseteq opened' /\ UNCHANGED <<meta, dl, rm, asked, crossed>>
  BY DEF Opens, disk, history
<1>2. \A id \in Ids : index'[id] # NoSha => index'[id] \in asked[id]
  BY <1>1, OpenedFacts
<1>3. QED
  BY <1>1, <1>2 DEF Shape, About, Origins, Recorded, Active

(* An entry and a content of the same kind *)
Kinds(id, s) == (id \in Models /\ s \in ModelShas) \/ (id \in Loras /\ s \in LoraShas)

(* A download begins, with an entry of the right kind: what it meets is     *)
(* recorded.                                                                *)
LEMMA FetchedBooks ==
    ASSUME TypeOK, Shape, Origins, Recorded, NEW t \in Threads, NEW id \in Ids, NEW s \in Shas,
           Kinds(id, s), Fetched(t, id, s)
    PROVE  /\ Shape' /\ Origins' /\ Recorded'
           /\ dl[t] = Idle /\ dl'[t] = Operation("quota", id, s)
           /\ \A u \in Threads : u # t => dl'[u] = dl[u]
           /\ asked'[id] = asked[id] \cup {s} /\ \A i \in Ids : i # id => asked'[i] = asked[i]
<1>1. /\ index' \in ForTenant(DirOf(id)) /\ opened' = opened \cup {DirOf(id)}
      /\ crossed' = crossed \cup Overlapped(id, s) /\ UNCHANGED <<meta, rm>> /\ dl[t] = Idle
  BY DEF Fetched, disk
<1>2. dl'[t] = Operation("quota", id, s) /\ \A u \in Threads : u # t => dl'[u] = dl[u]
  BY DEF Fetched, TypeOK
<1>3. /\ asked'[id] = asked[id] \cup {s} /\ \A i \in Ids : i # id => asked'[i] = asked[i]
  BY DEF Fetched, TypeOK
<1>4. \A i \in Ids : asked[i] \subseteq asked'[i]
  BY <1>3
<1>5. dl'[t].pc = "quota" /\ dl'[t].id = id /\ dl'[t].sha = s
  BY <1>2 DEF Operation
<1>6. Shape'
  <2>1. ASSUME NEW u \in Threads PROVE (dl[u] = Idle \/ (u \in Active /\ About(dl[u])))'
    <3>1. CASE u = t
      BY <1>1, <1>3, <1>5, <3>1 DEF Active, About
    <3>2. CASE u # t
      BY <1>1, <1>2, <1>4, <3>2 DEF Shape, Active, About
    <3>3. QED
      BY <3>1, <3>2
  <2>2. QED
    BY <1>1, <1>4, <2>1 DEF Shape, About
<1>7. Origins'
  <2>1. \A i \in Ids : index'[i] # NoSha => index'[i] \in asked[i]
    BY <1>1, OpenedFacts, DirTypes
  <2>2. (\A i \in Models : asked'[i] \subseteq ModelShas) /\ (\A i \in Loras : asked'[i] \subseteq LoraShas)
    BY <1>3, RegistryAssumption DEF Origins, Kinds, Ids
  <2>3. QED
    BY <1>1, <1>4, <2>1, <2>2 DEF Origins
<1>8. Recorded'
  <2>1. \A u \in Active' : u # t => u \in Active /\ dl'[u] = dl[u]
    BY <1>2 DEF Active
  <2>2. ASSUME NEW u \in Active, Meet(dl[u], [id |-> id, sha |-> s])
        PROVE  {id, dl[u].id} \subseteq crossed'
    BY <1>1, <2>2 DEF Overlapped, Meet
  <2>3. ASSUME rm # Idle, Meet(rm, [id |-> id, sha |-> s])
        PROVE  {id, rm.id} \subseteq crossed'
    <3>1. rm.id # NoId
      BY <2>3, Entries
    <3>2. QED
      BY <1>1, <2>3, <3>1 DEF Overlapped, Meet
  <2>4. ASSUME NEW u \in Active', NEW w \in Active', u # w, Meet(dl'[u], dl'[w])
        PROVE  dl'[u].id \in crossed'
    <3>1. CASE u = t
      <4>1. w \in Active /\ dl'[w] = dl[w] /\ Meet(dl[w], [id |-> id, sha |-> s])
        BY <1>5, <2>1, <2>4, <3>1 DEF Meet
      <4>2. QED
        BY <1>5, <2>2, <3>1, <4>1
    <3>2. CASE w = t
      <4>1. u \in Active /\ dl'[u] = dl[u] /\ Meet(dl[u], [id |-> id, sha |-> s])
        BY <1>5, <2>1, <2>4, <3>2 DEF Meet
      <4>2. QED
        BY <2>2, <4>1
    <3>3. CASE u # t /\ w # t
      BY <1>1, <2>1, <2>4, <3>3 DEF Recorded
    <3>4. QED
      BY <3>1, <3>2, <3>3
  <2>5. ASSUME NEW u \in Active', rm # Idle, Meet(dl'[u], rm)
        PROVE  {dl'[u].id, rm.id} \subseteq crossed'
    <3>1. CASE u = t
      <4>1. Meet(rm, [id |-> id, sha |-> s])
        BY <1>5, <2>5, <3>1 DEF Meet
      <4>2. QED
        BY <1>5, <2>3, <2>5, <3>1, <4>1
    <3>2. CASE u # t
      BY <1>1, <2>1, <2>5, <3>2 DEF Recorded
    <3>3. QED
      BY <3>1, <3>2
  <2>6. QED
    BY <1>1, <2>4, <2>5 DEF Recorded
<1>9. QED
  BY <1>1, <1>2, <1>3, <1>6, <1>7, <1>8

(* A removal begins. *)
LEMMA PopBooks ==
    ASSUME TypeOK, Shape, Origins, Recorded, NEW id \in Ids, Pop(id)
    PROVE  Shape' /\ Origins' /\ Recorded' /\ rm = Idle /\ rm'.id = id /\ index'[id] = NoSha
<1>1. PICK ix \in ForTenant(DirOf(id)) :
         /\ ix[id] # NoSha
         /\ rm' = Operation("blob", id, ix[id])
         /\ index' = [ix EXCEPT ![id] = NoSha]
         /\ crossed' = crossed \cup Overlapped(id, ix[id])
  BY DEF Pop
<1>2. /\ rm = Idle /\ opened' = opened \cup {DirOf(id)}
      /\ UNCHANGED <<meta, dl, asked>>
  BY DEF Pop, disk
<1>3. ix \in Indexes /\ \A i \in Ids : ix[i] # NoSha => ix[i] \in asked[i]
  BY OpenedType, OpenedFacts, DirTypes
<1>4. index'[id] = NoSha /\ \A i \in Ids : i # id => index'[i] = ix[i]
  BY <1>1, <1>3 DEF Indexes
<1>5. rm'.id = id /\ rm'.pc = "blob" /\ rm'.sha = ix[id]
  BY <1>1 DEF Operation
<1>6. Shape'
  BY <1>1, <1>2, <1>3, <1>5 DEF Shape, About, Active
<1>7. Origins'
  BY <1>2, <1>3, <1>4 DEF Origins
<1>8. Recorded'
  <2>1. ASSUME NEW u \in Active, Meet(dl[u], rm') PROVE {dl[u].id, id} \subseteq crossed'
    BY <1>1, <1>5, <2>1 DEF Overlapped, Meet
  <2>2. QED
    BY <1>1, <1>2, <1>5, <2>1 DEF Recorded, Active
<1>9. QED
  BY <1>2, <1>4, <1>5, <1>6, <1>7, <1>8

(* A removal goes on, or the process dies. *)
LEMMA RemovalBooks ==
    ASSUME TypeOK, Shape, Origins, Recorded, UnlinkBlob \/ UnlinkMeta \/ Restart
    PROVE  Shape' /\ Origins' /\ Recorded'
<1>1. CASE UnlinkBlob
  <2>1. UNCHANGED <<index, opened, meta, dl, asked, crossed>> /\ rm # Idle
    BY <1>1 DEF UnlinkBlob, registries, history, Idle, Operation
  <2>2. rm'.pc = "meta" /\ rm'.id = rm.id /\ rm'.sha = rm.sha
    BY <1>1 DEF UnlinkBlob, TypeOK
  <2>3. QED
    BY <2>1, <2>2 DEF Shape, About, Origins, Recorded, Active, Meet
<1>2. CASE UnlinkMeta
  <2>1. /\ UNCHANGED <<index, opened, dl, asked, crossed>> /\ rm' = Idle
        /\ meta' = [meta EXCEPT ![rm.sha] = NoId]
    BY <1>2 DEF UnlinkMeta, registries, history
  <2>2. \A s \in Shas : meta'[s] \in Ids => meta'[s] = meta[s]
    BY <2>1, RegistryAssumption DEF TypeOK
  <2>3. QED
    BY <2>1, <2>2 DEF Shape, About, Origins, Recorded, Active, Meet
<1>3. CASE Restart
  <2>1. /\ index' = Empty /\ UNCHANGED <<meta, asked>> /\ rm' = Idle
        /\ \A t \in Threads : dl'[t] = Idle
    BY <1>3 DEF Restart
  <2>2. Active' = {} /\ \A id \in Ids : index'[id] = NoSha
    BY <2>1 DEF Active, Idle, Operation, Empty
  <2>3. QED
    BY <2>1, <2>2 DEF Shape, Origins, Recorded
<1>4. QED
  BY <1>1, <1>2, <1>3

-----------------------------------------------------------------------------
(* The files *)

Whole == Writers /\ TmpIsWhole /\ SharedHaveMet /\ BlobIsWhole

(* Two downloads of one content that are under way have met. *)
LEMMA TwoMeet ==
    ASSUME TypeOK, Shape, Recorded, NEW t \in Active, NEW u \in Active, t # u,
           dl[t].sha = dl[u].sha
    PROVE  Met(dl[t].sha)
<1>1. dl[t].id \in crossed
  BY DEF Recorded, Meet
<1>2. dl[t].sha \in asked[dl[t].id]
  BY Entries DEF About
<1>3. QED
  BY <1>1, <1>2 DEF Met

(* Who has met has met for ever. *)
LEMMA MetKept ==
    ASSUME TypeOK, \A id \in Ids : asked[id] \subseteq asked'[id], crossed \subseteq crossed', NEW s, Met(s)
    PROVE  Met(s)'
BY DEF Met, TypeOK

(* The temporary files stay whole where nobody opens one, and one that      *)
(* turns bad had two downloads.                                             *)
LEMMA TmpKept ==
    ASSUME TypeOK, Shape, TmpIsWhole,
           \A u \in Threads : dl'[u].pc \in {"close", "replace"} =>
              dl[u].pc \in {"close", "replace"} /\ dl'[u].sha = dl[u].sha,
           \A u \in Threads : LET s == dl[u].sha IN
              dl'[u].pc \in {"close", "replace"} /\ tmp'[s] # NoFile =>
                 /\ tmp[s] # NoFile /\ tmp'[s].shared = tmp[s].shared
                 /\ tmp'[s].bad => tmp[s].bad \/ Contended(u)
    PROVE  TmpIsWhole'
<1> SUFFICES ASSUME NEW u \in Threads, dl'[u].pc \in {"close", "replace"},
                    tmp'[dl'[u].sha] # NoFile, tmp'[dl'[u].sha].bad \/ Contended(u)'
             PROVE  tmp'[dl'[u].sha].shared
  BY DEF TmpIsWhole
<1>1. PICK s : s = dl[u].sha
  OBVIOUS
<1>2. dl[u].pc \in {"close", "replace"} /\ dl'[u].sha = s
  BY <1>1
<1>3. Contended(u)' => Contended(u)
  <2> SUFFICES ASSUME NEW w \in Threads \ {u}, dl'[w].sha = dl'[u].sha,
                      dl'[w].pc \in {"close", "replace"}
               PROVE  Contended(u)
    BY DEF Contended
  <2>1. dl[w].pc \in {"close", "replace"} /\ dl[w].sha = dl[u].sha
    BY <1>1, <1>2
  <2>2. QED
    BY <2>1 DEF Contended
<1>4. tmp[s] # NoFile /\ tmp'[s].shared = tmp[s].shared /\ (tmp'[s].bad => tmp[s].bad \/ Contended(u))
  BY <1>1, <1>2
<1>5. tmp[s].bad \/ Contended(u)
  BY <1>2, <1>3, <1>4
<1>6. tmp[s].shared
  BY <1>1, <1>2, <1>4, <1>5 DEF TmpIsWhole
<1>7. QED
  BY <1>2, <1>4, <1>6

(* Steps that write no file *)
LEMMA FilesKept ==
    ASSUME TypeOK, Shape, Whole,
           tmp' = tmp, \A s \in Shas : blob'[s] \in {blob[s], NoFile},
           \A u \in Threads : \/ dl'[u] = dl[u]
                              \/ dl[u].pc # "close" /\ dl'[u].pc \notin {"close", "replace"},
           \A id \in Ids : asked[id] \subseteq asked'[id], crossed \subseteq crossed'
    PROVE  Whole'
<1>1. \A s : Met(s) => Met(s)'
  BY MetKept
<1>2. Writers'
  BY DEF Whole, Writers, Writing
<1>3. TmpIsWhole'
  BY TmpKept DEF Whole
<1>4. SharedHaveMet'
  BY <1>1 DEF Whole, SharedHaveMet
<1>5. BlobIsWhole'
  BY DEF Whole, BlobIsWhole
<1>6. QED
  BY <1>2, <1>3, <1>4, <1>5 DEF Whole

(* A thread opens the temporary file, where another one may be writing.     *)
LEMMA OpenTmpWhole ==
    ASSUME TypeOK, Shape, Recorded, Whole, NEW t \in Threads, OpenTmp(t)
    PROVE  Whole'
<1> DEFINE s == dl[t].sha
           f == tmp[s]
<1>1. t \in Active /\ dl[t].pc = "open"
  BY DEF OpenTmp, Active
<1>2. s \in Shas /\ f \in Files
  BY <1>1, Entries DEF TypeOK
<1>3. UNCHANGED <<blob, asked, crossed>> /\ Goes(t, "close")
  BY DEF OpenTmp, history
<1>4. Moves(t, Operation("close", dl[t].id, s))
  BY <1>1, <1>3, GoesMoves DEF OpenTmp, Phases, registries, history
<1>5. /\ dl'[t].pc = "close" /\ dl'[t].sha = s
      /\ \A u \in Threads : u # t => dl'[u] = dl[u]
      /\ \A u \in Active' : u \in Active /\ dl'[u].sha = dl[u].sha
  BY <1>4, MovesFacts DEF Operation
<1>6. PICK bad \in BOOLEAN :
         /\ bad => f # NoFile /\ f.by # {}
         /\ tmp' = [tmp EXCEPT ![s] = File({t} \cup (IF f = NoFile THEN {} ELSE f.by), bad, Contended(t))]
  BY DEF OpenTmp
<1> DEFINE g == File({t} \cup (IF f = NoFile THEN {} ELSE f.by), bad, Contended(t))
<1>7. tmp'[s] = g /\ \A x \in Shas : x # s => tmp'[x] = tmp[x]
  BY <1>2, <1>6 DEF TypeOK
<1>8. g.by = {t} \cup (IF f = NoFile THEN {} ELSE f.by) /\ g.bad = bad /\ g.shared = Contended(t)
  BY DEF File
<1>9. \A x \in Shas : \A h \in {tmp[x], blob[x]} :
         h # NoFile => \A u \in h.by : u \in Threads /\ u # t /\ dl[u].pc = "close" /\ dl[u].sha = x
  BY <1>1 DEF Whole, Writers, Writing
<1>10. \A u \in Threads : u # t /\ dl[u].sha = s /\ dl[u].pc \in {"close", "replace"} => Contended(t)
  BY DEF Contended
<1> HIDE DEF s, f, g
<1>11. bad => Contended(t)
  <2> SUFFICES ASSUME bad PROVE Contended(t)
    OBVIOUS
  <2>1. f # NoFile /\ f.by # {}
    BY <1>6
  <2>2. PICK w \in f.by : w \in Threads /\ w # t /\ dl[w].pc = "close" /\ dl[w].sha = s
    BY <1>2, <1>9, <2>1 DEF f
  <2>3. QED
    BY <1>10, <2>2
<1>12. Writers'
  <2>1. ASSUME NEW x \in Shas PROVE Writing(tmp[x], x)'
    <3>1. CASE x = s
      <4>1. \A u \in g.by : u = t \/ (f # NoFile /\ u \in f.by)
        BY <1>8
      <4>2. QED
        BY <1>5, <1>7, <1>9, <3>1, <4>1 DEF Writing, f
    <3>2. CASE x # s
      BY <1>5, <1>7, <1>9, <3>2 DEF Writing
    <3>3. QED
      BY <3>1, <3>2
  <2>2. ASSUME NEW x \in Shas PROVE Writing(blob[x], x)'
    BY <1>3, <1>5, <1>9 DEF Writing
  <2>3. QED
    BY <2>1, <2>2 DEF Writers
<1>13. TmpIsWhole'
  <2> SUFFICES ASSUME NEW u \in Threads, dl'[u].pc \in {"close", "replace"},
                      tmp'[dl'[u].sha] # NoFile, tmp'[dl'[u].sha].bad \/ Contended(u)'
               PROVE  tmp'[dl'[u].sha].shared
    BY DEF TmpIsWhole
  <2>1. u \in Active /\ dl'[u].sha = dl[u].sha
    BY <1>5 DEF Active
  <2>2. CASE dl[u].sha = s
    <3>1. Contended(t)
      <4>1. CASE u # t
        <5>1. dl[u].pc \in {"close", "replace"}
          BY <1>5, <4>1
        <5>2. QED
          BY <1>10, <2>2, <4>1, <5>1
      <4>2. CASE u = t /\ Contended(u)'
        <5>1. PICK w \in Threads \ {t} : dl'[w].sha = dl'[t].sha /\ dl'[w].pc \in {"close", "replace"}
          BY <4>2 DEF Contended
        <5>2. QED
          BY <1>5, <1>10, <5>1
      <4>3. CASE u = t /\ tmp'[dl'[u].sha].bad
        <5>1. g.bad
          BY <1>7, <2>1, <2>2, <4>3
        <5>2. QED
          BY <1>8, <1>11, <5>1
      <4>4. QED
        BY <4>1, <4>2, <4>3
    <3>2. g.shared
      BY <1>8, <3>1
    <3>3. QED
      BY <1>7, <2>1, <2>2, <3>2
  <2>3. CASE dl[u].sha # s
    <3>1. dl[u].sha \in Shas /\ u # t /\ dl'[u] = dl[u] /\ tmp'[dl[u].sha] = tmp[dl[u].sha]
      BY <1>5, <1>7, <2>1, <2>3, Entries
    <3>2. Contended(u)' => Contended(u)
      <4> SUFFICES ASSUME NEW w \in Threads \ {u}, dl'[w].sha = dl'[u].sha,
                          dl'[w].pc \in {"close", "replace"}
                   PROVE  Contended(u)
        BY DEF Contended
      <4>1. w # t
        BY <1>5, <2>1, <2>3
      <4>2. QED
        BY <1>5, <3>1, <4>1 DEF Contended
    <3>3. QED
      BY <3>1, <3>2 DEF Whole, TmpIsWhole
  <2>4. QED
    BY <2>2, <2>3
<1>14. SharedHaveMet'
  <2>1. Contended(t) => Met(s)
    <3> SUFFICES ASSUME NEW w \in Threads \ {t}, dl[w].sha = dl[t].sha,
                        dl[w].pc \in {"close", "replace"}
                 PROVE  Met(s)
      BY DEF Contended
    <3>1. w \in Active
      BY DEF Active
    <3>2. QED
      BY <1>1, <3>1, TwoMeet DEF s
  <2>2. \A x : Met(x)' <=> Met(x)
    BY <1>3 DEF Met
  <2>3. ASSUME NEW x \in Shas, tmp'[x] # NoFile, tmp'[x].shared PROVE Met(x)
    <3>1. CASE x = s
      <4>1. g.shared
        BY <1>7, <2>3, <3>1
      <4>2. QED
        BY <1>8, <2>1, <3>1, <4>1
    <3>2. CASE x # s
      BY <1>7, <2>3, <3>2 DEF Whole, SharedHaveMet
    <3>3. QED
      BY <3>1, <3>2
  <2>4. \A x \in Shas : blob[x] # NoFile /\ blob[x].shared => Met(x)
    BY DEF Whole, SharedHaveMet
  <2>5. QED
    BY <1>3, <2>2, <2>3, <2>4 DEF SharedHaveMet
<1>15. BlobIsWhole'
  BY <1>3 DEF Whole, BlobIsWhole
<1>16. QED
  BY <1>12, <1>13, <1>14, <1>15 DEF Whole

(* A thread lets go of the file it has open: a file is no more shared than  *)
(* it was, and one that turns bad had this writer.                          *)
LetGo(f, g, t) ==
    g # NoFile => /\ f # NoFile /\ g.shared = f.shared /\ g.by \subseteq f.by
                  /\ t \in g.by => g = f
                  /\ f.by \subseteq g.by \cup {t}
                  /\ g.bad => f.bad \/ t \in f.by

(* ... which keeps the files whole. *)
LEMMA LetGoWhole ==
    ASSUME TypeOK, Shape, Recorded, Whole, NEW t \in Threads, dl[t].sha \in Shas,
           UNCHANGED <<asked, crossed>>,
           dl'[t].pc # "close",
           dl'[t].pc = "replace" => dl[t].pc = "close" /\ dl'[t].sha = dl[t].sha,
           \A u \in Threads : u # t => dl'[u] = dl[u],
           \A x \in Shas : x # dl[t].sha => tmp'[x] = tmp[x] /\ blob'[x] = blob[x],
           LetGo(tmp[dl[t].sha], tmp'[dl[t].sha], t), LetGo(blob[dl[t].sha], blob'[dl[t].sha], t),
           \A f \in {tmp'[dl[t].sha], blob'[dl[t].sha]} : f # NoFile => t \notin f.by,
           dl'[t].pc = "replace" /\ tmp'[dl[t].sha] # NoFile => tmp'[dl[t].sha].bad = tmp[dl[t].sha].bad
    PROVE  Whole'
<1>0. PICK s \in Shas : s = dl[t].sha
  OBVIOUS
<1>1. /\ \A x \in Shas : x # s => tmp'[x] = tmp[x] /\ blob'[x] = blob[x]
      /\ LetGo(tmp[s], tmp'[s], t) /\ LetGo(blob[s], blob'[s], t)
      /\ tmp'[s] # NoFile => t \notin tmp'[s].by
      /\ blob'[s] # NoFile => t \notin blob'[s].by
  BY <1>0
<1>2. /\ \A x \in Shas : Writing(tmp[x], x) /\ Writing(blob[x], x)
      /\ TmpIsWhole /\ SharedHaveMet /\ BlobIsWhole
  BY DEF Whole, Writers
<1>3. Writers'
  <2>1. ASSUME NEW x \in Shas, NEW f, NEW g, Writing(f, x), g # NoFile => f # NoFile /\ g.by \subseteq f.by,
               g # NoFile => t \notin g.by
        PROVE  g # NoFile => \A u \in g.by : u \in Threads /\ dl'[u].pc = "close" /\ dl'[u].sha = x
    BY <2>1 DEF Writing
  <2>2. ASSUME NEW x \in Shas PROVE Writing(tmp[x], x)' /\ Writing(blob[x], x)'
    <3>1. CASE x = s
      <4>1. /\ tmp'[x] # NoFile => tmp[x] # NoFile /\ tmp'[x].by \subseteq tmp[x].by
            /\ blob'[x] # NoFile => blob[x] # NoFile /\ blob'[x].by \subseteq blob[x].by
        BY <1>1, <3>1 DEF LetGo
      <4>2. QED
        BY <1>1, <1>2, <2>1, <3>1, <4>1 DEF Writing
    <3>2. CASE x # s
      <4>1. /\ tmp'[x] # NoFile => \A u \in tmp[x].by : u # t
            /\ blob'[x] # NoFile => \A u \in blob[x].by : u # t
        BY <1>0, <1>1, <1>2, <3>2 DEF Writing
      <4>2. QED
        BY <1>1, <1>2, <3>2, <4>1 DEF Writing
    <3>3. QED
      BY <3>1, <3>2
  <2>3. QED
    BY <2>2 DEF Writers
<1>4. TmpIsWhole'
  <2>1. \A u \in Threads : dl'[u].pc \in {"close", "replace"} =>
           dl[u].pc \in {"close", "replace"} /\ dl'[u].sha = dl[u].sha
    OBVIOUS
  <2>2. ASSUME NEW u \in Threads, dl'[u].pc \in {"close", "replace"}, tmp'[dl[u].sha] # NoFile
        PROVE  /\ tmp[dl[u].sha] # NoFile /\ tmp'[dl[u].sha].shared = tmp[dl[u].sha].shared
               /\ tmp'[dl[u].sha].bad => tmp[dl[u].sha].bad \/ Contended(u)
    <3>1. dl[u].sha \in Shas
      BY <2>1, <2>2, Entries DEF Active
    <3>2. CASE dl[u].sha # s
      <4>1. tmp'[dl[u].sha] = tmp[dl[u].sha]
        BY <1>1, <3>1, <3>2
      <4>2. QED
        BY <2>2, <4>1
    <3>3. CASE dl[u].sha = s
      <4>1. tmp[s] # NoFile /\ tmp'[s].shared = tmp[s].shared
        BY <1>1, <2>2, <3>3 DEF LetGo
      <4>2. CASE u = t
        BY <1>0, <2>2, <3>3, <4>1, <4>2
      <4>3. CASE u # t
        <5>1. ASSUME t \in tmp[s].by PROVE Contended(u)
          <6>1. dl[t].pc = "close" /\ dl[t].sha = s
            BY <1>2, <4>1, <5>1 DEF Writing
          <6>2. QED
            BY <3>3, <4>3, <6>1 DEF Contended
        <5>2. tmp'[s].bad => tmp[s].bad \/ t \in tmp[s].by
          BY <1>1, <2>2, <3>3 DEF LetGo
        <5>3. QED
          BY <3>3, <4>1, <5>1, <5>2
      <4>4. QED
        BY <4>2, <4>3
    <3>4. QED
      BY <3>2, <3>3
  <2>3. QED
    BY <1>2, <2>1, <2>2, TmpKept
<1>5. SharedHaveMet'
  <2>1. \A x : Met(x)' <=> Met(x)
    BY DEF Met
  <2>2. ASSUME NEW x \in Shas
        PROVE  /\ tmp'[x] # NoFile /\ tmp'[x].shared => Met(x)
               /\ blob'[x] # NoFile /\ blob'[x].shared => Met(x)
    <3>1. CASE x = s
      BY <1>1, <1>2, <3>1 DEF LetGo, SharedHaveMet
    <3>2. CASE x # s
      BY <1>1, <1>2, <3>2 DEF SharedHaveMet
    <3>3. QED
      BY <3>1, <3>2
  <2>3. QED
    BY <2>1, <2>2 DEF SharedHaveMet
<1>6. BlobIsWhole'
  <2> SUFFICES ASSUME NEW x \in Shas, blob'[x] # NoFile, ~Decrypts(blob'[x])
               PROVE  blob'[x].shared
    BY DEF BlobIsWhole
  <2>1. CASE x # s
    BY <1>1, <1>2, <2>1 DEF BlobIsWhole
  <2>2. CASE x = s
    <3>1. /\ blob[s] # NoFile /\ blob'[s].shared = blob[s].shared
          /\ blob'[s].by \subseteq blob[s].by /\ (blob'[s].bad => blob[s].bad \/ t \in blob[s].by)
      BY <1>1, <2>2 DEF LetGo
    <3>2. blob'[s].by # {} \/ blob'[s].bad
      BY <2>2 DEF Decrypts
    <3>3. blob[s].by # {} \/ blob[s].bad
      BY <3>1, <3>2
    <3>4. ~Decrypts(blob[s])
      BY <3>3 DEF Decrypts
    <3>5. blob[s].shared
      BY <1>2, <3>1, <3>4 DEF BlobIsWhole
    <3>6. QED
      BY <2>2, <3>1, <3>5
  <2>3. QED
    BY <2>1, <2>2
<1>7. QED
  BY <1>3, <1>4, <1>5, <1>6 DEF Whole

(* Closing a file, or failing to write it, is letting go of it. *)
LEMMA Letting ==
    ASSUME NEW f \in Files, NEW t \in Threads
    PROVE  /\ LetGo(f, Released(f, t), t) /\ LetGo(f, Broken(f, t), t)
           /\ Released(f, t) # NoFile => t \notin Released(f, t).by /\ Released(f, t).bad = f.bad
           /\ Broken(f, t) # NoFile => t \notin Broken(f, t).by
<1>1. CASE f = NoFile
  BY <1>1, FileTypes DEF LetGo
<1>2. CASE f # NoFile
  <2>1. f \in Whatever
    BY <1>2, FileTypes
  <2>2. PICK g : g = Released(f, t)
    OBVIOUS
  <2>3. g.by = f.by \ {t} /\ g.bad = f.bad /\ g.shared = f.shared
    BY <1>2, <2>2, FileTypes DEF File
  <2>4. LetGo(f, g, t) /\ t \notin g.by
    BY <1>2, <2>3 DEF LetGo
  <2>5. PICK h : h = Broken(f, t)
    OBVIOUS
  <2>6. LetGo(f, h, t) /\ t \notin h.by
    <3>1. CASE t \in f.by
      <4>1. h.by = f.by \ {t} /\ h.shared = f.shared
        BY <1>2, <2>5, <3>1, FileTypes DEF File
      <4>2. QED
        BY <1>2, <3>1, <4>1 DEF LetGo
    <3>2. CASE t \notin f.by
      <4>1. h = f
        BY <1>2, <2>5, <3>2, FileTypes
      <4>2. QED
        BY <1>2, <3>2, <4>1 DEF LetGo
    <3>3. QED
      BY <3>1, <3>2
  <2>7. QED
    BY <2>2, <2>3, <2>4, <2>5, <2>6
<1>3. QED
  BY <1>1, <1>2

(* A thread has written all bytes and closes the file it has open. *)
LEMMA CloseTmpWhole ==
    ASSUME TypeOK, Shape, Recorded, Whole, NEW t \in Threads, CloseTmp(t)
    PROVE  Whole'
<1>1. t \in Active /\ dl[t].pc = "close"
  BY DEF CloseTmp, Active
<1>2. dl[t].sha \in Shas
  BY <1>1, Entries
<1>3. PICK s \in Shas : s = dl[t].sha
  BY <1>2
<1>4. tmp[s] \in Files /\ blob[s] \in Files
  BY DEF TypeOK
<1>5. UNCHANGED <<asked, crossed>> /\ Goes(t, "replace")
  BY DEF CloseTmp, history
<1>6. Moves(t, Operation("replace", dl[t].id, s))
  BY <1>1, <1>3, <1>5, GoesMoves DEF CloseTmp, Phases, registries, history
<1>7. /\ dl'[t].pc = "replace" /\ dl'[t].sha = s
      /\ \A u \in Threads : u # t => dl'[u] = dl[u]
  BY <1>6, MovesFacts DEF Operation
<1>8. /\ tmp'[s] = Released(tmp[s], t) /\ \A x \in Shas : x # s => tmp'[x] = tmp[x]
      /\ blob'[s] = Released(blob[s], t) /\ \A x \in Shas : x # s => blob'[x] = blob[x]
  BY <1>3 DEF CloseTmp, TypeOK
<1>9. /\ LetGo(tmp[s], tmp'[s], t) /\ LetGo(blob[s], blob'[s], t)
      /\ tmp'[s] # NoFile => t \notin tmp'[s].by /\ tmp'[s].bad = tmp[s].bad
      /\ blob'[s] # NoFile => t \notin blob'[s].by
  BY <1>4, <1>8, Letting
<1>10. QED
  BY <1>1, <1>3, <1>5, <1>7, <1>8, <1>9, LetGoWhole

(* Something the thread writes fails. *)
LEMMA WriteFailsWhole ==
    ASSUME TypeOK, Shape, Recorded, Whole, NEW t \in Threads, WriteFails(t)
    PROVE  Whole'
<1>1. t \in Active
  BY DEF WriteFails, Active
<1>2. dl[t].sha \in Shas
  BY <1>1, Entries
<1>3. PICK s \in Shas : s = dl[t].sha
  BY <1>2
<1>4. tmp[s] \in Files /\ blob[s] \in Files
  BY DEF TypeOK
<1>5. UNCHANGED <<asked, crossed>> /\ Ends(t)
  BY DEF WriteFails, history
<1>6. Moves(t, Idle)
  BY <1>1, <1>5, GoesMoves DEF WriteFails, Phases, registries, history
<1>7. dl'[t].pc = "idle" /\ \A u \in Threads : u # t => dl'[u] = dl[u]
  BY <1>6, MovesFacts, Entries
<1>8. /\ tmp'[s] = Broken(tmp[s], t) /\ \A x \in Shas : x # s => tmp'[x] = tmp[x]
      /\ blob'[s] = Broken(blob[s], t) /\ \A x \in Shas : x # s => blob'[x] = blob[x]
  BY <1>3 DEF WriteFails, TypeOK
<1>9. /\ LetGo(tmp[s], tmp'[s], t) /\ LetGo(blob[s], blob'[s], t)
      /\ tmp'[s] # NoFile => t \notin tmp'[s].by
      /\ blob'[s] # NoFile => t \notin blob'[s].by
  BY <1>4, <1>8, Letting
<1>10. QED
  BY <1>3, <1>5, <1>7, <1>8, <1>9, LetGoWhole

(* The temporary file gets the final name. *)
LEMMA ReplaceWhole ==
    ASSUME TypeOK, Shape, Recorded, Whole, NEW t \in Threads, Replace(t)
    PROVE  Whole'
<1> DEFINE s == dl[t].sha
<1>1. t \in Active /\ dl[t].pc = "replace"
  BY DEF Replace, Active
<1>2. s \in Shas /\ tmp[s] \in Files /\ s = dl[t].sha
  BY <1>1, Entries DEF TypeOK
<1>3. UNCHANGED <<rm, asked, crossed, opened>>
  BY DEF Replace, registries
<1>4. CASE tmp[s] = NoFile
  <2>1. Ends(t) /\ UNCHANGED <<blob, tmp>>
    BY <1>4 DEF Replace
  <2>2. Moves(t, Idle)
    BY <1>1, <1>3, <2>1, GoesMoves DEF Phases
  <2>3. dl'[t].pc = "idle" /\ \A u \in Threads : u # t => dl'[u] = dl[u]
    BY <2>2, MovesFacts, Entries
  <2>4. QED
    BY <1>1, <1>3, <2>1, <2>3, FilesKept
<1>5. CASE tmp[s] # NoFile
  <2>1. /\ Goes(t, "meta") /\ blob' = [blob EXCEPT ![s] = tmp[s]]
        /\ tmp' = [tmp EXCEPT ![s] = NoFile]
    BY <1>5 DEF Replace
  <2>2. Moves(t, Operation("meta", dl[t].id, s))
    BY <1>1, <1>3, <2>1, GoesMoves DEF Phases
  <2>3. dl'[t].pc = "meta" /\ \A u \in Threads : u # t => dl'[u] = dl[u]
    BY <2>2, MovesFacts DEF Operation
  <2>4. /\ tmp'[s] = NoFile /\ \A x \in Shas : x # s => tmp'[x] = tmp[x]
        /\ blob'[s] = tmp[s] /\ \A x \in Shas : x # s => blob'[x] = blob[x]
    BY <1>2, <2>1 DEF TypeOK
  <2> HIDE DEF s
  <2>5. Writers'
    <3>1. ASSUME NEW x \in Shas PROVE Writing(tmp[x], x)' /\ Writing(blob[x], x)'
      <4>1. Writing(tmp[x], x) /\ Writing(blob[x], x)
        BY DEF Whole, Writers
      <4>2. Writing(tmp[s], s)
        BY <1>2 DEF Whole, Writers
      <4>3. QED
        BY <1>1, <2>3, <2>4, <4>1, <4>2 DEF Writing
    <3>2. QED
      BY <3>1 DEF Writers
  <2>6. TmpIsWhole'
    <3>1. \A u \in Threads : dl'[u].pc \in {"close", "replace"} => u # t /\ dl'[u] = dl[u]
      BY <2>3
    <3>2. ASSUME NEW u \in Threads, dl'[u].pc \in {"close", "replace"}, tmp'[dl[u].sha] # NoFile
          PROVE  tmp'[dl[u].sha] = tmp[dl[u].sha]
      <4>1. dl[u].sha \in Shas
        BY <3>1, <3>2, Entries DEF Active
      <4>2. QED
        BY <2>4, <3>2, <4>1
    <3>3. QED
      BY <3>1, <3>2, TmpKept DEF Whole
  <2>7. SharedHaveMet'
    <3>1. \A x : Met(x)' <=> Met(x)
      BY <1>3 DEF Met
    <3>2. ASSUME NEW x \in Shas
          PROVE  /\ tmp'[x] # NoFile /\ tmp'[x].shared => Met(x)
                 /\ blob'[x] # NoFile /\ blob'[x].shared => Met(x)
      BY <1>2, <2>4 DEF Whole, SharedHaveMet
    <3>3. QED
      BY <3>1, <3>2 DEF SharedHaveMet
  <2>8. ~Decrypts(tmp[s]) => tmp[s].shared
    <3> SUFFICES ASSUME ~Decrypts(tmp[s]) PROVE tmp[s].shared
      OBVIOUS
    <3>1. tmp[s].by # {} \/ tmp[s].bad
      BY <1>5 DEF Decrypts
    <3>2. ASSUME tmp[s].by # {} PROVE Contended(t)
      <4>1. PICK u \in tmp[s].by : u \in Threads /\ dl[u].pc = "close" /\ dl[u].sha = s
        BY <1>2, <1>5, <3>2 DEF Whole, Writers, Writing
      <4>2. QED
        BY <1>1, <1>2, <4>1 DEF Contended
    <3>3. QED
      BY <1>1, <1>2, <1>5, <3>1, <3>2 DEF Whole, TmpIsWhole
  <2>9. BlobIsWhole'
    <3>1. ASSUME NEW x \in Shas, blob'[x] # NoFile, ~Decrypts(blob'[x]) PROVE blob'[x].shared
      BY <2>4, <2>8, <3>1 DEF Whole, BlobIsWhole
    <3>2. QED
      BY <3>1 DEF BlobIsWhole
  <2>10. QED
    BY <2>5, <2>6, <2>7, <2>9 DEF Whole
<1>6. QED
  BY <1>4, <1>5

(* The process dies: what was open is cut short. *)
LEMMA RestartWhole ==
    ASSUME TypeOK, Whole, Restart
    PROVE  Whole'
<1>1. /\ \A s \in Shas : blob'[s] = Torn(blob[s]) /\ tmp'[s] = Torn(tmp[s])
      /\ \A t \in Threads : dl'[t] = Idle
      /\ UNCHANGED <<asked, crossed>>
  BY DEF Restart
<1>2. Idle.pc = "idle"
  BY DEF Idle, Operation
<1>3. ASSUME NEW f \in Files, Torn(f) # NoFile
      PROVE  /\ f # NoFile /\ Torn(f).by = {} /\ Torn(f).shared = f.shared
             /\ Decrypts(f) => Decrypts(Torn(f))
  <2>1. f # NoFile
    BY <1>3 DEF Torn
  <2>2. f \in [by : SUBSET Threads, bad : BOOLEAN, shared : BOOLEAN]
    BY <2>1 DEF Files
  <2>3. CASE f.by = {}
    BY <2>1, <2>3 DEF Torn
  <2>4. CASE f.by # {}
    <3>1. Torn(f).by = {} /\ Torn(f).shared = f.shared
      BY <2>1, <2>4 DEF Torn, File
    <3>2. QED
      BY <2>1, <2>4, <3>1 DEF Decrypts
  <2>5. QED
    BY <2>3, <2>4
<1>4. Writers'
  BY <1>1, <1>3 DEF Writers, Writing, TypeOK
<1>5. TmpIsWhole'
  BY <1>1, <1>2 DEF TmpIsWhole
<1>6. SharedHaveMet'
  <2>1. \A x : Met(x)' <=> Met(x)
    BY <1>1 DEF Met
  <2>2. ASSUME NEW x \in Shas
        PROVE  /\ tmp'[x] # NoFile /\ tmp'[x].shared => Met(x)
               /\ blob'[x] # NoFile /\ blob'[x].shared => Met(x)
    <3>1. tmp[x] \in Files /\ blob[x] \in Files
      BY DEF TypeOK
    <3>2. /\ tmp'[x] # NoFile => tmp[x] # NoFile /\ tmp'[x].shared = tmp[x].shared
          /\ blob'[x] # NoFile => blob[x] # NoFile /\ blob'[x].shared = blob[x].shared
      BY <1>1, <1>3, <3>1
    <3>3. QED
      BY <3>2 DEF Whole, SharedHaveMet
  <2>3. QED
    BY <2>1, <2>2 DEF SharedHaveMet
<1>7. BlobIsWhole'
  <2>1. ASSUME NEW s \in Shas, blob'[s] # NoFile, ~Decrypts(blob'[s]) PROVE blob'[s].shared
    <3>1. blob[s] \in Files /\ blob'[s] = Torn(blob[s])
      BY <1>1 DEF TypeOK
    <3>2. blob[s] # NoFile /\ blob'[s].shared = blob[s].shared /\ ~Decrypts(blob[s])
      BY <1>3, <2>1, <3>1
    <3>3. QED
      BY <3>2 DEF Whole, BlobIsWhole
  <2>2. QED
    BY <2>1 DEF BlobIsWhole
<1>8. QED
  BY <1>4, <1>5, <1>6, <1>7 DEF Whole

-----------------------------------------------------------------------------
(* The mirror *)

(* Of an id with a content of its own, an operation is about both or        *)
(* neither, and there is at most one.                                       *)
LEMMA SoleOperation ==
    ASSUME TypeOK, Shape, Recorded, NEW id \in Ids, NEW s \in Shas, Sole(id, s)
    PROVE  /\ \A t \in Threads : dl[t].id = id => t \in Active /\ dl[t].sha = s
           /\ \A t \in Active : dl[t].sha = s => dl[t].id = id
           /\ \A t, u \in Threads : dl[t].id = id /\ dl[u].id = id => t = u
           /\ rm.id = id => rm # Idle /\ rm.sha = s /\ \A t \in Threads : dl[t].id # id
           /\ rm # Idle /\ rm.sha = s => rm.id = id
<1>1. \A t \in Threads : dl[t].id = id => t \in Active
  BY Entries
<1>2. rm.id = id => rm # Idle
  BY Entries
<1>3. \A o : About(o) => (o.id = id <=> o.sha = s)
  BY DEF Sole, About
<1>4. (\A t \in Active : About(dl[t])) /\ (rm # Idle => About(rm))
  BY Entries
<1>5. \A t, u \in Threads : dl[t].id = id /\ dl[u].id = id => t = u
  BY <1>1 DEF Recorded, Meet, Sole
<1>6. rm.id = id => \A t \in Threads : dl[t].id # id
  BY <1>1, <1>2 DEF Recorded, Meet, Sole
<1>7. QED
  BY <1>1, <1>2, <1>3, <1>4, <1>5, <1>6

(* What a step of thread t means for such an id: nothing, or all of it.     *)
LEMMA SoleMoves ==
    ASSUME TypeOK, Shape, Recorded, NEW id \in Ids, NEW s \in Shas, Sole(id, s),
           NEW t, NEW v, Moves(t, v)
    PROVE  /\ dl[t].id # id => dl[t].sha # s /\ \A pcs : At(id, pcs)' <=> At(id, pcs)
           /\ dl[t].id = id => /\ dl[t].sha = s /\ rm.id # id
                               /\ \A pcs : At(id, pcs) <=> dl[t].pc \in pcs
                               /\ \A pcs : At(id, pcs)' <=> (v # Idle /\ v.pc \in pcs)
           /\ Sole(id, s)' /\ rm' = rm /\ opened' = opened
<1>1. t \in Active /\ t \in Threads /\ UNCHANGED <<rm, asked, crossed, opened>>
  BY DEF Moves, Active
<1>2. dl'[t] = v /\ \A u \in Threads : u # t => dl'[u] = dl[u]
  BY MovesFacts
<1>3. v = Idle \/ (v # Idle /\ v.id = dl[t].id)
  BY MovesFacts
<1>4. Idle.id # id
  BY Entries
<1>5. ASSUME dl[t].id # id PROVE dl[t].sha # s /\ \A pcs : At(id, pcs)' <=> At(id, pcs)
  <2>1. dl[t].sha # s
    BY <1>1, <1>5, SoleOperation
  <2>2. dl'[t].id # id
    BY <1>2, <1>3, <1>4, <1>5
  <2>3. QED
    BY <1>1, <1>2, <1>5, <2>1, <2>2 DEF At
<1>6. ASSUME dl[t].id = id
      PROVE  /\ dl[t].sha = s /\ rm.id # id
             /\ \A pcs : At(id, pcs) <=> dl[t].pc \in pcs
             /\ \A pcs : At(id, pcs)' <=> (v # Idle /\ v.pc \in pcs)
  <2>1. dl[t].sha = s /\ rm.id # id /\ \A u \in Threads : u # t => dl[u].id # id
    BY <1>1, <1>6, SoleOperation
  <2>2. QED
    BY <1>1, <1>2, <1>3, <1>4, <1>6, <2>1 DEF At
<1>7. QED
  BY <1>1, <1>5, <1>6 DEF Sole

(* A step of a download that is about another id *)
LEMMA ElsewhereMirrors ==
    ASSUME NEW id \in Ids, NEW s \in Shas, Mirrors(id, s),
           \A pcs : At(id, pcs)' <=> At(id, pcs), UNCHANGED <<rm, opened>>, s \in cut' <=> s \in cut,
           index'[id] = index[id], meta'[s] = meta[s], blob[s] # NoFile => blob'[s] # NoFile
    PROVE  Mirrors(id, s)'
<1>1. /\ At(id, {"meta", "sidecar", "index"})' <=> At(id, {"meta", "sidecar", "index"})
      /\ At(id, {"sidecar", "index"})' <=> At(id, {"sidecar", "index"})
      /\ At(id, {"sidecar"})' <=> At(id, {"sidecar"})
      /\ At(id, {"index"})' <=> At(id, {"index"})
  OBVIOUS
<1>2. HasBlob(id, s)'
  BY <1>1 DEF Mirrors, HasBlob
<1>3. HasEntry(id, s)'
  BY <1>1 DEF Mirrors, HasEntry, Listed
<1>4. QED
  BY <1>2, <1>3 DEF Mirrors

(* A step of a download up to the renaming, or its end before the sidecar   *)
LEMMA EarlyMirrors ==
    ASSUME NEW id \in Ids, NEW s \in Shas, Mirrors(id, s), NEW t, NEW v,
           rm.id # id, dl[t].pc \notin {"sidecar", "index"},
           v = Idle \/ v.pc \notin {"meta", "sidecar", "index"},
           \A pcs : At(id, pcs) <=> dl[t].pc \in pcs,
           \A pcs : At(id, pcs)' <=> (v # Idle /\ v.pc \in pcs), UNCHANGED <<rm, opened>>,
           s \in cut' <=> s \in cut,
           index'[id] = index[id], meta'[s] = meta[s], blob[s] # NoFile => blob'[s] # NoFile
    PROVE  Mirrors(id, s)'
<1>1. /\ ~At(id, {"meta", "sidecar", "index"})' /\ ~At(id, {"sidecar", "index"})'
      /\ ~At(id, {"sidecar"})' /\ ~At(id, {"index"})' /\ ~At(id, {"sidecar", "index"})
  OBVIOUS
<1>2. HasBlob(id, s)'
  BY <1>1 DEF Mirrors, HasBlob
<1>3. HasEntry(id, s)'
  BY <1>1 DEF Mirrors, HasEntry, Listed
<1>4. QED
  BY <1>2, <1>3 DEF Mirrors

(* A registry that is opened lists such an id if its sidecar is there.      *)
LEMMA Reopened ==
    ASSUME TypeOK, Shape, Origins, NEW d \in Dirs, NEW ix \in ForTenant(d),
           NEW id \in Ids, NEW s \in Shas, Sole(id, s), Mirrors(id, s)
    PROVE  /\ rm.id = id => ix[id] = NoSha
           /\ ix[id] = s => index[id] = s \/ meta[s] = id
           /\ rm.id # id /\ DirOf(id) \in opened \cup {d} /\ ~At(id, {"sidecar", "index"}) =>
                 Listed(id, s, ix)
<1>1. CASE d \in opened \/ DirOf(id) # d
  <2>1. ix[id] = index[id]
    BY <1>1, OpenedFacts
  <2>2. QED
    BY <1>1, <2>1 DEF Mirrors, HasEntry, Listed
<1>2. CASE d \notin opened /\ DirOf(id) = d
  <2>1. rm.id # id
    BY <1>2, Entries DEF About
  <2>2. ix[id] = s => meta[s] = id
    BY <1>2, OpenedFacts, RegistryAssumption
  <2>3. meta[s] = id => ix[id] = s
    BY <1>2, OpenedFacts DEF Sole
  <2>4. QED
    BY <2>1, <2>2, <2>3 DEF Listed
<1>3. QED
  BY <1>1, <1>2

(* The steps of a download *)
LEMMA ThreadMirror ==
    ASSUME TypeOK, Shape, Origins, Recorded, Mirror, NEW t \in Threads,
           \/ CheckQuota(t) \/ OpenTmp(t) \/ CloseTmp(t) \/ Replace(t)
           \/ OpenMeta(t) \/ WriteMeta(t) \/ WriteFails(t) \/ Add(t)
    PROVE  Mirror'
<1>1. t \in Active
  BY DEF Active, CheckQuota, OpenTmp, CloseTmp, Replace, OpenMeta, WriteMeta, WriteFails, Add
<1>2. dl[t].id \in Ids /\ dl[t].sha \in Shas
  BY <1>1, Entries
<1>3. PICK v : Moves(t, v)
  BY ThreadType
<1>4. dl'[t] = v
  BY <1>3, MovesFacts
<1> DEFINE sh == dl[t].sha
<1>5. /\ index \in Indexes /\ meta \in [Shas -> Ids \cup {NoId, Corrupt}] /\ blob \in FileMaps
      /\ tmp \in FileMaps /\ dl \in Downloads /\ t \in Threads
  BY DEF TypeOK, FileMaps, Downloads
<1> SUFFICES ASSUME NEW id \in Ids, NEW s \in Shas, Sole(id, s)' PROVE Mirrors(id, s)'
  BY DEF Mirror
<1>6. Sole(id, s) /\ UNCHANGED <<rm, opened>>
  BY <1>3 DEF Moves, Sole
<1>7. Mirrors(id, s)
  BY <1>6 DEF Mirror
<1>8. /\ \A i \in Ids : i # dl[t].id => index'[i] = index[i]
      /\ \A x \in Shas : x # sh => meta'[x] = meta[x]
      /\ \A x \in Shas : x # sh => (x \in cut' <=> x \in cut)
  BY <1>2, <1>5 DEF CheckQuota, OpenTmp, CloseTmp, Replace, OpenMeta, WriteMeta, WriteFails, Add,
     registries, disk, history, Indexes
<1>9. \A x \in Shas : blob[x] # NoFile => blob'[x] # NoFile
  <2>1. CASE CloseTmp(t)
    <3>1. \A x \in Shas : blob'[x] = blob[x] \/ blob'[x] = Released(blob[x], t)
      BY <1>2, <1>5, <2>1 DEF CloseTmp, FileMaps
    <3>2. \A x \in Shas : blob[x] \in Files
      BY <1>5 DEF FileMaps
    <3>3. \A x \in Shas : Released(blob[x], t) = NoFile => blob[x] = NoFile
      BY <3>2, FileTypes
    <3>4. QED
      BY <3>1, <3>3
  <2>2. CASE Replace(t)
    BY <1>2, <1>5, <2>2 DEF Replace, FileMaps
  <2>3. CASE CheckQuota(t) \/ OpenTmp(t) \/ OpenMeta(t) \/ WriteMeta(t) \/ Add(t)
    BY <2>3 DEF CheckQuota, OpenTmp, OpenMeta, WriteMeta, Add, disk
  <2>4. CASE WriteFails(t)
    <3>1. \A x \in Shas : blob'[x] = blob[x] \/ blob'[x] = Broken(blob[x], t)
      BY <1>2, <1>5, <2>4 DEF WriteFails, FileMaps
    <3>2. \A x \in Shas : blob[x] \in Files
      BY <1>5 DEF FileMaps
    <3>3. \A x \in Shas : Broken(blob[x], t) = NoFile => blob[x] = NoFile
      BY <3>2, FileTypes
    <3>4. QED
      BY <3>1, <3>3
  <2>5. QED
    BY <2>1, <2>2, <2>3, <2>4
<1>10. CASE dl[t].id # id
  <2>1. sh # s /\ \A pcs : At(id, pcs)' <=> At(id, pcs)
    BY <1>3, <1>6, <1>10, SoleMoves
  <2>2. QED
    BY <1>6, <1>7, <1>8, <1>9, <1>10, <2>1, ElsewhereMirrors
<1>11. CASE dl[t].id = id
  <2>1. /\ sh = s /\ rm.id # id
        /\ \A pcs : At(id, pcs) <=> dl[t].pc \in pcs
        /\ \A pcs : At(id, pcs)' <=> (v # Idle /\ v.pc \in pcs)
    BY <1>3, <1>6, <1>11, SoleMoves
  <2>2. Idle.pc = "idle"
    BY DEF Idle, Operation
  <2>3. CASE \/ CheckQuota(t) \/ OpenTmp(t) \/ CloseTmp(t) \/ (Replace(t) /\ tmp[sh] = NoFile)
             \/ WriteFails(t) /\ dl[t].pc # "sidecar"
    <3>1. dl[t].pc \notin {"sidecar", "index"}
      BY <2>3 DEF CheckQuota, OpenTmp, CloseTmp, Replace, WriteFails
    <3>2. dl'[t].pc \in {"idle", "open", "close", "replace"}
      <4>1. Goes(t, "open") \/ Goes(t, "close") \/ Goes(t, "replace") \/ Ends(t)
        BY <2>3 DEF CheckQuota, OpenTmp, CloseTmp, Replace, WriteFails
      <4>2. QED
        BY <1>5, <2>2, <4>1 DEF Goes, Ends, Downloads
    <3>3. UNCHANGED <<index, meta, cut>>
      BY <2>3 DEF CheckQuota, OpenTmp, CloseTmp, Replace, WriteFails, registries, disk, history
    <3>4. QED
      BY <1>4, <1>6, <1>7, <1>9, <2>1, <3>1, <3>2, <3>3, EarlyMirrors
  <2>4. CASE Replace(t) /\ tmp[sh] # NoFile
    <3>1. /\ blob'[s] # NoFile /\ UNCHANGED <<index, meta>> /\ s \notin cut'
          /\ dl[t].pc = "replace" /\ dl'[t].pc = "meta"
      BY <1>2, <1>5, <2>1, <2>4 DEF Replace, Goes, Downloads, FileMaps, registries
    <3>2. /\ ~At(id, {"sidecar", "index"}) /\ ~At(id, {"index"})' /\ ~At(id, {"sidecar"})'
      BY <1>4, <2>1, <3>1
    <3>3. HasEntry(id, s)'
      BY <1>6, <1>7, <2>1, <3>1, <3>2 DEF Mirrors, HasEntry, Listed
    <3>4. QED
      BY <3>1, <3>3 DEF Mirrors, HasBlob
  <2>5. CASE OpenMeta(t)
    <3>1. /\ UNCHANGED <<index, blob>> /\ dl[t].pc = "meta" /\ dl'[t].pc = "sidecar"
          /\ meta'[s] = Corrupt
      BY <1>5, <2>1, <2>5 DEF OpenMeta, Goes, Downloads, registries
    <3>2. /\ At(id, {"meta", "sidecar", "index"}) /\ At(id, {"sidecar", "index"})' /\ ~At(id, {"index"})'
      BY <1>4, <2>1, <2>2, <3>1
    <3>3. blob'[s] # NoFile
      BY <1>7, <3>1, <3>2 DEF Mirrors, HasBlob
    <3>4. QED
      BY <1>6, <2>1, <3>1, <3>2, <3>3 DEF Mirrors, HasBlob, HasEntry
  <2>6. CASE WriteMeta(t)
    <3>1. UNCHANGED <<index, blob>> /\ dl[t].pc = "sidecar" /\ dl'[t].pc = "index" /\ meta'[s] = id
      BY <1>5, <1>11, <2>1, <2>6 DEF WriteMeta, Goes, Downloads, registries
    <3>2. /\ At(id, {"meta", "sidecar", "index"}) /\ At(id, {"sidecar", "index"})' /\ ~At(id, {"sidecar"})'
      BY <1>4, <2>1, <2>2, <3>1
    <3>3. blob'[s] # NoFile
      BY <1>7, <3>1, <3>2 DEF Mirrors, HasBlob
    <3>4. QED
      BY <1>6, <2>1, <3>1, <3>2, <3>3 DEF Mirrors, HasBlob, HasEntry
  <2>7. CASE Add(t)
    <3>1. UNCHANGED <<meta, blob>> /\ dl[t].pc = "index" /\ dl'[t].pc = "idle" /\ index'[id] = s
      BY <1>5, <1>11, <2>1, <2>2, <2>7 DEF Add, Ends, Downloads, Indexes, disk
    <3>2. /\ At(id, {"meta", "sidecar", "index"}) /\ At(id, {"index"})
          /\ ~At(id, {"index"})' /\ ~At(id, {"sidecar"})'
      BY <1>4, <2>1, <3>1
    <3>3. blob'[s] # NoFile /\ meta'[s] = id
      BY <1>7, <3>1, <3>2 DEF Mirrors, HasBlob, HasEntry
    <3>4. QED
      BY <1>6, <2>1, <3>1, <3>2, <3>3 DEF Mirrors, HasBlob, HasEntry, Listed
  <2>8. CASE WriteFails(t) /\ dl[t].pc = "sidecar"
    <3>1. UNCHANGED <<index, meta>> /\ dl'[t].pc = "idle"
      BY <1>5, <2>2, <2>8 DEF WriteFails, Ends, Downloads, registries
    <3>2. /\ At(id, {"meta", "sidecar", "index"}) /\ At(id, {"sidecar"})
          /\ ~At(id, {"index"})' /\ ~At(id, {"sidecar"})'
      BY <1>4, <2>1, <2>8, <3>1
    <3>3. blob'[s] # NoFile /\ meta'[s] = Corrupt /\ Corrupt # id
      BY <1>7, <1>9, <3>1, <3>2, RegistryAssumption DEF Mirrors, HasBlob, HasEntry
    <3>4. QED
      BY <1>6, <2>1, <3>1, <3>2, <3>3 DEF Mirrors, HasBlob, HasEntry, Listed
  <2>9. QED
    BY <2>3, <2>4, <2>5, <2>6, <2>7, <2>8 DEF WriteFails
<1>12. QED
  BY <1>10, <1>11

(* A registry is opened. *)
LEMMA OpensMirror ==
    ASSUME TypeOK, Shape, Origins, Recorded, Mirror, NEW d \in Dirs, Opens(d)
    PROVE  Mirror'
<1>1. /\ index' \in ForTenant(d) /\ opened' = opened \cup {d}
      /\ UNCHANGED <<blob, meta, dl, rm, asked, crossed, cut>>
  BY DEF Opens, disk, history
<1> SUFFICES ASSUME NEW id \in Ids, NEW s \in Shas, Sole(id, s)' PROVE Mirrors(id, s)'
  BY DEF Mirror
<1>2. Sole(id, s)
  BY <1>1 DEF Sole
<1>3. Mirrors(id, s)
  BY <1>2 DEF Mirror
<1>4. /\ rm.id = id => index'[id] = NoSha
      /\ index'[id] = s => index[id] = s \/ meta[s] = id
      /\ rm.id # id /\ DirOf(id) \in opened' /\ ~At(id, {"sidecar", "index"}) =>
            Listed(id, s, index')
  BY <1>1, <1>2, <1>3, Reopened
<1>5. /\ At(id, {"meta", "sidecar", "index"})' <=> At(id, {"meta", "sidecar", "index"})
      /\ At(id, {"sidecar", "index"})' <=> At(id, {"sidecar", "index"})
      /\ At(id, {"sidecar"})' <=> At(id, {"sidecar"})
      /\ At(id, {"index"})' <=> At(id, {"index"})
  BY <1>1 DEF At
<1>6. HasBlob(id, s)'
  BY <1>1, <1>3, <1>4, <1>5 DEF Mirrors, HasBlob
<1>7. HasEntry(id, s)'
  BY <1>1, <1>3, <1>4, <1>5 DEF Mirrors, HasEntry, Listed
<1>8. QED
  BY <1>6, <1>7 DEF Mirrors

(* A download begins. *)
LEMMA FetchedMirror ==
    ASSUME TypeOK, Shape, Origins, Recorded, Mirror, NEW t \in Threads,
           NEW i0 \in Ids, NEW s0 \in Shas, Kinds(i0, s0), Fetched(t, i0, s0)
    PROVE  Mirror'
<1>1. /\ index' \in ForTenant(DirOf(i0)) /\ opened' = opened \cup {DirOf(i0)}
      /\ crossed \subseteq crossed' /\ UNCHANGED <<blob, meta, rm, cut>>
  BY DEF Fetched, disk
<1>2. /\ Shape' /\ Origins' /\ Recorded'
      /\ dl[t] = Idle /\ dl'[t] = Operation("quota", i0, s0)
      /\ \A u \in Threads : u # t => dl'[u] = dl[u]
      /\ asked'[i0] = asked[i0] \cup {s0} /\ \A i \in Ids : i # i0 => asked'[i] = asked[i]
  BY FetchedBooks
<1>3. TypeOK'
  BY OtherTypes
<1>4. dl'[t].pc = "quota" /\ dl'[t].id = i0 /\ \A i \in Ids : dl[t].id # i
  BY <1>2, Entries DEF Operation
<1> SUFFICES ASSUME NEW id \in Ids, NEW s \in Shas, Sole(id, s)' PROVE Mirrors(id, s)'
  BY DEF Mirror
<1>5. asked[id] = {s} => Sole(id, s)
  BY <1>1, <1>2 DEF Sole
<1>6. CASE id # i0
  <2>1. Sole(id, s)
    BY <1>2, <1>5, <1>6 DEF Sole
  <2>2. Mirrors(id, s)
    BY <2>1 DEF Mirror
  <2>3. /\ At(id, {"meta", "sidecar", "index"})' <=> At(id, {"meta", "sidecar", "index"})
        /\ At(id, {"sidecar", "index"})' <=> At(id, {"sidecar", "index"})
        /\ At(id, {"sidecar"})' <=> At(id, {"sidecar"})
        /\ At(id, {"index"})' <=> At(id, {"index"})
    BY <1>2, <1>4, <1>6 DEF At
  <2>4. /\ rm.id = id => index'[id] = NoSha
        /\ index'[id] = s => index[id] = s \/ meta[s] = id
        /\ rm.id # id /\ DirOf(id) \in opened' /\ ~At(id, {"sidecar", "index"}) =>
              Listed(id, s, index')
    BY <1>1, <2>1, <2>2, Reopened, DirTypes
  <2>5. HasBlob(id, s)'
    BY <1>1, <2>2, <2>3, <2>4 DEF Mirrors, HasBlob
  <2>6. HasEntry(id, s)'
    BY <1>1, <2>2, <2>3, <2>4 DEF Mirrors, HasEntry, Listed
  <2>7. QED
    BY <2>5, <2>6 DEF Mirrors
<1>7. CASE id = i0
  <2>1. rm.id # id /\ \A u \in Threads : u # t => dl[u].id # id
    <3>1. /\ \A u, w \in Threads : dl'[u].id = id /\ dl'[w].id = id => u = w
          /\ rm'.id = id => \A u \in Threads : dl'[u].id # id
      <4>1. /\ \A u \in Threads : dl'[u].id = id => u \in Active'
            /\ rm'.id = id => rm' # Idle
        BY <1>2, <1>3, Entries DEF Shape, Active, Idle, Operation
      <4>2. QED
        BY <1>2, <4>1 DEF Recorded, Meet, Sole
    <3>2. QED
      BY <1>1, <1>2, <1>4, <1>7, <3>1
  <2>2. \A pcs : At(id, pcs)' <=> "quota" \in pcs
    BY <1>2, <1>4, <1>7, <2>1 DEF At
  <2>3. \A pcs : ~At(id, pcs)
    BY <1>4, <2>1 DEF At
  <2>4. /\ meta[s] = id \/ index'[id] = s => s \in cut \/ blob[s] # NoFile
        /\ Listed(id, s, index')
    <3>1. CASE asked[id] = {s}
      <4>1. Sole(id, s) /\ Mirrors(id, s)
        BY <1>5, <3>1 DEF Mirror
      <4>2. (index'[id] = s => index[id] = s \/ meta[s] = id) /\ Listed(id, s, index')
        BY <1>1, <1>7, <2>1, <2>3, <4>1, Reopened, DirTypes
      <4>3. QED
        BY <2>1, <4>1, <4>2 DEF Mirrors, HasBlob
    <3>2. CASE asked[id] = {}
      <4>1. meta[s] # id
        BY <3>2 DEF Origins
      <4>2. index'[id] = NoSha
        BY <1>1, <3>2, OpenedFacts, DirTypes
      <4>3. QED
        BY <4>1, <4>2, RegistryAssumption DEF Listed
    <3>3. asked[id] = {s} \/ asked[id] = {}
      BY <1>2, <1>7 DEF Sole
    <3>4. QED
      BY <3>1, <3>2, <3>3
  <2>5. /\ ~At(id, {"meta", "sidecar", "index"})' /\ ~At(id, {"sidecar"})' /\ ~At(id, {"index"})'
    BY <2>2
  <2>6. HasBlob(id, s)'
    BY <1>1, <2>1, <2>4, <2>5 DEF HasBlob
  <2>7. HasEntry(id, s)'
    BY <1>1, <2>1, <2>4, <2>5 DEF HasEntry, Listed
  <2>8. QED
    BY <2>6, <2>7 DEF Mirrors
<1>8. QED
  BY <1>6, <1>7

(* A removal begins: from now on the index does not list the id. *)
LEMMA PopMirror ==
    ASSUME TypeOK, Shape, Origins, Recorded, Mirror, NEW i0 \in Ids, Pop(i0)
    PROVE  Mirror'
<1>1. PICK ix \in ForTenant(DirOf(i0)) :
         /\ ix[i0] # NoSha
         /\ rm' = Operation("blob", i0, ix[i0])
         /\ index' = [ix EXCEPT ![i0] = NoSha]
         /\ crossed' = crossed \cup Overlapped(i0, ix[i0])
  BY DEF Pop
<1>2. /\ rm = Idle /\ opened' = opened \cup {DirOf(i0)}
      /\ UNCHANGED <<blob, meta, dl, asked, cut>>
  BY DEF Pop, disk
<1>3. rm'.id = i0 /\ rm'.pc = "blob" /\ index'[i0] = NoSha
  BY <1>1, PopBooks DEF Operation
<1>4. ix \in Indexes /\ \A i \in Ids : i # i0 => index'[i] = ix[i]
  <2>1. ix \in Indexes
    BY OpenedType, DirTypes
  <2>2. QED
    BY <1>1, <2>1 DEF Indexes
<1> SUFFICES ASSUME NEW id \in Ids, NEW s \in Shas, Sole(id, s)' PROVE Mirrors(id, s)'
  BY DEF Mirror
<1>5. Sole(id, s)
  BY <1>1, <1>2 DEF Sole
<1>6. Mirrors(id, s) /\ rm.id # id
  BY <1>2, <1>5, Entries DEF Mirror
<1>7. /\ At(id, {"meta", "sidecar", "index"})' <=> At(id, {"meta", "sidecar", "index"})
      /\ At(id, {"sidecar", "index"})' <=> At(id, {"sidecar", "index"})
      /\ At(id, {"sidecar"})' <=> At(id, {"sidecar"})
      /\ At(id, {"index"})' <=> At(id, {"index"})
  BY <1>2 DEF At
<1>8. CASE id = i0
  <2>1. HasBlob(id, s)'
    BY <1>2, <1>3, <1>6, <1>7, <1>8 DEF Mirrors, HasBlob
  <2>2. HasEntry(id, s)'
    BY <1>2, <1>3, <1>6, <1>7, <1>8 DEF Mirrors, HasEntry
  <2>3. QED
    BY <2>1, <2>2 DEF Mirrors
<1>9. CASE id # i0
  <2>1. /\ index'[id] = s => index[id] = s \/ meta[s] = id
        /\ DirOf(id) \in opened' /\ ~At(id, {"sidecar", "index"}) => Listed(id, s, index')
    <3>1. /\ ix[id] = s => index[id] = s \/ meta[s] = id
          /\ DirOf(id) \in opened' /\ ~At(id, {"sidecar", "index"}) => Listed(id, s, ix)
      BY <1>2, <1>5, <1>6, Reopened, DirTypes
    <3>2. QED
      BY <1>4, <1>9, <3>1 DEF Listed
  <2>2. HasBlob(id, s)'
    BY <1>2, <1>3, <1>6, <1>7, <1>9, <2>1 DEF Mirrors, HasBlob
  <2>3. HasEntry(id, s)'
    BY <1>2, <1>3, <1>6, <1>7, <1>9, <2>1 DEF Mirrors, HasEntry, Listed
  <2>4. QED
    BY <2>2, <2>3 DEF Mirrors
<1>10. QED
  BY <1>8, <1>9

(* The blob of an entry that is being removed is deleted, then its sidecar. *)
LEMMA UnlinkMirror ==
    ASSUME TypeOK, Shape, Origins, Recorded, Mirror, UnlinkBlob \/ UnlinkMeta
    PROVE  Mirror'
<1>1. /\ UNCHANGED <<index, opened, dl, asked, crossed>> /\ rm # Idle
  BY DEF UnlinkBlob, UnlinkMeta, registries, history, Idle, Operation
<1>2. rm.sha \in Shas /\ rm.id \in Ids
  BY <1>1, Entries
<1> SUFFICES ASSUME NEW id \in Ids, NEW s \in Shas, Sole(id, s)' PROVE Mirrors(id, s)'
  BY DEF Mirror
<1>3. Sole(id, s)
  BY <1>1 DEF Sole
<1>4. Mirrors(id, s)
  BY <1>3 DEF Mirror
<1>5. /\ rm.id = id <=> rm.sha = s
      /\ rm.id = id => \A t \in Threads : dl[t].id # id
  BY <1>1, <1>3, SoleOperation
<1>6. /\ At(id, {"meta", "sidecar", "index"})' <=> At(id, {"meta", "sidecar", "index"})
      /\ At(id, {"sidecar", "index"})' <=> At(id, {"sidecar", "index"})
      /\ At(id, {"sidecar"})' <=> At(id, {"sidecar"})
      /\ At(id, {"index"})' <=> At(id, {"index"})
      /\ rm.id = id => ~At(id, {"meta", "sidecar", "index"}) /\ ~At(id, {"sidecar"}) /\ ~At(id, {"index"})
  BY <1>1, <1>5 DEF At
<1>7. CASE UnlinkBlob
  <2>1. /\ rm'.id = rm.id /\ rm'.pc = "meta" /\ meta' = meta /\ cut' = cut
        /\ \A x \in Shas : x # rm.sha => blob'[x] = blob[x]
    BY <1>7 DEF UnlinkBlob, TypeOK, history
  <2>2. HasBlob(id, s)'
    BY <1>1, <1>4, <1>5, <1>6, <2>1 DEF Mirrors, HasBlob
  <2>3. HasEntry(id, s)'
    BY <1>1, <1>4, <1>5, <1>6, <2>1 DEF Mirrors, HasEntry, Listed
  <2>4. QED
    BY <2>2, <2>3 DEF Mirrors
<1>8. CASE UnlinkMeta
  <2>1. /\ rm' = Idle /\ blob' = blob /\ meta'[rm.sha] = NoId /\ cut' = cut \ {rm.sha}
        /\ \A x \in Shas : x # rm.sha => meta'[x] = meta[x]
    BY <1>2, <1>8 DEF UnlinkMeta, TypeOK
  <2>2. rm'.id # id /\ NoId # id
    BY <2>1, Entries
  <2>3. CASE rm.id = id
    <3>1. index[id] # s /\ meta'[s] # id
      BY <1>4, <1>5, <2>1, <2>2, <2>3, RegistryAssumption DEF Mirrors, HasEntry
    <3>2. QED
      BY <1>1, <1>6, <2>2, <2>3, <3>1 DEF Mirrors, HasBlob, HasEntry, Listed
  <2>4. CASE rm.id # id
    <3>1. meta'[s] = meta[s] /\ (s \in cut' <=> s \in cut)
      BY <1>5, <2>1, <2>4
    <3>2. HasBlob(id, s)'
      BY <1>1, <1>4, <1>6, <2>1, <2>4, <3>1 DEF Mirrors, HasBlob
    <3>3. HasEntry(id, s)'
      BY <1>1, <1>4, <1>6, <2>2, <2>4, <3>1 DEF Mirrors, HasEntry, Listed
    <3>4. QED
      BY <3>2, <3>3 DEF Mirrors
  <2>5. QED
    BY <2>3, <2>4
<1>9. QED
  BY <1>7, <1>8

(* The process dies: nothing is open, and the sidecars still have their     *)
(* blobs, except where a removal had come between the two.                  *)
LEMMA RestartMirror ==
    ASSUME TypeOK, Shape, Recorded, Mirror, Restart
    PROVE  Mirror'
<1>1. /\ opened' = {} /\ rm' = Idle /\ UNCHANGED <<meta, asked, crossed>> /\ index' = Empty
      /\ \A s \in Shas : blob'[s] = Torn(blob[s])
      /\ \A t \in Threads : dl'[t] = Idle
      /\ cut \subseteq cut' /\ (rm.pc = "meta" => rm.sha \in cut')
  BY DEF Restart
<1> SUFFICES ASSUME NEW id \in Ids, NEW s \in Shas, Sole(id, s)' PROVE Mirrors(id, s)'
  BY DEF Mirror
<1>2. Idle.id # id /\ NoId # id
  BY Entries
<1>3. Sole(id, s)
  BY <1>1 DEF Sole
<1>4. Mirrors(id, s)
  BY <1>3 DEF Mirror
<1>5. /\ ~At(id, {"meta", "sidecar", "index"})' /\ ~At(id, {"sidecar"})' /\ ~At(id, {"index"})'
  BY <1>1, <1>2 DEF At
<1>6. blob[s] # NoFile => blob'[s] # NoFile
  <2>1. blob[s] \in Files
    BY DEF TypeOK
  <2>2. QED
    BY <1>1, <2>1, TornFile
<1>7. meta[s] = id /\ s \notin cut' => blob[s] # NoFile
  <2> SUFFICES ASSUME meta[s] = id, s \notin cut' PROVE blob[s] # NoFile
    OBVIOUS
  <2>1. s \notin cut
    BY <1>1
  <2>2. rm.id # id \/ rm.pc = "blob"
    <3> SUFFICES ASSUME rm.id = id PROVE rm.pc = "blob"
      OBVIOUS
    <3>1. rm # Idle /\ rm.sha = s
      BY <1>3, SoleOperation
    <3>2. rm.pc # "idle" /\ rm.pc # "meta"
      BY <1>1, <3>1, Entries
    <3>3. QED
      BY <3>2 DEF TypeOK
  <2>3. QED
    BY <1>4, <2>1, <2>2 DEF Mirrors, HasBlob
<1>8. index'[id] # s
  BY <1>1, RegistryAssumption DEF Empty
<1>9. HasBlob(id, s)'
  BY <1>1, <1>2, <1>5, <1>6, <1>7, <1>8 DEF HasBlob
<1>10. HasEntry(id, s)'
  BY <1>1, <1>2, <1>5 DEF HasEntry
<1>11. QED
  BY <1>9, <1>10 DEF Mirrors

-----------------------------------------------------------------------------
(* The disk and the indexes together *)

(* The steps of a download that write neither the temporary file nor the    *)
(* blob leave both whole.                                                   *)
LEMMA ThreadWhole ==
    ASSUME TypeOK, Shape, Whole, NEW t \in Threads,
           \/ CheckQuota(t) \/ OpenMeta(t) \/ WriteMeta(t) \/ Add(t)
           \/ \E id \in Ids, s \in Shas : Fetched(t, id, s)
    PROVE  Whole'
<1> DEFINE Spared == \A u \in Threads : \/ dl'[u] = dl[u]
                                        \/ dl[u].pc # "close" /\ dl'[u].pc \notin {"close", "replace"}
           Remembered == (\A id \in Ids : asked[id] \subseteq asked'[id]) /\ crossed \subseteq crossed'
<1>1. Idle.pc = "idle" /\ dl \in Downloads
  BY Entries DEF TypeOK, Downloads
<1>2. ASSUME NEW pc \in {"open", "sidecar", "index"}, Goes(t, pc) \/ Ends(t), dl[t].pc # "close"
      PROVE  Spared
  BY <1>1, <1>2 DEF Goes, Ends, Downloads
<1>3. CASE CheckQuota(t) \/ OpenMeta(t) \/ WriteMeta(t) \/ Add(t)
  <2>1. UNCHANGED <<blob, tmp, asked, crossed>>
    BY <1>3 DEF CheckQuota, OpenMeta, WriteMeta, Add, disk, history
  <2>2. dl[t].pc # "close" /\ \E pc \in {"open", "sidecar", "index"} : Goes(t, pc) \/ Ends(t)
    BY <1>3 DEF CheckQuota, OpenMeta, WriteMeta, Add
  <2>3. Spared
    BY <1>2, <2>2
  <2>4. QED
    BY <2>1, <2>3, FilesKept
<1>4. CASE \E id \in Ids, s \in Shas : Fetched(t, id, s)
  <2>1. PICK id \in Ids, s \in Shas : Fetched(t, id, s)
    BY <1>4
  <2>2. UNCHANGED <<blob, tmp>> /\ Remembered
    BY <2>1 DEF Fetched, disk, TypeOK
  <2>3. dl[t] = Idle /\ dl' = [dl EXCEPT ![t] = Operation("quota", id, s)]
    BY <2>1 DEF Fetched
  <2>4. Spared
    BY <1>1, <2>3 DEF Downloads, Operation
  <2>5. QED
    BY <2>2, <2>4, FilesKept
<1>5. QED
  BY <1>3, <1>4

(* Neither does what runs on the event loop. *)
LEMMA LoopWhole ==
    ASSUME TypeOK, Shape, Whole,
           \/ \E d \in Dirs : Opens(d)
           \/ \E id \in Ids : Pop(id)
           \/ UnlinkBlob \/ UnlinkMeta
    PROVE  Whole'
<1>1. CASE \/ \E d \in Dirs : Opens(d)
           \/ \E id \in Ids : Pop(id)
           \/ UnlinkMeta
  <2>1. UNCHANGED <<blob, tmp, dl, asked>> /\ crossed \subseteq crossed'
    BY <1>1 DEF Opens, Pop, UnlinkMeta, disk, history
  <2>2. QED
    BY <2>1, FilesKept
<1>2. CASE UnlinkBlob
  <2>1. UNCHANGED <<tmp, dl, asked, crossed>> /\ \A s \in Shas : blob'[s] \in {blob[s], NoFile}
    BY <1>2 DEF UnlinkBlob, history, TypeOK
  <2>2. QED
    BY <2>1, FilesKept
<1>3. QED
  BY <1>1, <1>2

(* An empty disk and no index *)
LEMMA InitIInv == Init => IInv
<1> SUFFICES ASSUME Init PROVE IInv
  OBVIOUS
<1>1. Idle = [pc |-> "idle", id |-> NoId, sha |-> NoSha]
  BY DEF Idle, Operation
<1>2. TypeOK
  BY <1>1, RegistryAssumption DEF Init, TypeOK, Empty, Indexes, Files, Phases
<1>3. Active = {} /\ Shape /\ Recorded
  BY <1>1 DEF Init, Active, Shape, Recorded
<1>4. Origins
  <2>1. \A s \in Shas : meta[s] \notin Ids
    BY RegistryAssumption DEF Init
  <2>2. \A id \in Ids : index[id] = NoSha /\ asked[id] = {}
    BY DEF Init, Empty
  <2>3. QED
    BY <2>1, <2>2 DEF Origins, Ids
<1>5. Writers /\ TmpIsWhole /\ SharedHaveMet /\ BlobIsWhole
  BY <1>1 DEF Init, Writers, Writing, TmpIsWhole, SharedHaveMet, BlobIsWhole
<1>6. Mirror
  BY DEF Init, Mirror, Sole
<1>7. QED
  BY <1>2, <1>3, <1>4, <1>5, <1>6 DEF IInv

(* Every step keeps the invariant. *)
LEMMA NextIInv == IInv /\ [Next]_vars => IInv'
<1> SUFFICES ASSUME IInv, [Next]_vars PROVE IInv'
  OBVIOUS
<1>1. /\ TypeOK /\ Shape /\ Origins /\ Recorded /\ Writers /\ TmpIsWhole
      /\ SharedHaveMet /\ BlobIsWhole /\ Mirror
  BY DEF IInv
<1>2. Whole
  BY <1>1 DEF Whole
<1> DEFINE Thread(t) == \/ CheckQuota(t) \/ OpenTmp(t) \/ CloseTmp(t) \/ Replace(t)
                        \/ OpenMeta(t) \/ WriteMeta(t) \/ WriteFails(t) \/ Add(t)
<1> SUFFICES TypeOK' /\ Shape' /\ Origins' /\ Recorded' /\ Whole' /\ Mirror'
  BY DEF IInv, Whole
<1>3. CASE UNCHANGED vars
  <2>1. UNCHANGED <<index, opened, blob, tmp, meta, dl, rm, started, asked, crossed, cut, raced>>
    BY <1>3 DEF vars, registries, disk, history
  <2>2. TypeOK'
    BY <1>1, <2>1 DEF TypeOK
  <2>3. Shape' /\ Origins' /\ Recorded'
    BY <1>1, <2>1 DEF Shape, Active, About, Origins, Recorded
  <2>4. Whole'
    BY <1>1, <1>2, <2>1, FilesKept
  <2>5. Mirror'
    BY <1>1, <2>1 DEF Mirror, Mirrors, HasBlob, HasEntry, Listed, Sole, At
  <2>6. QED
    BY <2>2, <2>3, <2>4, <2>5
<1>4. ASSUME NEW t \in Threads, Thread(t)
      PROVE  TypeOK' /\ Shape' /\ Origins' /\ Recorded' /\ Whole' /\ Mirror'
  <2>1. TypeOK' /\ \E v : Moves(t, v)
    BY <1>1, <1>4, ThreadType
  <2>2. Shape' /\ Recorded'
    BY <1>1, <2>1, MovesShape
  <2>3. Origins'
    BY <1>1, <1>4, ThreadOrigins
  <2>4. Whole'
    BY <1>1, <1>2, <1>4, ThreadWhole, OpenTmpWhole, CloseTmpWhole, ReplaceWhole, WriteFailsWhole
  <2>5. Mirror'
    BY <1>1, <1>4, ThreadMirror
  <2>6. QED
    BY <2>1, <2>2, <2>3, <2>4, <2>5
<1>5. ASSUME NEW t \in Threads, NEW id \in Ids, NEW s \in Shas, Kinds(id, s), Fetched(t, id, s)
      PROVE  TypeOK' /\ Shape' /\ Origins' /\ Recorded' /\ Whole' /\ Mirror'
  <2>1. TypeOK'
    BY <1>1, <1>5, OtherTypes
  <2>2. Shape' /\ Origins' /\ Recorded'
    BY <1>1, <1>5, FetchedBooks
  <2>3. Whole'
    BY <1>1, <1>2, <1>5, ThreadWhole
  <2>4. Mirror'
    BY <1>1, <1>5, FetchedMirror
  <2>5. QED
    BY <2>1, <2>2, <2>3, <2>4
<1>6. ASSUME NEW d \in Dirs, Opens(d)
      PROVE  TypeOK' /\ Shape' /\ Origins' /\ Recorded' /\ Whole' /\ Mirror'
  <2>1. TypeOK'
    BY <1>1, <1>6, OtherTypes
  <2>2. Shape' /\ Origins' /\ Recorded'
    BY <1>1, <1>6, OpensBooks
  <2>3. Whole'
    BY <1>1, <1>2, <1>6, LoopWhole
  <2>4. Mirror'
    BY <1>1, <1>6, OpensMirror
  <2>5. QED
    BY <2>1, <2>2, <2>3, <2>4
<1>7. ASSUME NEW id \in Ids, Pop(id)
      PROVE  TypeOK' /\ Shape' /\ Origins' /\ Recorded' /\ Whole' /\ Mirror'
  <2>1. TypeOK'
    BY <1>1, <1>7, OtherTypes
  <2>2. Shape' /\ Origins' /\ Recorded'
    BY <1>1, <1>7, PopBooks
  <2>3. Whole'
    BY <1>1, <1>2, <1>7, LoopWhole
  <2>4. Mirror'
    BY <1>1, <1>7, PopMirror
  <2>5. QED
    BY <2>1, <2>2, <2>3, <2>4
<1>8. CASE UnlinkBlob \/ UnlinkMeta \/ Restart
  <2>1. TypeOK'
    BY <1>1, <1>8, OtherTypes
  <2>2. Shape' /\ Origins' /\ Recorded'
    BY <1>1, <1>8, RemovalBooks
  <2>3. Whole'
    BY <1>1, <1>2, <1>8, LoopWhole, RestartWhole
  <2>4. Mirror'
    BY <1>1, <1>8, UnlinkMirror, RestartMirror
  <2>5. QED
    BY <2>1, <2>2, <2>3, <2>4
<1>9. \/ UNCHANGED vars
      \/ \E t \in Threads : Thread(t)
      \/ \E t \in Threads, id \in Ids, s \in Shas : Kinds(id, s) /\ Fetched(t, id, s)
      \/ \E d \in Dirs : Opens(d)
      \/ \E id \in Ids : Pop(id)
      \/ UnlinkBlob \/ UnlinkMeta \/ Restart
  BY DEF Next, DownloadModel, DownloadLora, Kinds, ListModels, ListTenants, ListLoras, Dirs,
         RemoveModel, RemoveLora, Ids, Shas
<1> HIDE DEF Thread
<1>10. QED
  BY <1>3, <1>4, <1>5, <1>6, <1>7, <1>8, <1>9

(* The invariant holds at every moment. *)
LEMMA Invariance == Spec => []IInv
BY InitIInv, NextIInv, PTL DEF Spec

(* Types: at every moment, for any ids, contents and threads (Registry,     *)
(* LoraRegistry, download_and_seal, the removal handlers).                  *)
THEOREM TypesHold == Spec => []TypeOK
<1>1. IInv => TypeOK
  BY DEF IInv
<1>2. QED
  BY <1>1, Invariance, PTL

(* Under its final name a blob is absent or a whole ciphertext at every     *)
(* moment, also after a crash or a failed write, unless this very file was  *)
(* opened by two downloads of its content before it was renamed             *)
(* (encrypt_file).                                                          *)
THEOREM BlobsAreWhole == Spec => []BlobIsWhole
<1>1. IInv => BlobIsWhole
  BY DEF IInv
<1>2. QED
  BY <1>1, Invariance, PTL

(* Between operations on an id that was downloaded in one version, with a   *)
(* content no other id has and never by overlapping operations: what is     *)
(* listed or has a sidecar can be decrypted unless a crash stopped its      *)
(* removal between blob and sidecar, the open registry lists what has a     *)
(* sidecar, and what it lists has one, whole or cut short by a download     *)
(* that failed (add, remove, for_tenant, _reload).                          *)
THEOREM CatalogIsMirror == Spec => []CatalogMirrorsDisk
<1>1. ASSUME IInv PROVE CatalogMirrorsDisk
  <2> SUFFICES ASSUME NEW id \in Ids, NEW s \in asked[id], Plain(id), Quiet(id)
               PROVE  /\ s \notin cut /\ (meta[s] = id \/ index[id] = s) => Decrypts(blob[s])
                      /\ DirOf(id) \in opened => Listed(id, s, index)
    BY DEF CatalogMirrorsDisk, Listed
  <2>1. s \in Shas /\ asked[id] \in SUBSET Shas
    BY <1>1 DEF IInv, TypeOK
  <2>2. IsFiniteSet(asked[id])
    BY <2>1, RegistryAssumption, FS_Subset
  <2>3. asked[id] = {s}
    <3>1. \E x : asked[id] = {x}
      BY <2>2, FS_Singleton DEF Plain
    <3>2. QED
      BY <3>1
  <2>4. Sole(id, s)
    BY <2>3 DEF Plain, Sole
  <2>5. Mirrors(id, s)
    BY <1>1, <2>1, <2>4 DEF IInv, Mirror
  <2>6. rm.id # id /\ \A pcs : ~At(id, pcs)
    BY DEF Quiet, At
  <2>7. s \notin cut /\ (meta[s] = id \/ index[id] = s) => blob[s] # NoFile
    BY <2>5, <2>6 DEF Mirrors, HasBlob
  <2>8. blob[s] # NoFile => Decrypts(blob[s])
    <3>1. ~Met(s)
      BY <1>1, <2>4 DEF IInv, TypeOK, Sole, Met
    <3>2. QED
      BY <1>1, <2>1, <3>1 DEF IInv, BlobIsWhole, SharedHaveMet
  <2>9. DirOf(id) \in opened => Listed(id, s, index)
    BY <2>5, <2>6 DEF Mirrors, HasEntry
  <2>10. QED
    BY <2>7, <2>8, <2>9
<1>2. QED
  BY <1>1, Invariance, PTL

-----------------------------------------------------------------------------
(* The quota.  What is on disk together with what the downloads past the    *)
(* check will bring stays within the bound: the sum of the files on disk    *)
(* alone is not inductive, a download that replaces its temporary file      *)
(* adds to it without a check.                                              *)

Bill == [t \in Threads |-> FileSize[dl[t].sha]]
Pending(d) == Weight(Sealing(d), Bill)
Extra(d) == IF d \in raced
            THEN (Cardinality(Threads) - 1) * Largest + Cardinality(Threads) * OVERHEAD
            ELSE OVERHEAD

Billed == /\ \A d \in Dirs : Used(d) + Pending(d) <= QUOTA + Extra(d)
          /\ raced # {} => Threads # {} /\ Shas # {}

(* The sizes of the files S on disk *)
Total(S) == MapThenSumSet(LAMBDA s : SizeOf[s] + OVERHEAD, S)

(* What the quota check adds up, before and after a step *)
LEMMA UsedIsTotal ==
    ASSUME NEW d PROVE Used(d) = Total(OnDisk(d)) /\ Used(d)' = Total(OnDisk(d)')
BY DEF Used, Total, MapThenSumSet, MapThenFoldSet

(* The files of a directory, as a sum *)
LEMMA FilesSum ==
    ASSUME NEW S \in SUBSET Shas
    PROVE  /\ Total(S) = Weight(S, FileSize)
           /\ Weight(S, FileSize) \in Nat /\ IsFiniteSet(S)
<1>1. IsFiniteSet(S)
  BY RegistryAssumption, FS_Subset
<1>2. PICK b \in Nat : \A s \in Shas : SizeOf[s] <= b
  BY SizesBounded
<1>3. b + OVERHEAD \in Nat /\ \A s \in S : FileSize[s] \in 0 .. (b + OVERHEAD)
  BY <1>2, RegistryAssumption DEF FileSize
<1>4. Weight(S, FileSize) \in Nat
  BY <1>1, <1>3, WeightBound
<1>5. QED
  BY <1>1, <1>4, SumIsWeight DEF Total

(* The largest file *)
LEMMA FileBound ==
    ASSUME NEW b \in Nat, \A s \in Shas : SizeOf[s] <= b
    PROVE  b + OVERHEAD \in Nat /\ \A s \in Shas : FileSize[s] \in 0 .. (b + OVERHEAD)
BY RegistryAssumption DEF FileSize

(* What some threads will bring, as a sum *)
LEMMA BillSum ==
    ASSUME NEW T \in SUBSET Threads, NEW c \in Nat, NEW w, \A t \in T : w[t] \in 0 .. c
    PROVE  /\ IsFiniteSet(T) /\ Weight(T, w) \in Nat /\ Cardinality(T) \in Nat
           /\ Weight(T, w) <= Cardinality(T) * c
<1>1. IsFiniteSet(T)
  BY RegistryAssumption, FS_Subset
<1>2. QED
  BY <1>1, WeightBound

(* A download past the check has a content, whose size it is billed. *)
LEMMA SealingFacts ==
    ASSUME TypeOK, Shape, NEW d
    PROVE  /\ Sealing(d) \in SUBSET Threads
           /\ \A t \in Sealing(d) : t \in Active /\ dl[t].sha \in Shas /\ Bill[t] = FileSize[dl[t].sha]
<1>1. Sealing(d) \in SUBSET Threads /\ Sealing(d) \subseteq Active
  BY DEF Sealing, Active
<1>2. QED
  BY <1>1, Entries DEF Bill

(* The bound is a number. *)
LEMMA ExtraType ==
    ASSUME Billed, NEW d
    PROVE  Extra(d) \in Nat
<1>1. Cardinality(Threads) \in Nat /\ (Threads # {} => Cardinality(Threads) # 0)
  BY RegistryAssumption, FS_CardinalityType, FS_EmptySet
<1>2. CASE d \in raced
  <2>1. Largest \in Nat /\ Cardinality(Threads) - 1 \in Nat /\ OVERHEAD \in Nat
    BY <1>1, <1>2, LargestBounds, RegistryAssumption DEF Billed
  <2>2. \A m, n, x, y \in Nat : m * x + n * y \in Nat
    OBVIOUS
  <2>3. QED
    BY <1>1, <1>2, <2>1, <2>2 DEF Extra
<1>3. CASE d \notin raced
  BY <1>3, RegistryAssumption DEF Extra
<1>4. QED
  BY <1>2, <1>3

(* Fewer files and fewer downloads past the check *)
LEMMA BillShrinks ==
    ASSUME TypeOK, Shape, Billed, raced' = raced,
           \A d \in Dirs : OnDisk(d)' \subseteq OnDisk(d) /\ Sealing(d)' \subseteq Sealing(d),
           \A d \in Dirs : \A t \in Sealing(d)' : dl'[t].sha = dl[t].sha
    PROVE  Billed'
<1>1. PICK b \in Nat : \A s \in Shas : SizeOf[s] <= b
  BY SizesBounded
<1>2. ASSUME NEW d \in Dirs PROVE Used(d)' + Pending(d)' <= QUOTA + Extra(d)'
  <2>1. OnDisk(d) \in SUBSET Shas /\ OnDisk(d)' \in SUBSET OnDisk(d) /\ OnDisk(d)' \in SUBSET Shas
    BY DEF OnDisk
  <2>2. /\ Used(d) = Weight(OnDisk(d), FileSize) /\ Used(d) \in Nat /\ IsFiniteSet(OnDisk(d))
        /\ Used(d)' = Weight(OnDisk(d)', FileSize) /\ Used(d)' \in Nat
    BY <2>1, FilesSum, UsedIsTotal
  <2>3. /\ Sealing(d) \in SUBSET Threads /\ Sealing(d)' \in SUBSET Sealing(d)
        /\ \A t \in Sealing(d) : dl[t].sha \in Shas /\ Bill[t] = FileSize[dl[t].sha]
    BY SealingFacts
  <2>4. \A t \in Sealing(d)' : Bill'[t] = Bill[t]
    BY <2>3 DEF Bill
  <2>5. /\ b + OVERHEAD \in Nat
        /\ \A s \in Shas : FileSize[s] \in 0 .. (b + OVERHEAD)
        /\ \A t \in Sealing(d) : Bill[t] \in 0 .. (b + OVERHEAD)
    BY <1>1, <2>3, FileBound
  <2>5a. IsFiniteSet(Sealing(d)) /\ Pending(d) \in Nat
    BY <2>3, <2>5, BillSum DEF Pending
  <2>6. Used(d)' <= Used(d)
    <3>1. \A s \in OnDisk(d) : FileSize[s] \in 0 .. (b + OVERHEAD)
      BY <2>1, <2>5
    <3>2. QED
      BY <2>1, <2>2, <2>5, <3>1, WeightSubset
  <2>7. Pending(d)' = Weight(Sealing(d)', Bill)
    BY <2>4, WeightSame DEF Pending
  <2>8. Pending(d)' \in Nat
    <3>1. Sealing(d)' \in SUBSET Threads
      BY <2>3
    <3>2. \A t \in Sealing(d)' : Bill[t] \in 0 .. (b + OVERHEAD)
      BY <2>3, <2>5
    <3>3. QED
      BY <2>5, <2>7, <3>1, <3>2, BillSum
  <2>9. Pending(d)' <= Pending(d)
    BY <2>3, <2>5, <2>5a, <2>7, WeightSubset DEF Pending
  <2>10. Extra(d)' = Extra(d) /\ Extra(d) \in Nat
    BY ExtraType DEF Extra
  <2>11. Used(d) + Pending(d) <= QUOTA + Extra(d) /\ QUOTA \in Nat
    BY RegistryAssumption DEF Billed
  <2>12. QED
    BY <2>2, <2>5a, <2>6, <2>8, <2>9, <2>10, <2>11
<1>3. QED
  BY <1>2 DEF Billed

(* Products, as the bound needs them *)
LEMMA Products ==
    ASSUME NEW n \in Nat, n # 0, NEW k \in Nat, k <= n - 1, NEW x \in Nat, NEW y \in Nat
    PROVE  /\ k * (x + y) + y <= (n - 1) * x + n * y
           /\ (n - 1) * x + n * y \in Nat
<1>1. PICK m \in Nat : n = m + 1 /\ k <= m
  <2>1. n - 1 \in Nat /\ n = (n - 1) + 1
    OBVIOUS
  <2>2. QED
    BY <2>1
<1>2. PICK z \in Nat : z = x + y
  OBVIOUS
<1>3. k * z <= m * z
  <2>1. PICK j \in Nat : m = k + j
    <3>1. m - k \in Nat /\ m = k + (m - k)
      BY <1>1
    <3>2. QED
      BY <3>1
  <2>2. (k + j) * z = k * z + j * z /\ j * z \in Nat /\ k * z \in Nat
    OBVIOUS
  <2>3. QED
    BY <2>1, <2>2
<1>4. m * (x + y) = m * x + m * y
  OBVIOUS
<1>5. (m + 1) * y = m * y + y
  OBVIOUS
<1>6. m * x \in Nat /\ m * y \in Nat /\ k * z \in Nat /\ m * z \in Nat
  OBVIOUS
<1>7. n - 1 = m
  BY <1>1
<1>8. (n - 1) * x + n * y = m * x + (m * y + y)
  BY <1>1, <1>5, <1>7
<1>9. k * (x + y) = k * z /\ m * z = m * x + m * y
  BY <1>2, <1>4
<1>10. QED
  BY <1>3, <1>6, <1>8, <1>9

(* A directory that the step does not touch *)
LEMMA SameBill ==
    ASSUME TypeOK, Shape, Billed, NEW d \in Dirs, OnDisk(d)' = OnDisk(d), Sealing(d)' = Sealing(d),
           \A t \in Sealing(d) : dl'[t].sha = dl[t].sha, d \in raced' <=> d \in raced
    PROVE  Used(d)' + Pending(d)' <= QUOTA + Extra(d)'
<1>1. Used(d)' = Used(d)
  BY UsedIsTotal
<1>2. \A t \in Sealing(d) : Bill'[t] = Bill[t]
  BY SealingFacts DEF Bill
<1>3. Pending(d)' = Pending(d)
  BY <1>2, WeightSame DEF Pending
<1>4. Extra(d)' = Extra(d)
  BY DEF Extra
<1>5. QED
  BY <1>1, <1>3, <1>4 DEF Billed

(* A download passes the check: its file still fits, and the downloads      *)
(* that passed before it and have not finished are other threads.           *)
LEMMA PassBilled ==
    ASSUME TypeOK, Shape, Billed, NEW t \in Threads, CheckQuota(t), ~Ends(t)
    PROVE  Billed'
<1>01. t \in Active /\ dl[t].sha \in Shas /\ Dir(dl[t].sha) \in Dirs
  BY Entries, DirTypes DEF Active, CheckQuota
<1>02. PICK s \in Shas : s = dl[t].sha
  BY <1>01
<1>03. PICK d \in Dirs : d = Dir(s)
  BY <1>01, <1>02
<1>1. /\ dl[t].pc = "quota" /\ Used(d) + SizeOf[s] <= QUOTA /\ Goes(t, "open") /\ blob' = blob
      /\ raced' = IF Sealing(d) # {} THEN raced \cup {d} ELSE raced
  BY <1>02, <1>03 DEF CheckQuota, WithinQuota, disk
<1>2. t \in Active /\ s \in Shas /\ d \in Dirs
  BY <1>01
<1>3. /\ dl'[t].pc = "open" /\ \A u \in Threads : dl'[u].sha = dl[u].sha
      /\ \A u \in Threads : u # t => dl'[u] = dl[u]
  BY <1>1 DEF Goes, TypeOK
<1>4. \A e : OnDisk(e)' = OnDisk(e)
  BY <1>1 DEF OnDisk
<1>5. /\ Sealing(d)' = Sealing(d) \cup {t} /\ t \notin Sealing(d)
      /\ \A e \in Dirs : e # d => Sealing(e)' = Sealing(e)
  BY <1>02, <1>03, <1>1, <1>3 DEF Sealing
<1>6. Threads # {} /\ Shas # {}
  BY <1>2
<1> DEFINE n == Cardinality(Threads)
           k == Cardinality(Sealing(d))
<1>7. Largest \in Nat /\ \A x \in Shas : SizeOf[x] <= Largest
  BY <1>6, LargestBounds
<1>8. /\ Largest + OVERHEAD \in Nat /\ OVERHEAD \in Nat /\ QUOTA \in Nat
      /\ \A x \in Shas : FileSize[x] \in 0 .. (Largest + OVERHEAD)
      /\ FileSize[s] = SizeOf[s] + OVERHEAD /\ SizeOf[s] \in Nat
  BY <1>2, <1>7, FileBound, RegistryAssumption DEF FileSize
<1>9. /\ Sealing(d) \in SUBSET Threads /\ Bill[t] = FileSize[s]
      /\ \A u \in Sealing(d) : Bill[u] \in 0 .. (Largest + OVERHEAD)
  <2>1. /\ Sealing(d) \in SUBSET Threads
        /\ \A u \in Sealing(d) : dl[u].sha \in Shas /\ Bill[u] = FileSize[dl[u].sha]
    BY SealingFacts
  <2>2. QED
    BY <1>02, <1>8, <2>1 DEF Bill
<1>10. /\ IsFiniteSet(Sealing(d)) /\ Pending(d) \in Nat /\ k \in Nat
       /\ Pending(d) <= k * (Largest + OVERHEAD)
  BY <1>8, <1>9, BillSum DEF Pending
<1>11. n \in Nat /\ n # 0 /\ k <= n - 1
  <2>1. IsFiniteSet(Threads \ {t}) /\ Cardinality(Threads \ {t}) = n - 1
    BY RegistryAssumption, FS_RemoveElement
  <2>2. Sealing(d) \in SUBSET (Threads \ {t})
    BY <1>5, <1>9
  <2>3. k <= n - 1
    BY <2>1, <2>2, FS_Subset
  <2>4. n \in Nat
    BY RegistryAssumption, FS_CardinalityType
  <2>5. n # 0
    BY <1>6, RegistryAssumption, FS_EmptySet
  <2>6. QED
    BY <2>3, <2>4, <2>5
<1>12. Pending(d)' = Pending(d) + FileSize[s]
  <2>1. Weight(Sealing(d) \cup {t}, Bill) = Weight(Sealing(d), Bill) + Bill[t]
    <3>1. \A u \in Sealing(d) \cup {t} : Bill[u] \in 0 .. (Largest + OVERHEAD)
      BY <1>2, <1>8, <1>9
    <3>2. QED
      BY <1>5, <1>8, <1>10, <3>1, WeightAdd
  <2>2. Bill' = Bill
    BY <1>3 DEF Bill
  <2>3. QED
    BY <1>5, <1>9, <2>1, <2>2 DEF Pending
<1>13. Used(d)' = Used(d) /\ Used(d) \in Nat
  <2>1. OnDisk(d) \in SUBSET Shas
    BY DEF OnDisk
  <2>2. QED
    BY <1>4, <2>1, FilesSum, UsedIsTotal
<1> DEFINE U == Used(d)
           P == Pending(d)
           X == (n - 1) * Largest + n * OVERHEAD
<1>14. U + (P + FileSize[s]) <= QUOTA + OVERHEAD + P
  BY <1>1, <1>8, <1>10, <1>13
<1>15. k * (Largest + OVERHEAD) + OVERHEAD <= X /\ X \in Nat
  BY <1>7, <1>8, <1>10, <1>11, Products
<1>16. U + (P + FileSize[s]) <= QUOTA + X
  <2> DEFINE Y == k * (Largest + OVERHEAD)
  <2>1. Y \in Nat
    BY <1>8, <1>10
  <2>2. P <= Y /\ Y + OVERHEAD <= X
    BY <1>10, <1>15
  <2>3. FileSize[s] \in Nat
    BY <1>8
  <2> HIDE DEF Y, X, P, U
  <2>4. P \in Nat /\ U \in Nat /\ X \in Nat
    BY <1>10, <1>13, <1>15 DEF P, U, X
  <2>5. QED
    BY <1>8, <1>14, <2>1, <2>2, <2>3, <2>4
<1>17. Used(d)' + Pending(d)' <= QUOTA + Extra(d)'
  <2>1. CASE d \in raced'
    <3>1. Extra(d)' = X
      BY <2>1 DEF Extra
    <3>2. QED
      BY <1>12, <1>13, <1>16, <3>1
  <2>2. CASE d \notin raced'
    <3>1. Sealing(d) = {} /\ Extra(d)' = OVERHEAD
      BY <1>1, <2>2 DEF Extra
    <3>2. P = 0
      BY <3>1, WeightEmpty DEF Pending
    <3>3. QED
      BY <1>8, <1>12, <1>13, <1>14, <3>1, <3>2
  <2>3. QED
    BY <2>1, <2>2
<1>18. \A e \in Dirs : e # d => Used(e)' + Pending(e)' <= QUOTA + Extra(e)'
  <2>1. ASSUME NEW e \in Dirs, e # d PROVE Used(e)' + Pending(e)' <= QUOTA + Extra(e)'
    <3>1. e \in raced' <=> e \in raced
      BY <1>1, <2>1
    <3>2. Sealing(e)' = Sealing(e) /\ \A u \in Sealing(e) : dl'[u].sha = dl[u].sha
      BY <1>3, <1>5, <2>1 DEF Sealing
    <3>3. QED
      BY <1>4, <3>1, <3>2, SameBill
  <2>2. QED
    BY <2>1
<1>19. QED
  BY <1>6, <1>17, <1>18 DEF Billed

(* The temporary file is renamed: the download is billed no more, and its   *)
(* file is there instead.                                                   *)
LEMMA ReplaceBilled ==
    ASSUME TypeOK, Shape, Billed, NEW t \in Threads, Replace(t), ~Ends(t)
    PROVE  Billed'
<1>1. t \in Active /\ dl[t].sha \in Shas /\ Dir(dl[t].sha) \in Dirs
  BY Entries, DirTypes DEF Active, Replace
<1>2. PICK s \in Shas : s = dl[t].sha
  BY <1>1
<1>3. PICK d \in Dirs : d = Dir(s)
  BY <1>1, <1>2
<1>4. /\ dl[t].pc = "replace" /\ tmp[s] # NoFile /\ blob' = [blob EXCEPT ![s] = tmp[s]]
      /\ Goes(t, "meta") /\ raced' = raced
  BY <1>2 DEF Replace, history
<1>5. /\ dl'[t].pc = "meta" /\ \A u \in Threads : dl'[u].sha = dl[u].sha
      /\ \A u \in Threads : u # t => dl'[u] = dl[u]
  BY <1>4 DEF Goes, TypeOK
<1>6. /\ OnDisk(d)' = OnDisk(d) \cup {s}
      /\ \A e \in Dirs : e # d => OnDisk(e)' = OnDisk(e)
  BY <1>3, <1>4 DEF OnDisk, TypeOK
<1>7. /\ Sealing(d) = Sealing(d)' \cup {t} /\ t \notin Sealing(d)'
      /\ \A e \in Dirs : e # d => Sealing(e)' = Sealing(e)
  BY <1>2, <1>3, <1>4, <1>5 DEF Sealing
<1>8. PICK b \in Nat : \A x \in Shas : SizeOf[x] <= b
  BY SizesBounded
<1>9. /\ b + OVERHEAD \in Nat /\ FileSize[s] \in Nat
      /\ \A x \in Shas : FileSize[x] \in 0 .. (b + OVERHEAD)
  BY <1>8, FileBound
<1>10. /\ Sealing(d)' \in SUBSET Threads /\ Bill[t] = FileSize[s]
       /\ \A u \in Sealing(d)' \cup {t} : Bill[u] \in 0 .. (b + OVERHEAD)
  <2>1. /\ Sealing(d) \in SUBSET Threads
        /\ \A u \in Sealing(d) : dl[u].sha \in Shas /\ Bill[u] = FileSize[dl[u].sha]
    BY SealingFacts
  <2>2. QED
    BY <1>2, <1>7, <1>9, <2>1
<1>11. IsFiniteSet(Sealing(d)') /\ Weight(Sealing(d)', Bill) \in Nat
  BY <1>9, <1>10, BillSum
<1>12. Pending(d) = Pending(d)' + FileSize[s] /\ Pending(d)' \in Nat
  <2>1. Weight(Sealing(d)' \cup {t}, Bill) = Weight(Sealing(d)', Bill) + Bill[t]
    BY <1>7, <1>9, <1>10, <1>11, WeightAdd
  <2>2. Bill' = Bill
    BY <1>5 DEF Bill
  <2>3. Pending(d) = Weight(Sealing(d), Bill) /\ Pending(d)' = Weight(Sealing(d)', Bill')
    BY DEF Pending
  <2>4. QED
    BY <1>7, <1>10, <1>11, <2>1, <2>2, <2>3
<1>13. Used(d)' <= Used(d) + FileSize[s] /\ Used(d)' \in Nat /\ Used(d) \in Nat
  <2>1. OnDisk(d) \in SUBSET Shas /\ OnDisk(d)' \in SUBSET Shas
    BY DEF OnDisk
  <2>2. /\ Used(d) = Weight(OnDisk(d), FileSize) /\ Used(d) \in Nat /\ IsFiniteSet(OnDisk(d))
        /\ Used(d)' = Weight(OnDisk(d)', FileSize) /\ Used(d)' \in Nat
    BY <2>1, FilesSum, UsedIsTotal
  <2>3. CASE s \in OnDisk(d)
    <3>1. OnDisk(d)' = OnDisk(d)
      BY <1>6, <2>3
    <3>2. QED
      BY <1>9, <2>2, <3>1
  <2>4. CASE s \notin OnDisk(d)
    <3>1. \A x \in OnDisk(d) \cup {s} : FileSize[x] \in 0 .. (b + OVERHEAD)
      BY <1>9, <2>1
    <3>2. Weight(OnDisk(d) \cup {s}, FileSize) = Weight(OnDisk(d), FileSize) + FileSize[s]
      BY <1>9, <2>2, <2>4, <3>1, WeightAdd
    <3>3. QED
      BY <1>6, <1>9, <2>2, <3>2
  <2>5. QED
    BY <2>3, <2>4
<1>14. Used(d)' + Pending(d)' <= QUOTA + Extra(d)'
  <2>1. Extra(d)' = Extra(d) /\ Extra(d) \in Nat
    BY <1>4, ExtraType DEF Extra
  <2>2. Used(d) + Pending(d) <= QUOTA + Extra(d) /\ QUOTA \in Nat
    BY RegistryAssumption DEF Billed
  <2>3. QED
    BY <1>9, <1>12, <1>13, <2>1, <2>2
<1>15. ASSUME NEW e \in Dirs, e # d PROVE Used(e)' + Pending(e)' <= QUOTA + Extra(e)'
  <2>1. OnDisk(e)' = OnDisk(e) /\ Sealing(e)' = Sealing(e)
    BY <1>6, <1>7, <1>15
  <2>2. \A u \in Sealing(e) : dl'[u].sha = dl[u].sha
    BY <1>5 DEF Sealing
  <2>3. QED
    BY <1>4, <2>1, <2>2, SameBill
<1>16. raced' # {} => Threads # {} /\ Shas # {}
  BY <1>1
<1>17. QED
  BY <1>14, <1>15, <1>16 DEF Billed

(* The other steps of a download add no file and bill no thread anew. *)
LEMMA ThreadBilled ==
    ASSUME TypeOK, Shape, Billed, NEW t \in Threads,
           \/ CheckQuota(t) \/ OpenTmp(t) \/ CloseTmp(t) \/ Replace(t)
           \/ OpenMeta(t) \/ WriteMeta(t) \/ WriteFails(t) \/ Add(t)
    PROVE  Billed'
<1>1. Idle.pc = "idle" /\ dl \in Downloads /\ blob \in FileMaps
  BY Entries DEF TypeOK, Downloads, FileMaps
<1>2. ASSUME raced' = raced, \A s \in Shas : blob'[s] = NoFile <=> blob[s] = NoFile,
             NEW pc, Goes(t, pc) \/ Ends(t),
             Goes(t, pc) /\ pc \in {"close", "replace"} => dl[t].pc \in {"open", "close", "replace"},
             pc # "open"
      PROVE  Billed'
  <2>1. \A d \in Dirs : OnDisk(d)' \subseteq OnDisk(d)
    BY <1>2 DEF OnDisk
  <2>2. /\ \A u \in Threads : u # t => dl'[u] = dl[u]
        /\ dl'[t].pc = "idle" \/ (dl'[t].pc = pc /\ dl'[t].sha = dl[t].sha /\ Goes(t, pc))
    BY <1>1, <1>2 DEF Goes, Ends, Downloads
  <2>3. \A d \in Dirs : \A u \in Sealing(d)' : u \in Sealing(d) /\ dl'[u].sha = dl[u].sha
    BY <1>2, <2>2 DEF Sealing
  <2>4. QED
    BY <1>2, <2>1, <2>3, BillShrinks
<1>3. CASE CheckQuota(t)
  <2>1. CASE Ends(t)
    <3>1. ~Goes(t, "open")
      BY <1>1, <2>1 DEF Goes, Ends, Downloads
    <3>2. raced' = raced /\ blob' = blob
      BY <1>3, <3>1 DEF CheckQuota, disk
    <3>3. QED
      BY <1>2, <2>1, <3>2
  <2>2. QED
    BY <1>3, <2>1, PassBilled
<1>4. CASE OpenTmp(t)
  <2>1. raced' = raced /\ blob' = blob /\ Goes(t, "close") /\ dl[t].pc = "open"
    BY <1>4 DEF OpenTmp, history
  <2>2. QED
    BY <1>2, <2>1
<1>5. CASE CloseTmp(t)
  <2>1. /\ raced' = raced /\ Goes(t, "replace") /\ dl[t].pc = "close"
        /\ blob' = [blob EXCEPT ![dl[t].sha] = Released(@, t)]
    BY <1>5 DEF CloseTmp, history
  <2>2. \A s \in Shas : blob'[s] \in {blob[s], Released(blob[s], t)} /\ blob[s] \in Files
    BY <1>1, <2>1 DEF FileMaps
  <2>3. \A s \in Shas : blob'[s] = NoFile <=> blob[s] = NoFile
    <3>1. ASSUME NEW s \in Shas PROVE Released(blob[s], t) = NoFile <=> blob[s] = NoFile
      BY <2>2, FileTypes
    <3>2. QED
      BY <2>2, <3>1
  <2>4. QED
    BY <1>2, <2>1, <2>3
<1>6. CASE Replace(t)
  <2>1. CASE Ends(t)
    <3>1. ~Goes(t, "meta")
      BY <1>1, <2>1 DEF Goes, Ends, Downloads
    <3>2. raced' = raced /\ blob' = blob
      BY <1>6, <3>1 DEF Replace, history
    <3>3. QED
      BY <1>2, <2>1, <3>2
  <2>2. QED
    BY <1>6, <2>1, ReplaceBilled
<1>7. CASE WriteFails(t)
  <2>1. raced' = raced /\ Ends(t) /\ blob' = [blob EXCEPT ![dl[t].sha] = Broken(@, t)]
    BY <1>7 DEF WriteFails, history
  <2>2. \A s \in Shas : blob'[s] \in {blob[s], Broken(blob[s], t)} /\ blob[s] \in Files
    BY <1>1, <2>1 DEF FileMaps
  <2>3. \A s \in Shas : blob'[s] = NoFile <=> blob[s] = NoFile
    <3>1. ASSUME NEW s \in Shas PROVE Broken(blob[s], t) = NoFile <=> blob[s] = NoFile
      BY <2>2, FileTypes
    <3>2. QED
      BY <2>2, <3>1
  <2>4. QED
    BY <1>2, <2>1, <2>3
<1>8. CASE OpenMeta(t) \/ WriteMeta(t) \/ Add(t)
  <2>1. /\ raced' = raced /\ blob' = blob
        /\ \E pc \in {"sidecar", "index"} : Goes(t, pc) \/ Ends(t)
    BY <1>8 DEF OpenMeta, WriteMeta, Add, disk, history
  <2>2. QED
    BY <1>2, <2>1
<1>9. QED
  BY <1>3, <1>4, <1>5, <1>6, <1>7, <1>8

(* Neither do the other actions. *)
LEMMA OtherBilled ==
    ASSUME TypeOK, Shape, Billed,
           \/ \E t \in Threads, id \in Ids, s \in Shas : Fetched(t, id, s)
           \/ \E d \in Dirs : Opens(d)
           \/ \E id \in Ids : Pop(id)
           \/ UnlinkBlob \/ UnlinkMeta \/ Restart \/ UNCHANGED vars
    PROVE  Billed'
<1>1. Idle.pc = "idle" /\ dl \in Downloads /\ blob \in FileMaps
  BY Entries DEF TypeOK, Downloads, FileMaps
<1>2. raced' = raced
  BY DEF Fetched, Opens, Pop, UnlinkBlob, UnlinkMeta, Restart, vars, history
<1>3. \A s \in Shas : blob[s] = NoFile => blob'[s] = NoFile
  <2>1. CASE Restart
    BY <1>1, <2>1, TornFile DEF Restart, FileMaps
  <2>2. CASE UnlinkBlob
    BY <1>1, <2>2 DEF UnlinkBlob, FileMaps
  <2>3. QED
    BY <2>1, <2>2 DEF Fetched, Opens, Pop, UnlinkMeta, vars, disk
<1>4. \A u \in Threads : dl'[u] = dl[u] \/ dl'[u].pc \in {"idle", "quota"}
  <2>1. CASE \E t \in Threads, id \in Ids, s \in Shas : Fetched(t, id, s)
    BY <1>1, <2>1 DEF Fetched, Operation, Downloads
  <2>2. CASE Restart
    BY <1>1, <2>2 DEF Restart
  <2>3. QED
    BY <2>1, <2>2 DEF Opens, Pop, UnlinkBlob, UnlinkMeta, vars
<1>5. \A d \in Dirs : OnDisk(d)' \subseteq OnDisk(d)
  BY <1>3 DEF OnDisk
<1>6. \A d \in Dirs : \A u \in Sealing(d)' : u \in Sealing(d) /\ dl'[u].sha = dl[u].sha
  BY <1>4 DEF Sealing
<1>7. QED
  BY <1>2, <1>5, <1>6, BillShrinks

(* Nothing is on disk, nothing is billed. *)
LEMMA InitBilled == Init => Billed
<1> SUFFICES ASSUME Init, NEW d \in Dirs PROVE Used(d) + Pending(d) <= QUOTA + Extra(d)
  BY DEF Init, Billed
<1>1. OnDisk(d) = {} /\ Sealing(d) = {} /\ d \notin raced
  BY DEF Init, OnDisk, Sealing, Idle, Operation
<1>2. Used(d) = 0
  <2>1. Used(d) = Weight({}, FileSize)
    BY <1>1, FilesSum, UsedIsTotal
  <2>2. QED
    BY <2>1, WeightEmpty
<1>3. Pending(d) = 0
  BY <1>1, WeightEmpty DEF Pending
<1>4. QED
  BY <1>1, <1>2, <1>3, RegistryAssumption DEF Extra

(* A directory outgrows its quota only by what the downloads that passed    *)
(* the check together bring, and by the overhead of one file when they      *)
(* come one after the other, however many threads there are and whatever    *)
(* the sizes (_check_disk_quota).                                           *)
THEOREM QuotaKept == Spec => []QuotaBound
<1>1. IInv /\ Billed /\ [Next]_vars => Billed'
  <2> SUFFICES ASSUME IInv, Billed, [Next]_vars PROVE Billed'
    OBVIOUS
  <2>1. TypeOK /\ Shape
    BY DEF IInv
  <2>2. \/ \E t \in Threads : \/ CheckQuota(t) \/ OpenTmp(t) \/ CloseTmp(t) \/ Replace(t)
                              \/ OpenMeta(t) \/ WriteMeta(t) \/ WriteFails(t) \/ Add(t)
        \/ \E t \in Threads, id \in Ids, s \in Shas : Fetched(t, id, s)
        \/ \E d \in Dirs : Opens(d)
        \/ \E id \in Ids : Pop(id)
        \/ UnlinkBlob \/ UnlinkMeta \/ Restart \/ UNCHANGED vars
    BY DEF Next, DownloadModel, DownloadLora, ListModels, ListTenants, ListLoras, Dirs,
           RemoveModel, RemoveLora, Ids, Shas
  <2>3. QED
    BY <2>1, <2>2, ThreadBilled, OtherBilled
<1>2. IInv /\ Billed => QuotaBound
  <2> SUFFICES ASSUME IInv, Billed, NEW d \in Dirs PROVE Used(d) <= QUOTA + Extra(d)
    BY DEF QuotaBound, Extra, Largest
  <2>1. Used(d) \in Nat
    <3>1. OnDisk(d) \in SUBSET Shas
      BY DEF OnDisk
    <3>2. QED
      BY <3>1, FilesSum, UsedIsTotal
  <2>2. Pending(d) \in Nat
    <3>1. PICK b \in Nat : \A s \in Shas : SizeOf[s] <= b
      BY SizesBounded
    <3>2. b + OVERHEAD \in Nat /\ \A s \in Shas : FileSize[s] \in 0 .. (b + OVERHEAD)
      BY <3>1, FileBound
    <3>3. /\ Sealing(d) \in SUBSET Threads
          /\ \A t \in Sealing(d) : dl[t].sha \in Shas /\ Bill[t] = FileSize[dl[t].sha]
      BY SealingFacts DEF IInv
    <3>4. \A t \in Sealing(d) : Bill[t] \in 0 .. (b + OVERHEAD)
      BY <3>2, <3>3
    <3>5. QED
      BY <3>2, <3>3, <3>4, BillSum DEF Pending
  <2>3. Extra(d) \in Nat /\ QUOTA \in Nat
    BY ExtraType, RegistryAssumption
  <2>4. QED
    BY <2>1, <2>2, <2>3 DEF Billed
<1>3. QED
  BY <1>1, <1>2, InitBilled, Invariance, PTL DEF Spec
=============================================================================
