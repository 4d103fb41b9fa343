---------------------------- MODULE BufferProofs ----------------------------
(***************************************************************************)
(* For every size of the vector, of tmpBuf and of what is appended: Buffer *)
(* is a queue of bytes, and makeSpace fails only when it is asked for more *)
(* than the whole vector had.                                              *)
(***************************************************************************)
EXTENDS Buffer, FiniteSetTheorems, SequenceTheorems, WellFoundedInduction, TLAPS

-----------------------------------------------------------------------------
(* Numbers.                                                                *)

LEMMA LeastNumber ==
  ASSUME NEW S, S \subseteq Nat, S # {}
  PROVE  \E n \in S : \A m \in S : n <= m
<1> DEFINE R == OpToRel(<, Nat)
<1>1. IsWellFoundedOn(R, Nat)
  BY NatLessThanWellFounded
<1>2. \A m, n \in Nat : m < n => <<m, n>> \in R
  BY DEF OpToRel
<1> HIDE DEF R
<1>3. PICK n \in S : \A m \in S : <<m, n>> \notin R
  BY <1>1, WFMin
<1>4. \A m \in S : m \in Nat /\ ~ (m < n)
  BY <1>2, <1>3
<1>5. n \in Nat /\ \A m \in S : n <= m
  BY <1>4
<1> QED BY <1>5

(* A power of two counts the subsets of a set.                             *)
LEMMA PowerOfTwo ==
  ASSUME NEW k \in Nat
  PROVE  2 ^ k \in Nat /\ 2 ^ k > k /\ (k >= 1 => 2 ^ k >= 2)
<1> DEFINE S == 1 .. k
           singletons == {{i} : i \in S}
<1>1. IsFiniteSet(S) /\ Cardinality(S) = k
  BY FS_Interval
<1>2. IsFiniteSet(SUBSET S) /\ Cardinality(SUBSET S) = 2 ^ k
  BY <1>1, FS_SUBSET
<1>3. 2 ^ k \in Nat
  BY <1>2, FS_CardinalityType
<1>4. Cardinality(singletons) = k /\ IsFiniteSet(singletons)
  <2> DEFINE f == [i \in S |-> {i}]
  <2>1. f \in Bijection(S, singletons)
    BY DEF Bijection, Injection, Surjection, IsInjective
  <2>2. ExistsBijection(S, singletons)
    BY <2>1 DEF ExistsBijection
  <2> QED BY <1>1, <2>2, FS_Bijection
<1>5. /\ IsFiniteSet(singletons \cup {{}})
      /\ Cardinality(singletons \cup {{}}) = k + 1
  <2>1. {} \notin singletons
    OBVIOUS
  <2> HIDE DEF singletons
  <2> QED BY <1>4, <2>1, FS_AddElement
<1>6. singletons \cup {{}} \in SUBSET (SUBSET S)
  OBVIOUS
<1>7. k + 1 <= 2 ^ k
  <2> HIDE DEF singletons, S
  <2> QED BY <1>2, <1>5, <1>6, FS_Subset
<1> QED BY <1>3, <1>7

(* makeSpace at least doubles the vector, and len fits into all of it.     *)
LEMMA NewSizeFits ==
  ASSUME NEW size \in Nat \ {0}, NEW len \in Nat \ {0}
  PROVE  /\ NewSize(size, len) \in Nat
         /\ NewSize(size, len) >= len
         /\ NewSize(size, len) >= 2 * size
<1> DEFINE Enough == {k \in 1 .. len : size * 2 ^ k >= len}
           P(k) == /\ size * 2 ^ k >= len
                   /\ \A j \in 1 .. k - 1 : size * 2 ^ j < len
<1>1. \A k \in Nat : 2 ^ k \in Nat /\ 2 ^ k > k /\ (k >= 1 => 2 ^ k >= 2)
  BY PowerOfTwo
<1>2. ASSUME NEW m \in Nat, NEW n \in Nat, n >= m
      PROVE  size * n \in Nat /\ size * n >= n /\ size * n >= size * m
  <2>1. size * n = n + (size - 1) * n /\ (size - 1) * n >= 0
    OBVIOUS
  <2>2. size * n = size * m + size * (n - m) /\ size * (n - m) >= 0
    BY <1>2
  <2> QED BY <2>1, <2>2
<1>3. len \in Enough
  <2>1. 2 ^ len \in Nat /\ 2 ^ len > len
    BY <1>1
  <2>2. size * 2 ^ len >= 2 ^ len /\ size * 2 ^ len \in Nat
    BY <1>2, <2>1
  <2> QED BY <2>1, <2>2
<1>4. PICK k \in Enough : \A j \in Enough : k <= j
  <2>1. Enough # {}
    BY <1>3
  <2>2. Enough \subseteq Nat
    <3>1. Enough \subseteq 1 .. len
      BY Zenon
    <3> HIDE DEF Enough
    <3> QED BY <3>1
  <2> HIDE DEF Enough
  <2> QED BY <2>1, <2>2, LeastNumber
<1>5. P(k)
  <2>1. ASSUME NEW j \in 1 .. k - 1 PROVE size * 2 ^ j < len
    <3>1. j \in 1 .. len /\ j \notin Enough
      BY <1>4
    <3>2. 2 ^ j \in Nat
      BY <1>1
    <3>3. size * 2 ^ j \in Nat
      BY <1>2, <3>2
    <3> QED BY <3>1, <3>3
  <2> QED BY <1>4, <2>1
<1> DEFINE c == CHOOSE n \in 1 .. len : P(n)
<1>6. c \in 1 .. len /\ P(c)
  <2> HIDE DEF P
  <2> QED BY <1>4, <1>5
<1>7. NewSize(size, len) = size * 2 ^ c
  BY DEF NewSize
<1> HIDE DEF c
<1>8. 2 ^ c \in Nat /\ 2 ^ c >= 2
  BY <1>1, <1>6
<1> QED BY <1>2, <1>6, <1>7, <1>8

-----------------------------------------------------------------------------
(* The value of a buffer, and its readable bytes.                          *)

LEMMA IsConcat ==
  ASSUME NEW S, NEW s \in Seq(S), NEW t \in Seq(S), NEW u \in Seq(S),
         Len(u) = Len(s) + Len(t),
         \A i \in 1 .. Len(s) : u[i] = s[i],
         \A i \in 1 .. Len(t) : u[Len(s) + i] = t[i]
  PROVE  s \o t = u
<1>1. s \o t \in Seq(S) /\ Len(s \o t) = Len(s) + Len(t)
  OBVIOUS
<1>2. \A i \in 1 .. Len(s) : (s \o t)[i] = s[i]
  OBVIOUS
<1>3. \A i \in 1 .. Len(t) : (s \o t)[Len(s) + i] = t[i]
  OBVIOUS
<1>4. ASSUME NEW i \in 1 .. Len(s) + Len(t) PROVE (s \o t)[i] = u[i]
  <2>1. CASE i <= Len(s)
    BY <1>1, <1>2, <2>1
  <2>2. CASE i > Len(s)
    <3>1. i - Len(s) \in 1 .. Len(t) /\ Len(s) + (i - Len(s)) = i
      BY <2>2
    <3>2. (s \o t)[Len(s) + (i - Len(s))] = u[Len(s) + (i - Len(s))]
      BY <1>3, <3>1
    <3> QED BY <3>1, <3>2
  <2> QED BY <2>1, <2>2
<1> QED BY <1>1, <1>4, SeqEqual

LEMMA ConcatKeeps ==
  ASSUME NEW S, NEW s \in Seq(S), NEW t \in Seq(S)
  PROVE  /\ s \o t \in Seq(S)
         /\ Len(s \o t) = Len(s) + Len(t)
         /\ \A i \in 1 .. Len(s) : (s \o t)[i] = s[i]
OBVIOUS

IsBuffer(b) ==
  /\ b = [cells |-> b.cells, reader |-> b.reader, writer |-> b.writer]
  /\ b.cells \in Seq(Bytes)
  /\ b.reader \in Nat
  /\ b.writer \in Nat
  /\ Len(b.cells) >= kInitialSize
  /\ b.reader <= b.writer
  /\ b.writer <= Len(b.cells)

Content(b) == [i \in 1 .. b.writer - b.reader |-> b.cells[b.reader + i]]

LEMMA FreshType ==
  ASSUME NEW skip \in Nat, NEW n \in Nat, given \in Nat, given + skip + n <= MaxBytes
  PROVE  /\ Fresh(skip, n) \in Seq(Bytes)
         /\ Len(Fresh(skip, n)) = n
         /\ \A i \in 1 .. n : Fresh(skip, n)[i] = given + skip + i
BY BufferAssumption DEF Fresh, Bytes

LEMMA FreshConcat ==
  ASSUME NEW m \in Nat, NEW n \in Nat, given \in Nat, given + m + n <= MaxBytes
  PROVE  Fresh(0, m) \o Fresh(m, n) = Fresh(0, m + n)
<1>1. /\ Fresh(0, m) \in Seq(Bytes) /\ Len(Fresh(0, m)) = m
      /\ \A i \in 1 .. m : Fresh(0, m)[i] = given + 0 + i
  BY FreshType, BufferAssumption
<1>2. /\ Fresh(m, n) \in Seq(Bytes) /\ Len(Fresh(m, n)) = n
      /\ \A i \in 1 .. n : Fresh(m, n)[i] = given + m + i
  BY FreshType
<1>3. /\ Fresh(0, m + n) \in Seq(Bytes) /\ Len(Fresh(0, m + n)) = m + n
      /\ \A i \in 1 .. m + n : Fresh(0, m + n)[i] = given + 0 + i
  BY FreshType, BufferAssumption
<1>4. \A i \in 1 .. m : Fresh(0, m + n)[i] = Fresh(0, m)[i]
  BY <1>1, <1>3
<1>5. \A i \in 1 .. n : Fresh(0, m + n)[m + i] = Fresh(m, n)[i]
  BY <1>2, <1>3
<1>6. /\ Fresh(0, m) \in Seq(Bytes) /\ Fresh(m, n) \in Seq(Bytes)
      /\ Fresh(0, m + n) \in Seq(Bytes)
      /\ Len(Fresh(0, m)) = m /\ Len(Fresh(m, n)) = n /\ Len(Fresh(0, m + n)) = m + n
  BY <1>1, <1>2, <1>3
<1>7. /\ Len(Fresh(0, m + n)) = Len(Fresh(0, m)) + Len(Fresh(m, n))
      /\ \A i \in 1 .. Len(Fresh(0, m)) : Fresh(0, m + n)[i] = Fresh(0, m)[i]
      /\ \A i \in 1 .. Len(Fresh(m, n)) :
           Fresh(0, m + n)[Len(Fresh(0, m)) + i] = Fresh(m, n)[i]
  BY <1>4, <1>5, <1>6, Zenon
<1> QED BY <1>6, <1>7, IsConcat, Zenon

LEMMA ContentType ==
  ASSUME NEW b, IsBuffer(b)
  PROVE  /\ Content(b) \in Seq(Bytes)
         /\ Len(Content(b)) = b.writer - b.reader
         /\ \A i \in 1 .. b.writer - b.reader : Content(b)[i] = b.cells[b.reader + i]
<1>1. /\ b.cells \in Seq(Bytes) /\ b.reader \in Nat /\ b.writer \in Nat
      /\ b.reader <= b.writer /\ b.writer <= Len(b.cells)
  BY DEF IsBuffer
<1>2. \A i \in 1 .. b.writer - b.reader : b.cells[b.reader + i] \in Bytes
  BY <1>1
<1> QED BY <1>1, <1>2 DEF Content

(* What is written comes behind what could be read.                        *)
LEMMA WrittenContent ==
  ASSUME NEW b, IsBuffer(b), NEW data \in Seq(Bytes), Len(data) <= Room(b)
  PROVE  LET w == Written(b, data)
         IN  /\ IsBuffer(w)
             /\ Content(w) = Content(b) \o data
             /\ Len(w.cells) = Len(b.cells)
             /\ w.reader = b.reader
             /\ w.writer = b.writer + Len(data)
<1> DEFINE w == Written(b, data)
           n == Len(data)
<1>1. /\ b.cells \in Seq(Bytes) /\ b.reader \in Nat /\ b.writer \in Nat
      /\ Len(b.cells) >= kInitialSize
      /\ b.reader <= b.writer /\ b.writer <= Len(b.cells)
  BY DEF IsBuffer
<1>2. n \in Nat /\ b.writer + n <= Len(b.cells)
  BY <1>1 DEF Room
<1>3. /\ w = [cells |-> w.cells, reader |-> w.reader, writer |-> w.writer]
      /\ w.reader = b.reader /\ w.writer = b.writer + n
      /\ w.cells = [i \in 1 .. Len(b.cells) |->
                      IF b.writer < i /\ i <= b.writer + n
                        THEN data[i - b.writer] ELSE b.cells[i]]
  <2> DEFINE cells == [i \in DOMAIN b.cells |->
                         IF b.writer < i /\ i <= b.writer + n
                           THEN data[i - b.writer] ELSE b.cells[i]]
  <2>1. w = [b EXCEPT !.cells = cells, !.writer = b.writer + n]
    BY DEF Written
  <2>2. b = [cells |-> b.cells, reader |-> b.reader, writer |-> b.writer]
    BY DEF IsBuffer
  <2>3. DOMAIN b.cells = 1 .. Len(b.cells)
    BY <1>1
  <2>4. w = [cells |-> cells, reader |-> b.reader, writer |-> b.writer + n]
    <3> HIDE DEF cells, w
    <3> QED BY <2>1, <2>2
  <2> HIDE DEF w
  <2> QED BY <2>3, <2>4
<1> HIDE DEF w
<1>4. w.cells \in Seq(Bytes) /\ Len(w.cells) = Len(b.cells)
  BY <1>1, <1>2, <1>3
<1>5. w.reader = b.reader /\ w.writer = b.writer + n
  BY <1>3
<1>6. IsBuffer(w)
  BY <1>1, <1>2, <1>3, <1>4, <1>5 DEF IsBuffer
<1>7. Content(w) = Content(b) \o data
  <2>1. /\ Content(b) \in Seq(Bytes)
        /\ Len(Content(b)) = b.writer - b.reader
        /\ \A i \in 1 .. b.writer - b.reader : Content(b)[i] = b.cells[b.reader + i]
    BY ContentType
  <2>2. /\ Content(w) \in Seq(Bytes)
        /\ Len(Content(w)) = b.writer - b.reader + n
        /\ \A i \in 1 .. b.writer - b.reader + n : Content(w)[i] = w.cells[b.reader + i]
    <3>1. w.writer - w.reader = b.writer - b.reader + n
      BY <1>1, <1>2, <1>5
    <3> QED BY <1>5, <1>6, <3>1, ContentType
  <2>3. \A i \in 1 .. b.writer - b.reader : Content(w)[i] = Content(b)[i]
    <3> SUFFICES ASSUME NEW i \in 1 .. b.writer - b.reader
                 PROVE  w.cells[b.reader + i] = b.cells[b.reader + i]
      <4>1. \A i \in 1 .. b.writer - b.reader :
              i \in 1 .. b.writer - b.reader + n
        BY <1>1, <1>2
      <4> QED BY <2>1, <2>2, <4>1
    <3>1. b.reader + i \in 1 .. Len(b.cells) /\ ~(b.writer < b.reader + i)
      BY <1>1
    <3> QED BY <1>3, <3>1
  <2>4. \A i \in 1 .. n : Content(w)[b.writer - b.reader + i] = data[i]
    <3> SUFFICES ASSUME NEW i \in 1 .. n
                 PROVE  Content(w)[b.writer - b.reader + i] = data[i]
      OBVIOUS
    <3> DEFINE j == b.reader + (b.writer - b.reader + i)
    <3>1. /\ j \in 1 .. Len(b.cells) /\ b.writer < j /\ j <= b.writer + n
          /\ j - b.writer = i
          /\ b.writer - b.reader + i \in 1 .. b.writer - b.reader + n
      BY <1>1, <1>2
    <3>2. w.cells[j] = data[j - b.writer]
      <4> HIDE DEF j
      <4> QED BY <1>3, <3>1
    <3> QED BY <2>2, <3>1, <3>2
  <2>7. /\ Content(b) \in Seq(Bytes) /\ Content(w) \in Seq(Bytes) /\ data \in Seq(Bytes)
        /\ Len(Content(b)) = b.writer - b.reader /\ Len(data) = n
        /\ Len(Content(w)) = b.writer - b.reader + n
    BY <2>1, <2>2
  <2> HIDE DEF n
  <2>8. /\ Len(Content(w)) = Len(Content(b)) + Len(data)
        /\ \A i \in 1 .. Len(Content(b)) : Content(w)[i] = Content(b)[i]
        /\ \A i \in 1 .. Len(data) : Content(w)[Len(Content(b)) + i] = data[i]
    BY <2>3, <2>4, <2>7, Zenon
  <2> QED BY <2>7, <2>8, IsConcat, Zenon
<1> QED BY <1>4, <1>5, <1>6, <1>7 DEF w

(* Moving and growing keep what can be read.                               *)
LEMMA ToppedContent ==
  ASSUME NEW b, IsBuffer(b)
  PROVE  LET t == Topped(b)
         IN  /\ IsBuffer(t)
             /\ Content(t) = Content(b)
             /\ Len(t.cells) = Len(b.cells)
             /\ Room(t) = Room(b) + b.reader
<1> DEFINE t == Topped(b)
<1>1. /\ b.cells \in Seq(Bytes) /\ b.reader \in Nat /\ b.writer \in Nat
      /\ Len(b.cells) >= kInitialSize
      /\ b.reader <= b.writer /\ b.writer <= Len(b.cells)
  BY DEF IsBuffer
<1>2. /\ t = [cells |-> t.cells, reader |-> 0, writer |-> b.writer - b.reader]
      /\ t.cells = [i \in 1 .. Len(b.cells) |->
                      IF i <= b.writer - b.reader THEN b.cells[b.reader + i] ELSE b.cells[i]]
  BY <1>1 DEF Topped
<1> HIDE DEF t
<1>3. t.cells \in Seq(Bytes) /\ Len(t.cells) = Len(b.cells)
  BY <1>1, <1>2
<1>4. IsBuffer(t)
  BY <1>1, <1>2, <1>3 DEF IsBuffer
<1>5. Content(t) = Content(b)
  BY <1>1, <1>2, <1>3 DEF Content
<1>6. Room(t) = Room(b) + b.reader
  BY <1>1, <1>2, <1>3 DEF Room
<1> QED BY <1>3, <1>4, <1>5, <1>6 DEF t

LEMMA GrownContent ==
  ASSUME NEW b, IsBuffer(b), NEW len \in Nat \ {0}
  PROVE  LET g == Grown(b, len)
         IN  /\ IsBuffer(g)
             /\ Content(g) = Content(b)
             /\ Len(g.cells) = NewSize(Len(b.cells), len)
             /\ g.reader = b.reader
             /\ g.writer = b.writer
<1> DEFINE g == Grown(b, len)
           size == Len(b.cells)
           more == NewSize(size, len) - size
<1>1. /\ b.cells \in Seq(Bytes) /\ b.reader \in Nat /\ b.writer \in Nat
      /\ Len(b.cells) >= kInitialSize
      /\ b.reader <= b.writer /\ b.writer <= Len(b.cells)
  BY DEF IsBuffer
<1>2. size \in Nat \ {0}
  BY <1>1, BufferAssumption
<1>3. NewSize(size, len) \in Nat /\ more \in Nat
  <2>1. NewSize(size, len) \in Nat /\ NewSize(size, len) >= 2 * size
    BY <1>2, NewSizeFits
  <2> QED BY <1>2, <2>1
<1>4. Zeros(more) \in Seq(Bytes) /\ Len(Zeros(more)) = more
  <2> HIDE DEF more
  <2> QED BY <1>3, BufferAssumption DEF Zeros, Bytes
<1>5. g = [cells |-> b.cells \o Zeros(more), reader |-> b.reader, writer |-> b.writer]
  <2>1. g = [b EXCEPT !.cells = b.cells \o Zeros(more)]
    BY DEF Grown
  <2>2. b = [cells |-> b.cells, reader |-> b.reader, writer |-> b.writer]
    BY DEF IsBuffer
  <2> HIDE DEF g, more
  <2> QED BY <2>1, <2>2
<1>6. more + size = NewSize(size, len)
  BY <1>2, <1>3
<1> HIDE DEF g, more
<1>7. /\ g.cells \in Seq(Bytes)
      /\ Len(g.cells) = size + more
      /\ \A i \in 1 .. size : g.cells[i] = b.cells[i]
  <2> DEFINE zeros == Zeros(more)
  <2>1. zeros \in Seq(Bytes) /\ Len(zeros) = more /\ g.cells = b.cells \o zeros
    BY <1>4, <1>5
  <2>2. b.cells \in Seq(Bytes)
    BY <1>1
  <2> HIDE DEF zeros
  <2>3. /\ b.cells \o zeros \in Seq(Bytes)
        /\ Len(b.cells \o zeros) = Len(b.cells) + Len(zeros)
        /\ \A i \in 1 .. Len(b.cells) : (b.cells \o zeros)[i] = b.cells[i]
    BY <2>1, <2>2, ConcatKeeps, Zenon
  <2> QED BY <2>1, <2>3, Zenon
<1>8. IsBuffer(g)
  <2>1. Len(g.cells) \in Nat /\ Len(g.cells) >= size
    BY <1>2, <1>3, <1>7
  <2>2. g = [cells |-> g.cells, reader |-> g.reader, writer |-> g.writer]
    BY <1>5
  <2>3. g.reader = b.reader /\ g.writer = b.writer
    BY <1>5
  <2> QED BY <1>1, <1>7, <2>1, <2>2, <2>3, BufferAssumption DEF IsBuffer
<1>9. Content(g) = Content(b)
  BY <1>1, <1>3, <1>5, <1>7, SMTT(30) DEF Content
<1> QED BY <1>3, <1>5, <1>6, <1>7, <1>8, <1>9 DEF g

(* ensureWritable keeps what can be read; it fails to make the room only   *)
(* when it is asked for more than the vector has, and grows only when what *)
(* can be read and what is to come are more than that.                     *)
LEMMA EnsuredContent ==
  ASSUME NEW b, IsBuffer(b), NEW len \in Nat \ {0}
  PROVE  LET e == Ensured(b, len)
         IN  /\ IsBuffer(e)
             /\ Content(e) = Content(b)
             /\ len <= Len(b.cells) => Room(e) >= len
             /\ Len(e.cells) > Len(b.cells) => b.writer - b.reader + len > Len(b.cells)
<1>1. /\ b.cells \in Seq(Bytes) /\ b.reader \in Nat /\ b.writer \in Nat
      /\ Len(b.cells) >= kInitialSize
      /\ b.reader <= b.writer /\ b.writer <= Len(b.cells)
  BY DEF IsBuffer
<1>2. CASE Room(b) >= len
  BY <1>1, <1>2 DEF Ensured
<1>3. CASE ~(Room(b) >= len) /\ FitsAfterTopping(b, len)
  <2>1. Ensured(b, len) = Topped(b)
    BY <1>3 DEF Ensured
  <2>2. Room(Topped(b)) >= len
    BY <1>3, ToppedContent DEF FitsAfterTopping
  <2> QED BY <1>1, <2>1, <2>2, ToppedContent
<1>4. CASE ~(Room(b) >= len) /\ ~FitsAfterTopping(b, len)
  <2>1. Ensured(b, len) = Grown(b, len)
    BY <1>4 DEF Ensured
  <2>2. Len(b.cells) \in Nat \ {0}
    BY <1>1, BufferAssumption
  <2>3. /\ NewSize(Len(b.cells), len) \in Nat
        /\ NewSize(Len(b.cells), len) >= 2 * Len(b.cells)
    BY <2>2, NewSizeFits
  <2>4. len <= Len(b.cells) => Room(Grown(b, len)) >= len
    BY <1>1, <2>2, <2>3, GrownContent DEF Room
  <2>5. b.writer - b.reader + len > Len(b.cells)
    BY <1>1, <1>4 DEF FitsAfterTopping, Room
  <2> QED BY <2>1, <2>4, <2>5, GrownContent
<1> QED BY <1>2, <1>3, <1>4

-----------------------------------------------------------------------------
(* The steps.                                                              *)

LEMMA TypeIsBuffer ==
  TypeOK <=> IsBuffer(This) /\ given \in 0 .. MaxBytes /\ aborted \in BOOLEAN
BY DEF TypeOK, IsBuffer, This

LEMMA ReadableBytes ==
  ASSUME TypeOK
  PROVE  /\ Readable \in Seq(Bytes)
         /\ Len(Readable) = readableBytes
         /\ \A i \in 1 .. readableBytes : Readable[i] = buffer_[readerIndex_ + i]
<1>1. IsBuffer(This)
  BY TypeIsBuffer
<1>2. /\ This.cells = buffer_ /\ This.reader = readerIndex_
      /\ This.writer - This.reader = readableBytes
  BY DEF This, readableBytes
<1>3. Readable = Content(This)
  BY DEF Readable, readableBytes, Content, This
<1> QED BY <1>1, <1>2, <1>3, ContentType

LEMMA BecomesBuffer ==
  ASSUME NEW b, IsBuffer(b), Becomes(b), given' \in 0 .. MaxBytes, aborted' \in BOOLEAN
  PROVE  TypeOK' /\ Readable' = Content(b)
<1>1. buffer_' = b.cells /\ readerIndex_' = b.reader /\ writerIndex_' = b.writer
  BY DEF Becomes
<1>2. TypeOK'
  BY <1>1 DEF TypeOK, IsBuffer
<1>3. Readable' = Content(b)
  BY <1>1 DEF Readable, readableBytes, Content
<1> QED BY <1>2, <1>3

(* What an action does that adds n bytes, and one that fails to.           *)
Adds(n) ==
  \E w : /\ IsBuffer(w)
         /\ Becomes(w)
         /\ Content(w) = Readable \o Fresh(0, n)
         /\ given' = given + n
         /\ given + n <= MaxBytes
         /\ UNCHANGED aborted
         /\ Len(w.cells) > Len(buffer_) => w.writer - w.reader > Len(buffer_)

Fails(more) == Abort /\ more > Len(buffer_)

LEMMA AppendToAdds ==
  ASSUME TypeOK, NEW b, IsBuffer(b), NEW skip \in Nat, NEW n \in Nat \ {0},
         Content(b) = Readable \o Fresh(0, skip), Len(b.cells) = Len(buffer_),
         given + skip + n <= MaxBytes,
         AppendTo(b, skip, n)
  PROVE  Adds(skip + n) \/ Fails(n)
<1> DEFINE e == Ensured(b, n)
           w == Written(e, Fresh(skip, n))
<1>1. /\ IsBuffer(e)
      /\ Content(e) = Content(b)
      /\ n <= Len(b.cells) => Room(e) >= n
      /\ Len(e.cells) > Len(b.cells) => b.writer - b.reader + n > Len(b.cells)
  BY EnsuredContent
<1>2. /\ b.writer - b.reader \in Nat /\ Len(b.cells) \in Nat
      /\ e.writer - e.reader \in Nat /\ Len(e.cells) \in Nat
      /\ e.writer \in Nat /\ e.reader \in Nat
  BY <1>1 DEF IsBuffer
<1>3. e.writer - e.reader = b.writer - b.reader
  <2>1. /\ Len(Content(e)) = e.writer - e.reader
        /\ Len(Content(b)) = b.writer - b.reader
    BY <1>1, ContentType
  <2> QED BY <1>1, <2>1
<1>4. CASE Room(e) >= n
  <2>1. Becomes(w) /\ given' = given + skip + n /\ UNCHANGED aborted
    BY <1>4 DEF AppendTo
  <2>2. given \in Nat
    BY DEF TypeOK
  <2>3. Fresh(skip, n) \in Seq(Bytes) /\ Len(Fresh(skip, n)) = n
    BY <2>2, FreshType
  <2>4. /\ IsBuffer(w)
        /\ Content(w) = Content(e) \o Fresh(skip, n)
        /\ Len(w.cells) = Len(e.cells)
        /\ w.reader = e.reader
        /\ w.writer = e.writer + n
    BY <1>1, <1>4, <2>3, WrittenContent
  <2>5. Content(w) = Readable \o Fresh(0, skip + n)
    <3>1. Content(w) = (Readable \o Fresh(0, skip)) \o Fresh(skip, n)
      BY <1>1, <2>4
    <3>2. Fresh(0, skip) \in Seq(Bytes)
      BY <2>2, FreshType, BufferAssumption
    <3>3. Readable \in Seq(Bytes)
      <4>1. Readable = Content(This)
        BY DEF Readable, readableBytes, Content, This
      <4> QED BY <4>1, TypeIsBuffer, ContentType
    <3>4. (Readable \o Fresh(0, skip)) \o Fresh(skip, n)
            = Readable \o (Fresh(0, skip) \o Fresh(skip, n))
      <4>1. Readable \in Seq(Bytes) /\ Fresh(0, skip) \in Seq(Bytes) /\ Fresh(skip, n) \in Seq(Bytes)
        BY <2>3, <3>2, <3>3
      <4> QED BY ONLY <4>1, ConcatAssociative, SMTT(30)
    <3>5. Fresh(0, skip) \o Fresh(skip, n) = Fresh(0, skip + n)
      BY <2>2, FreshConcat
    <3> QED BY <3>1, <3>4, <3>5
  <2>6. Len(w.cells) > Len(buffer_) => w.writer - w.reader > Len(buffer_)
    <3>1. w.writer - w.reader = b.writer - b.reader + n
      BY <1>2, <1>3, <2>4
    <3> QED BY <1>1, <2>4, <3>1
  <2>7. given' = given + (skip + n) /\ given + (skip + n) <= MaxBytes
    BY <2>1, <2>2, BufferAssumption
  <2> HIDE DEF w
  <2> QED BY <2>1, <2>4, <2>5, <2>6, <2>7 DEF Adds
<1>5. CASE ~(Room(e) >= n)
  <2>1. Abort
    BY <1>5 DEF AppendTo
  <2>2. n > Len(buffer_)
    BY <1>1, <1>2, <1>5
  <2> QED BY <2>1, <2>2 DEF Fails
<1> QED BY <1>4, <1>5

LEMMA AppendAdds ==
  ASSUME TypeOK, NEW n \in Nat \ {0}, AppendBytes(n)
  PROVE  Adds(n) \/ Fails(n)
<1>1. IsBuffer(This) /\ given \in Nat
  BY TypeIsBuffer
<1>2. Content(This) = Readable \o Fresh(0, 0)
  <2>1. Readable = Content(This) /\ Content(This) \in Seq(Bytes)
    BY <1>1, ContentType DEF Readable, readableBytes, Content, This
  <2>2. Fresh(0, 0) = <<>>
    BY DEF Fresh
  <2> QED BY <2>1, <2>2
<1>3. Len(This.cells) = Len(buffer_)
  BY DEF This
<1>4. given + 0 + n <= MaxBytes /\ AppendTo(This, 0, n)
  BY <1>1 DEF AppendBytes
<1>5. Adds(0 + n) \/ Fails(n)
  BY <1>1, <1>2, <1>3, <1>4, AppendToAdds
<1> QED BY <1>5

LEMMA ReadAdds ==
  ASSUME TypeOK, NEW n \in Nat \ {0}, ReadFD(n)
  PROVE  Adds(n) \/ (n > writableBytes /\ n - writableBytes <= TmpSize /\ Fails(n - writableBytes))
<1>1. IsBuffer(This) /\ given \in Nat /\ writableBytes \in Nat
  BY TypeIsBuffer DEF IsBuffer, This, TypeOK, writableBytes
<1>2. /\ Readable = Content(This)
      /\ Len(This.cells) = Len(buffer_)
      /\ Room(This) = writableBytes
      /\ Len(buffer_) \in Nat
  BY DEF Readable, readableBytes, Content, This, Room, writableBytes, TypeOK
<1>3. given + n <= MaxBytes
  BY DEF ReadFD
<1>4. CASE n <= writableBytes
  <2> DEFINE w == Written(This, Fresh(0, n))
  <2>1. Becomes(w) /\ given' = given + n /\ UNCHANGED aborted
    BY <1>4 DEF ReadFD
  <2>2. Fresh(0, n) \in Seq(Bytes) /\ Len(Fresh(0, n)) = n
    BY <1>1, <1>3, FreshType
  <2>3. /\ IsBuffer(w)
        /\ Content(w) = Readable \o Fresh(0, n)
        /\ Len(w.cells) = Len(buffer_)
    BY <1>1, <1>2, <1>4, <2>2, WrittenContent
  <2> HIDE DEF w
  <2> QED BY <1>2, <1>3, <2>1, <2>3 DEF Adds
<1>5. CASE n > writableBytes
  <2> DEFINE w == Written(This, Fresh(0, writableBytes))
  <2>1. AppendTo(w, writableBytes, n - writableBytes) /\ n - writableBytes <= TmpSize
    BY <1>1, <1>5, BufferAssumption DEF ReadFD
  <2>2. Fresh(0, writableBytes) \in Seq(Bytes) /\ Len(Fresh(0, writableBytes)) = writableBytes
    BY <1>1, <1>3, <1>5, FreshType, BufferAssumption
  <2>3. /\ IsBuffer(w)
        /\ Content(w) = Readable \o Fresh(0, writableBytes)
        /\ Len(w.cells) = Len(buffer_)
    <3>1. Len(Fresh(0, writableBytes)) <= Room(This)
      BY <1>1, <1>2, <2>2
    <3>2. /\ IsBuffer(w)
          /\ Content(w) = Content(This) \o Fresh(0, writableBytes)
          /\ Len(w.cells) = Len(This.cells)
      BY <1>1, <2>2, <3>1, WrittenContent
    <3> HIDE DEF w
    <3> QED BY <1>2, <3>2
  <2> HIDE DEF w
  <2>4. PICK skip \in Nat : skip = writableBytes
    BY <1>1
  <2>5. n - skip \in Nat \ {0} /\ skip + (n - skip) = n /\ given + skip + (n - skip) <= MaxBytes
    BY <1>1, <1>3, <1>5, <2>4
  <2>6. Adds(skip + (n - skip)) \/ Fails(n - skip)
    BY <2>1, <2>3, <2>4, <2>5, AppendToAdds
  <2> QED BY <1>5, <2>1, <2>4, <2>5, <2>6
<1> QED BY <1>1, <1>4, <1>5

LEMMA EnsureKeeps ==
  ASSUME TypeOK, NEW n \in Nat \ {0}, EnsureWritable(n)
  PROVE  \/ Fails(n)
         \/ \E e : /\ IsBuffer(e) /\ Becomes(e) /\ Content(e) = Readable
                   /\ UNCHANGED <<given, aborted>>
<1> DEFINE e == Ensured(This, n)
<1>1. /\ IsBuffer(This)
      /\ Readable = Content(This)
      /\ This.cells = buffer_
  BY TypeIsBuffer DEF Readable, readableBytes, Content, This
<1>2. /\ IsBuffer(e)
      /\ Content(e) = Readable
      /\ n <= Len(buffer_) => Room(e) >= n
  BY <1>1, EnsuredContent
<1>3. CASE Room(e) >= n
  <2>1. Becomes(e) /\ UNCHANGED <<given, aborted>>
    BY <1>3 DEF EnsureWritable
  <2> HIDE DEF e
  <2> QED BY <1>2, <2>1
<1>4. CASE ~(Room(e) >= n)
  <2>1. Abort
    BY <1>4 DEF EnsureWritable
  <2>2. Len(buffer_) \in Nat
    BY DEF TypeOK
  <2> QED BY <1>2, <1>4, <2>1, <2>2 DEF Fails
<1> QED BY <1>3, <1>4

LEMMA SuffixIs ==
  ASSUME NEW S, NEW s \in Seq(S), NEW m \in 0 .. Len(s)
  PROVE  /\ SubSeq(s, m + 1, Len(s)) \in Seq(S)
         /\ Len(SubSeq(s, m + 1, Len(s))) = Len(s) - m
         /\ \A i \in 1 .. Len(s) - m : SubSeq(s, m + 1, Len(s))[i] = s[m + i]
OBVIOUS

(* Retrieving takes from the front, undoWrite from the back.               *)
LEMMA RetrieveTakes ==
  ASSUME TypeOK, NEW n \in 1 .. readableBytes, Retrieve(n)
  PROVE  TypeOK' /\ Queue!Take(n)
<1>1. /\ buffer_ \in Seq(Bytes) /\ readerIndex_ \in Nat /\ writerIndex_ \in Nat
      /\ readerIndex_ <= writerIndex_ /\ writerIndex_ <= Len(buffer_)
      /\ UNCHANGED <<buffer_, given, aborted>>
  BY DEF TypeOK, Retrieve
<1>2. n \in Nat /\ n <= writerIndex_ - readerIndex_
  BY <1>1 DEF readableBytes
<1>3. IF n < writerIndex_ - readerIndex_
        THEN readerIndex_' = readerIndex_ + n /\ writerIndex_' = writerIndex_
        ELSE readerIndex_' = 0 /\ writerIndex_' = 0
  BY DEF Retrieve, readableBytes
<1>4. TypeOK'
  BY <1>1, <1>2, <1>3 DEF TypeOK
<1>5. /\ Readable \in Seq(Bytes)
      /\ Len(Readable) = writerIndex_ - readerIndex_
      /\ \A i \in 1 .. writerIndex_ - readerIndex_ : Readable[i] = buffer_[readerIndex_ + i]
  BY ReadableBytes DEF readableBytes
<1>6. Readable' = SubSeq(Readable, n + 1, Len(Readable))
  <2> DEFINE rest == SubSeq(Readable, n + 1, Len(Readable))
             left == writerIndex_ - readerIndex_ - n
  <2>1. /\ Len(rest) = left
        /\ rest \in Seq(Bytes)
        /\ \A i \in 1 .. left : rest[i] = Readable[n + i]
    <3>1. n \in 0 .. Len(Readable) /\ Len(Readable) - n = left
      BY <1>1, <1>2, <1>5
    <3> HIDE DEF left
    <3> QED BY <1>5, <3>1, SuffixIs
  <2>2. writerIndex_' - readerIndex_' = left
    BY <1>1, <1>2, <1>3
  <2>3. /\ Readable' \in Seq(Bytes)
        /\ Len(Readable') = left
        /\ \A i \in 1 .. left : Readable'[i] = buffer_[readerIndex_' + i]
    <3>1. Readable' = [i \in 1 .. left |-> buffer_[readerIndex_' + i]]
      BY <1>1, <2>2 DEF Readable, readableBytes
    <3>2. left \in Nat /\ \A i \in 1 .. left : buffer_[readerIndex_' + i] \in Bytes
      BY <1>1, <1>2, <1>3
    <3> HIDE DEF left
    <3> QED BY <3>1, <3>2
  <2>4. ASSUME NEW i \in 1 .. left
        PROVE  rest[i] = Readable'[i]
    <3>1. n + i \in 1 .. writerIndex_ - readerIndex_ /\ n < writerIndex_ - readerIndex_
      BY <1>1, <1>2
    <3>2. rest[i] = buffer_[readerIndex_ + (n + i)]
      BY <1>5, <2>1, <3>1
    <3>3. Readable'[i] = buffer_[readerIndex_ + n + i]
      BY <1>3, <2>3, <3>1
    <3>4. readerIndex_ + (n + i) = readerIndex_ + n + i
      BY <1>1, <1>2
    <3> QED BY <3>2, <3>3, <3>4
  <2> HIDE DEF rest, left
  <2>5. Readable' = rest
    BY <2>1, <2>3, <2>4, SeqEqual
  <2> QED BY <2>5 DEF rest
<1> QED BY <1>1, <1>2, <1>4, <1>5, <1>6 DEF Queue!Take

LEMMA UndoWriteUnputs ==
  ASSUME TypeOK, NEW n \in 1 .. readableBytes, UndoWrite(n)
  PROVE  TypeOK' /\ Queue!Unput(n)
<1>1. /\ buffer_ \in Seq(Bytes) /\ readerIndex_ \in Nat /\ writerIndex_ \in Nat
      /\ readerIndex_ <= writerIndex_ /\ writerIndex_ <= Len(buffer_)
      /\ UNCHANGED <<buffer_, readerIndex_, given, aborted>>
      /\ writerIndex_' = writerIndex_ - n
  BY DEF TypeOK, UndoWrite
<1>2. n \in Nat /\ n <= writerIndex_ - readerIndex_
  BY <1>1 DEF readableBytes
<1>3. TypeOK'
  BY <1>1, <1>2 DEF TypeOK
<1>4. /\ Readable \in Seq(Bytes)
      /\ Len(Readable) = writerIndex_ - readerIndex_
      /\ \A i \in 1 .. writerIndex_ - readerIndex_ : Readable[i] = buffer_[readerIndex_ + i]
  BY ReadableBytes DEF readableBytes
<1>5. Readable' = SubSeq(Readable, 1, Len(Readable) - n)
  <2> DEFINE rest == SubSeq(Readable, 1, Len(Readable) - n)
             left == writerIndex_ - readerIndex_ - n
  <2>1. /\ Len(rest) = left
        /\ rest \in Seq(Bytes)
        /\ \A i \in 1 .. left : rest[i] = Readable[i]
    BY <1>1, <1>2, <1>4
  <2>2. Readable' = [i \in 1 .. left |-> buffer_[readerIndex_ + i]]
    <3>1. writerIndex_' - readerIndex_' = left
      BY <1>1, <1>2
    <3> QED BY <1>1, <3>1 DEF Readable, readableBytes
  <2>3. left \in Nat /\ \A i \in 1 .. left : i \in 1 .. writerIndex_ - readerIndex_
    BY <1>1, <1>2
  <2>4. \A i \in 1 .. left : rest[i] = buffer_[readerIndex_ + i]
    BY <1>4, <2>1, <2>3
  <2> HIDE DEF rest, left
  <2>5. rest = [i \in 1 .. left |-> rest[i]]
    BY <2>1
  <2>6. Readable' = rest
    BY <2>2, <2>4, <2>5
  <2> QED BY <2>6 DEF rest
<1> QED BY <1>1, <1>2, <1>3, <1>4, <1>5 DEF Queue!Unput

(* Every step is one of the queue or leaves it alone, and keeps the types. *)
LEMMA AddsPuts ==
  ASSUME TypeOK, NEW n \in Nat \ {0}, Adds(n)
  PROVE  /\ TypeOK'
         /\ Queue!Put(n) /\ n \in 1 .. MaxBytes - given
         /\ Len(buffer_') > Len(buffer_) => writerIndex_' - readerIndex_' > Len(buffer_)
<1>1. PICK w :
        /\ IsBuffer(w)
        /\ Becomes(w)
        /\ Content(w) = Readable \o Fresh(0, n)
        /\ given' = given + n
        /\ given + n <= MaxBytes
        /\ UNCHANGED aborted
        /\ Len(w.cells) > Len(buffer_) => w.writer - w.reader > Len(buffer_)
  BY DEF Adds
<1>2. given' \in 0 .. MaxBytes /\ aborted' \in BOOLEAN /\ n \in 1 .. MaxBytes - given
  BY <1>1, BufferAssumption DEF TypeOK
<1>3. TypeOK' /\ Readable' = Content(w)
  BY <1>1, <1>2, BecomesBuffer
<1>4. Queue!Fresh(n) = Fresh(0, n)
  BY DEF Queue!Fresh, Fresh, TypeOK
<1>5. Queue!Put(n)
  BY <1>1, <1>3, <1>4 DEF Queue!Put
<1> QED BY <1>1, <1>2, <1>3, <1>5 DEF Becomes

LEMMA FailsKeeps ==
  ASSUME TypeOK, NEW n, Fails(n)
  PROVE  /\ TypeOK'
         /\ UNCHANGED <<Readable, given, buffer_>>
BY DEF Fails, Abort, TypeOK, Readable, readableBytes

LEMMA StepIsOfQueue ==
  ASSUME TypeOK, [Next]_vars
  PROVE  /\ TypeOK'
         /\ [Queue!Next]_(Queue!vars)
         /\ (given' > given /\ Len(buffer_') > Len(buffer_))
              => (writerIndex_' - readerIndex_' > Len(buffer_))
<1>1. ASSUME NEW n \in Nat \ {0}, Adds(n)
      PROVE  /\ TypeOK' /\ Queue!Next
             /\ Len(buffer_') > Len(buffer_) => writerIndex_' - readerIndex_' > Len(buffer_)
  BY <1>1, AddsPuts DEF Queue!Next
<1>2. given \in Nat
  BY DEF TypeOK
<1>3. ASSUME NEW n, Fails(n)
      PROVE  TypeOK' /\ UNCHANGED <<Readable, given>>
  BY <1>3, FailsKeeps
<1>4. ASSUME NEW n \in 1 .. MaxAppend, AppendBytes(n)
      PROVE  Adds(n) \/ Fails(n)
  BY <1>4, AppendAdds, BufferAssumption
<1>5. ASSUME NEW n \in 1 .. MaxAppend, EnsureWritable(n)
      PROVE  TypeOK' /\ UNCHANGED <<Readable, given>>
  <2>1. n \in Nat \ {0}
    BY BufferAssumption
  <2>2. CASE Fails(n)
    BY <1>3, <2>2
  <2>3. CASE \E e : /\ IsBuffer(e) /\ Becomes(e) /\ Content(e) = Readable
                    /\ UNCHANGED <<given, aborted>>
    <3>1. given \in 0 .. MaxBytes /\ aborted \in BOOLEAN
      BY DEF TypeOK
    <3> QED BY <2>3, <3>1, BecomesBuffer
  <2> QED BY <1>5, <2>1, <2>2, <2>3, EnsureKeeps
<1>6. ASSUME NEW n \in 1 .. MaxBytes, ReadFD(n)
      PROVE  Adds(n) \/ Fails(n - writableBytes)
  BY <1>6, ReadAdds, BufferAssumption
<1>7. ASSUME NEW n \in 1 .. readableBytes, Retrieve(n) \/ UndoWrite(n)
      PROVE  TypeOK' /\ Queue!Next /\ given' = given
  <2>1. Len(Readable) = readableBytes
    BY ReadableBytes
  <2>2. CASE Retrieve(n)
    BY <2>1, <2>2, RetrieveTakes DEF Queue!Next, Queue!Take
  <2>3. CASE UndoWrite(n)
    BY <2>1, <2>3, UndoWriteUnputs DEF Queue!Next, Queue!Unput
  <2> QED BY <1>7, <2>2, <2>3
<1>8. CASE UNCHANGED vars
  BY <1>2, <1>8 DEF vars, TypeOK, Readable, readableBytes, Queue!vars
<1>9. CASE Next
  <2>1. ASSUME NEW n \in Nat \ {0}, NEW m, Adds(n) \/ Fails(m)
        PROVE  /\ TypeOK' /\ [Queue!Next]_(Queue!vars)
               /\ (given' > given /\ Len(buffer_') > Len(buffer_))
                    => (writerIndex_' - readerIndex_' > Len(buffer_))
    <3>1. CASE Adds(n)
      BY <1>1, <3>1
    <3>2. CASE Fails(m)
      BY <1>2, <1>3, <3>2 DEF Queue!vars
    <3> QED BY <2>1, <3>1, <3>2
  <2>2. ASSUME NEW n \in 1 .. MaxAppend, AppendBytes(n) \/ EnsureWritable(n)
        PROVE  /\ TypeOK' /\ [Queue!Next]_(Queue!vars)
               /\ (given' > given /\ Len(buffer_') > Len(buffer_))
                    => (writerIndex_' - readerIndex_' > Len(buffer_))
    <3>1. n \in Nat \ {0}
      BY BufferAssumption
    <3>2. CASE AppendBytes(n)
      BY <1>4, <2>1, <3>1, <3>2
    <3>3. CASE EnsureWritable(n)
      BY <1>2, <1>5, <3>3 DEF Queue!vars
    <3> QED BY <2>2, <3>2, <3>3
  <2>3. ASSUME NEW n \in 1 .. MaxBytes, ReadFD(n)
        PROVE  /\ TypeOK' /\ [Queue!Next]_(Queue!vars)
               /\ (given' > given /\ Len(buffer_') > Len(buffer_))
                    => (writerIndex_' - readerIndex_' > Len(buffer_))
    <3>1. n \in Nat \ {0}
      BY BufferAssumption
    <3> QED BY <1>6, <2>1, <2>3, <3>1
  <2>4. ASSUME NEW n \in 1 .. readableBytes, Retrieve(n) \/ UndoWrite(n)
        PROVE  /\ TypeOK' /\ [Queue!Next]_(Queue!vars)
               /\ (given' > given /\ Len(buffer_') > Len(buffer_))
                    => (writerIndex_' - readerIndex_' > Len(buffer_))
    BY <1>2, <1>7, <2>4
  <2> QED BY <1>9, <2>2, <2>3, <2>4 DEF Next
<1> QED BY <1>8, <1>9, <1>2 DEF vars, Queue!vars

-----------------------------------------------------------------------------

LEMMA InitType == Init => TypeOK /\ Queue!Init
<1> SUFFICES ASSUME Init PROVE TypeOK /\ Queue!Init
  OBVIOUS
<1>1. /\ buffer_ = Zeros(kInitialSize)
      /\ readerIndex_ = 0 /\ writerIndex_ = 0 /\ given = 0 /\ aborted = FALSE
  BY DEF Init
<1>2. Zeros(kInitialSize) \in Seq(Bytes) /\ Len(Zeros(kInitialSize)) = kInitialSize
  BY BufferAssumption DEF Zeros, Bytes
<1>3. Readable = <<>>
  BY <1>1 DEF Readable, readableBytes
<1>4. /\ buffer_ \in Seq(Bytes) /\ Len(buffer_) = kInitialSize
      /\ kInitialSize \in Nat /\ MaxBytes \in Nat
  BY <1>1, <1>2, BufferAssumption
<1>5. TypeOK
  <2>1. given \in 0 .. MaxBytes /\ readerIndex_ \in Nat /\ writerIndex_ \in Nat
    BY <1>1, <1>4
  <2>2. readerIndex_ <= writerIndex_ /\ writerIndex_ <= Len(buffer_)
    BY <1>1, <1>4
  <2>3. aborted \in BOOLEAN
    BY <1>1
  <2>4. Len(buffer_) >= kInitialSize
    BY <1>4
  <2> QED BY <1>4, <2>1, <2>2, <2>3, <2>4 DEF TypeOK
<1> QED BY <1>1, <1>3, <1>5 DEF Queue!Init

(* The indexes stay in order and within the vector, which never becomes    *)
(* smaller than a new one (Buffer.h:15-30, 124-191).                       *)
THEOREM TypeCorrect == Spec => []TypeOK
<1>1. TypeOK /\ [Next]_vars => TypeOK'
  BY StepIsOfQueue
<1> QED BY <1>1, InitType, PTL DEF Spec

(* Growing, moving and reading past the end through tmpBuf never lose,     *)
(* repeat or reorder a byte, whatever the sizes are and even when makeSpace*)
(* fails (Buffer.h:63-67, 106-122, 159-191, Buffer.cpp:11-35).             *)
THEOREM BufferIsQueue == Spec => ImplementsByteQueue
<1>1. TypeOK /\ [Next]_vars => [Queue!Next]_(Queue!vars)
  BY StepIsOfQueue
<1> QED BY <1>1, InitType, TypeCorrect, PTL DEF Spec, ImplementsByteQueue, Queue!Spec

(* Bytes that arrive make the vector grow only when they do not fit in it  *)
(* even after the readable bytes have been moved to the front              *)
(* (Buffer.h:180-189).                                                     *)
THEOREM GrowthIsNeeded == Spec => GrowsOnlyWhenFull
<1>1. TypeOK /\ [Next]_vars
        => [(given' > given /\ Len(buffer_') > Len(buffer_))
              => (writerIndex_' - readerIndex_' > Len(buffer_))]_vars
  BY StepIsOfQueue
<1> QED BY <1>1, TypeCorrect, PTL DEF Spec, GrowsOnlyWhenFull

-----------------------------------------------------------------------------
(* When makeSpace fails.                                                   *)

(* An action that asks for n bytes more than the free part holds.          *)
AsksFor(n) ==
  \/ n \in 1 .. MaxAppend /\ (AppendBytes(n) \/ EnsureWritable(n))
  \/ n \in 1 .. TmpSize /\ ReadFD(writableBytes + n)

(* An assertion fails only in a call that asks for more bytes than the     *)
(* whole vector has: doubling it until that many fit in all of it is       *)
(* enough for fewer, wherever the readable bytes are (Buffer.h:111,        *)
(* 176-191).                                                               *)
AbortsOnlyForMore ==
  [][aborted' # aborted => \E n \in Nat : n > Len(buffer_) /\ AsksFor(n)]_vars

LEMMA AbortsOnlyForMoreStep ==
  ASSUME TypeOK, [Next]_vars, aborted' # aborted
  PROVE  \E n \in Nat : n > Len(buffer_) /\ AsksFor(n)
<1>1. ASSUME NEW n, Adds(n) PROVE FALSE
  BY <1>1 DEF Adds
<1>2. CASE \E n \in 1 .. MaxAppend : AppendBytes(n) \/ EnsureWritable(n)
  <2>1. PICK n \in 1 .. MaxAppend : AppendBytes(n) \/ EnsureWritable(n)
    BY <1>2
  <2>2. n \in Nat \ {0}
    BY BufferAssumption
  <2>3. Fails(n)
    BY <1>1, <2>1, <2>2, AppendAdds, EnsureKeeps
  <2> QED BY <2>1, <2>2, <2>3 DEF AsksFor, Fails
<1>3. CASE \E n \in 1 .. MaxBytes : ReadFD(n)
  <2>1. PICK n \in 1 .. MaxBytes : ReadFD(n)
    BY <1>3
  <2>2. n \in Nat \ {0} /\ writableBytes \in Nat
    BY BufferAssumption DEF TypeOK, writableBytes
  <2>3. n > writableBytes /\ n - writableBytes <= TmpSize /\ Fails(n - writableBytes)
    BY <1>1, <2>1, <2>2, ReadAdds
  <2>4. PICK m \in Nat : m = n - writableBytes
    BY <2>2, <2>3
  <2>5. m \in 1 .. TmpSize /\ writableBytes + m = n
    BY <2>2, <2>3, <2>4, BufferAssumption
  <2> QED BY <2>1, <2>3, <2>4, <2>5 DEF AsksFor, Fails
<1>4. CASE \E n \in 1 .. readableBytes : Retrieve(n) \/ UndoWrite(n)
  BY <1>4 DEF Retrieve, UndoWrite
<1>5. CASE UNCHANGED vars
  BY <1>5 DEF vars
<1> QED BY <1>2, <1>3, <1>4, <1>5 DEF Next

THEOREM AbortsAreForMore == Spec => AbortsOnlyForMore
<1>1. TypeOK /\ [Next]_vars
        => [aborted' # aborted => \E n \in Nat : n > Len(buffer_) /\ AsksFor(n)]_vars
  BY AbortsOnlyForMoreStep
<1> QED BY <1>1, TypeCorrect, PTL DEF Spec, AbortsOnlyForMore

=============================================================================
