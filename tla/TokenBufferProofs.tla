-------------------------- MODULE TokenBufferProofs -------------------------
(* Token buffers implement sequences and keep their chunks within memory, for *)
(* every number of buffers, every length and every power of two as the first  *)
(* and as the largest size of a chunk.                                        *)
EXTENDS TokenBuffer, PowersOfTwoProofs

Chunk == [capacity : Nat, content : Seq(Token)]

GoodChunk(c) ==
  /\ c \in Chunk
  /\ 0 < Len(c.content) /\ Len(c.content) <= c.capacity
  /\ PowerOf2(c.capacity) /\ c.capacity <= MAX_CHUNK_LENGTH

EndOf(ch, k) == k + Len(ch[k].content)

\* The chunks at or above an index tile the buffer from there to its length: each
\* begins where the one before it ends.  The chunks below have been moved away.
Tiled(ch, len, from) ==
  /\ ch \in [DOMAIN ch -> Chunk] /\ DOMAIN ch \subseteq 0 .. len - 1
  /\ from \in DOMAIN ch \cup {len}
  /\ \A k \in DOMAIN ch : k >= from => GoodChunk(ch[k]) /\ EndOf(ch, k) \in DOMAIN ch \cup {len}
  /\ \A j, k \in DOMAIN ch : from <= j /\ j < k => EndOf(ch, j) <= k

-----------------------------------------------------------------------------
(* Capacities *)

\* Between a number and its double there is a power of two, which round_capacity_up
\* finds.
LEMMA PowerBetween ==
  \A n \in Nat : n > 0 => \E p \in n .. 2 * n - 1 : PowerOf2(p)
<1>. DEFINE Bad == {n \in Nat : n > 0 /\ ~ \E p \in n .. 2 * n - 1 : PowerOf2(p)}
<1>1. SUFFICES Bad = {}
  OBVIOUS
<1>2. SUFFICES ASSUME NEW n \in Bad
               PROVE  \E m \in Bad : m < n
  BY LeastCounterexample
<1>3. n \in Nat /\ n > 0 /\ \A p \in n .. 2 * n - 1 : ~PowerOf2(p)
  OBVIOUS
<1>4. PowerOf2(1)
  BY DEF PowerOf2
<1>5. n # 1
  BY <1>3, <1>4
<1>6. PICK m \in Nat : n = 2 * m \/ n = 2 * m - 1
  <2>1. n = 2 * (n \div 2) + (n % 2) /\ n \div 2 \in Nat /\ n % 2 \in 0 .. 1
    BY <1>3
  <2>2. CASE n % 2 = 0
    BY <2>1, <2>2
  <2>3. CASE n % 2 = 1
    <3>1. n = 2 * (n \div 2 + 1) - 1 /\ n \div 2 + 1 \in Nat
      BY <2>1, <2>3
    <3>. QED
      BY <3>1
  <2>. QED
    BY <2>1, <2>2, <2>3
<1>7. m > 0 /\ m < n
  BY <1>3, <1>5, <1>6
<1>8. ASSUME NEW p \in m .. 2 * m - 1, PowerOf2(p)
      PROVE  FALSE
  <2>1. p \in Nat /\ PowerOf2(2 * p)
    BY <1>8, PowerDoubles
  <2>2. n <= 2 * p /\ 2 * p <= 2 * n
    BY <1>6, <2>1
  <2>3. CASE p = n
    BY <1>3, <1>8, <2>3
  <2>4. CASE p # n
    <3>1. 2 * p \in n .. 2 * n - 1
      BY <1>3, <2>1, <2>2, <2>4
    <3>. QED
      BY <1>3, <2>1, <3>1
  <2>. QED
    BY <2>3, <2>4
<1>. QED
  BY <1>7, <1>8

\* The double of a power of two is at most the next power.
LEMMA NextPower ==
  \A p, q \in Nat : PowerOf2(p) /\ PowerOf2(q) /\ p < q => 2 * p <= q
<1>. DEFINE Bad == {p \in Nat : PowerOf2(p) /\ \E q \in Nat : PowerOf2(q) /\ p < q /\ q < 2 * p}
<1>1. SUFFICES Bad = {}
  OBVIOUS
<1>2. SUFFICES ASSUME NEW p \in Bad
               PROVE  \E a \in Bad : a < p
  BY LeastCounterexample
<1>3. p \in Nat /\ PowerOf2(p)
  OBVIOUS
<1>4. PICK q \in Nat : PowerOf2(q) /\ p < q /\ q < 2 * p
  OBVIOUS
<1>. HIDE DEF Bad
<1>5. p > 1 /\ q > 1
  BY <1>3, <1>4 DEF PowerOf2
<1>6. ASSUME NEW n \in Nat, PowerOf2(n), n > 1
      PROVE  \E a \in Nat : n = 2 * a /\ PowerOf2(a)
  <2>1. n \in 1 .. n /\ n % n = 0
    BY <1>6
  <2>2. n % 2 = 0
    BY <1>6, <2>1 DEF PowerOf2
  <2>3. n = 2 * (n \div 2) + (n % 2) /\ n \div 2 \in Nat
    OBVIOUS
  <2>4. n = 2 * (n \div 2)
    BY <2>2, <2>3
  <2>. QED
    BY <1>6, <2>3, <2>4, PowerHalves
<1>7. PICK a \in Nat : p = 2 * a /\ PowerOf2(a)
  BY <1>3, <1>5, <1>6
<1>8. PICK b \in Nat : q = 2 * b /\ PowerOf2(b)
  BY <1>4, <1>5, <1>6
<1>9. a < b /\ b < 2 * a /\ a < p
  BY <1>4, <1>5, <1>7, <1>8
<1>. QED
  BY <1>7, <1>8, <1>9 DEF Bad

\* round_capacity_up gives room for n tokens and stays within the largest chunk.
LEMMA RoundedUp ==
  ASSUME NEW n \in Nat, n > 0, n <= MAX_CHUNK_LENGTH
  PROVE  /\ RoundCapacityUp(n) \in Nat /\ n <= RoundCapacityUp(n)
         /\ PowerOf2(RoundCapacityUp(n)) /\ RoundCapacityUp(n) <= MAX_CHUNK_LENGTH
<1>1. CASE n <= 1
  <2>1. n = 1 /\ PowerOf2(1)
    BY <1>1 DEF PowerOf2
  <2>. QED
    BY <2>1 DEF RoundCapacityUp
<1>2. CASE n > 1
  <2>. DEFINE S == {p \in n .. 2 * n - 1 : PowerOf2(p)}
  <2>1. S \in SUBSET Nat /\ S # {}
    BY PowerBetween
  <2>2. Min(S) \in S /\ \A y \in S : Min(S) <= y
    BY <2>1, MinIsLeast
  <2>3. RoundCapacityUp(n) = Min(S)
    BY <1>2 DEF RoundCapacityUp
  <2>4. Min(S) \in n .. 2 * n - 1 /\ PowerOf2(Min(S))
    BY <2>2
  <2>5. Min(S) <= MAX_CHUNK_LENGTH
    <3>1. CASE MAX_CHUNK_LENGTH <= 2 * n - 1
      BY <2>2, <3>1, CapacityAssumption
    <3>2. CASE MAX_CHUNK_LENGTH > 2 * n - 1
      BY <2>4, <3>2, CapacityAssumption
    <3>. QED
      BY <3>1, <3>2, CapacityAssumption
  <2>. HIDE DEF S
  <2>. QED
    BY <2>3, <2>4, <2>5
<1>. QED
  BY <1>1, <1>2

-----------------------------------------------------------------------------
(* Chunks and the tokens in them *)

\* A bounded set of naturals has a greatest element.
LEMMA MaxIsGreatest ==
  ASSUME NEW n \in Nat, NEW S \in SUBSET (0 .. n), S # {}
  PROVE  Max(S) \in S /\ \A y \in S : y <= Max(S)
<1>. DEFINE T == {x \in 0 .. n : n - x \in S}
<1>1. T \in SUBSET Nat
  OBVIOUS
<1>2. T # {}
  <2>1. PICK y \in S : TRUE
    OBVIOUS
  <2>2. n - y \in 0 .. n /\ n - (n - y) = y
    OBVIOUS
  <2>. QED
    BY <2>2
<1>3. PICK x \in T : \A y \in T : ~(y < x)
  BY <1>1, <1>2, LeastCounterexample
<1>4. ASSUME NEW y \in S
      PROVE  y <= n - x
  <2>1. n - y \in 0 .. n /\ n - (n - y) = y /\ x \in 0 .. n
    OBVIOUS
  <2>2. n - y \in T
    BY <2>1
  <2>3. ~(n - y < x)
    BY <1>3, <2>2
  <2>. HIDE DEF T
  <2>4. y \in Nat /\ x \in Nat
    BY <2>1
  <2>. QED
    BY <2>3, <2>4
<1>5. n - x \in S
  OBVIOUS
<1>6. \E m \in S : \A y \in S : m >= y
  <2>1. \A y \in S : n - x >= y
    BY <1>4
  <2>. QED
    BY <1>5, <2>1
<1>7. Max(S) \in S /\ \A y \in S : Max(S) >= y
  BY <1>6 DEF Max
<1>. QED
  BY <1>7

\* The lower bound that kefir_token_buffer_at looks up.
LEMMA LowerBound ==
  ASSUME NEW ch, NEW i \in Nat, NEW k \in DOMAIN ch, DOMAIN ch \subseteq Nat, k <= i
  PROVE  LET g == Max({x \in DOMAIN ch : x <= i})
         IN g \in DOMAIN ch /\ g <= i /\ \A x \in DOMAIN ch : x <= i => x <= g
<1>. DEFINE S == {x \in DOMAIN ch : x <= i}
<1>1. S \in SUBSET (0 .. i) /\ S # {}
  OBVIOUS
<1>2. Max(S) \in S /\ \A y \in S : y <= Max(S)
  BY <1>1, MaxIsGreatest
<1>. QED
  BY <1>2

\* Every index from which the chunks tile is in a chunk.
LEMMA Covered ==
  ASSUME NEW ch, NEW len \in Nat, NEW from \in Nat, Tiled(ch, len, from),
         NEW i \in Nat, from <= i, i < len
  PROVE  \E k \in DOMAIN ch : from <= k /\ k <= i /\ i < EndOf(ch, k)
<1>1. from \in DOMAIN ch /\ DOMAIN ch \subseteq Nat
  BY DEF Tiled
<1>. DEFINE g == Max({x \in DOMAIN ch : x <= i})
<1>2. g \in DOMAIN ch /\ g <= i /\ \A x \in DOMAIN ch : x <= i => x <= g
  BY <1>1, LowerBound
<1>. HIDE DEF g
<1>3. g \in Nat /\ from <= g
  BY <1>1, <1>2
<1>4. GoodChunk(ch[g]) /\ EndOf(ch, g) \in DOMAIN ch \cup {len}
  BY <1>2, <1>3 DEF Tiled
<1>5. EndOf(ch, g) \in Nat /\ EndOf(ch, g) > g
  BY <1>3, <1>4 DEF EndOf, GoodChunk, Chunk
<1>6. i < EndOf(ch, g)
  BY <1>2, <1>3, <1>4, <1>5
<1>. QED
  BY <1>2, <1>3, <1>6

\* kefir_token_buffer_at reads the chunk that covers the index.
LEMMA AtCover ==
  ASSUME NEW ch, NEW len \in Nat, NEW from \in Nat, Tiled(ch, len, from),
         NEW i \in Nat, NEW k \in DOMAIN ch, from <= k, k <= i, i < EndOf(ch, k)
  PROVE  TokenAt(ch, i) = ch[k].content[i - k + 1]
<1>1. DOMAIN ch \subseteq Nat
  BY DEF Tiled
<1>. DEFINE g == Max({x \in DOMAIN ch : x <= i})
<1>2. g \in DOMAIN ch /\ g <= i /\ k <= g
  BY <1>1, LowerBound
<1>3. GoodChunk(ch[k]) /\ EndOf(ch, k) \in Nat
  BY <1>1 DEF Tiled, EndOf, GoodChunk, Chunk
<1>4. g = k
  <2>. HIDE DEF g
  <2>1. ~(k < g)
    BY <1>1, <1>2, <1>3 DEF Tiled
  <2>. QED
    BY <1>1, <1>2, <2>1
<1>. QED
  BY <1>4 DEF TokenAt

\* The two together: what is read at an index.
LEMMA AtIndex ==
  ASSUME NEW ch, NEW len \in Nat, NEW from \in Nat, Tiled(ch, len, from),
         NEW i \in Nat, from <= i, i < len
  PROVE  \E k \in DOMAIN ch :
           /\ k \in Nat /\ from <= k /\ k <= i /\ i < EndOf(ch, k) /\ GoodChunk(ch[k])
           /\ TokenAt(ch, i) = ch[k].content[i - k + 1]
           /\ TokenAt(ch, i) \in Token
<1>1. PICK k \in DOMAIN ch : from <= k /\ k <= i /\ i < EndOf(ch, k)
  BY Covered
<1>2. k \in Nat /\ GoodChunk(ch[k])
  BY <1>1 DEF Tiled
<1>3. TokenAt(ch, i) = ch[k].content[i - k + 1]
  BY <1>1, AtCover
<1>4. i - k + 1 \in 1 .. Len(ch[k].content) /\ ch[k].content \in Seq(Token)
  BY <1>1, <1>2 DEF GoodChunk, Chunk, EndOf
<1>5. ch[k].content[i - k + 1] \in Token
  BY <1>4
<1>. QED
  BY <1>1, <1>2, <1>3, <1>5

\* The same for a buffer whose chunks are all in place.
LEMMA AtWhole ==
  ASSUME NEW ch, NEW len \in Nat, Tiled(ch, len, 0), NEW i \in 0 .. len - 1
  PROVE  \E k \in DOMAIN ch : /\ k \in Nat /\ k <= i /\ i < EndOf(ch, k)
                             /\ TokenAt(ch, i) = ch[k].content[i - k + 1]
<1>1. 0 \in Nat /\ i \in Nat /\ 0 <= i /\ i < len
  OBVIOUS
<1>2. PICK k \in DOMAIN ch : /\ k \in Nat /\ 0 <= k /\ k <= i /\ i < EndOf(ch, k) /\ GoodChunk(ch[k])
                             /\ TokenAt(ch, i) = ch[k].content[i - k + 1]
                             /\ TokenAt(ch, i) \in Token
  BY <1>1, AtIndex, Zenon
<1>. QED
  BY <1>2

\* The last chunk ends at the length of the buffer.
LEMMA LastEnds ==
  ASSUME NEW ch, NEW len \in Nat, Tiled(ch, len, 0), DOMAIN ch # {}
  PROVE  /\ LastKey(ch) \in DOMAIN ch /\ LastKey(ch) \in Nat
         /\ \A k \in DOMAIN ch : k <= LastKey(ch)
         /\ GoodChunk(ch[LastKey(ch)]) /\ EndOf(ch, LastKey(ch)) = len
<1>1. DOMAIN ch \in SUBSET (0 .. len) /\ DOMAIN ch \subseteq Nat
  BY DEF Tiled
<1>2. LastKey(ch) \in DOMAIN ch /\ \A k \in DOMAIN ch : k <= LastKey(ch)
  BY <1>1, MaxIsGreatest DEF LastKey
<1>3. LastKey(ch) \in Nat /\ GoodChunk(ch[LastKey(ch)])
      /\ EndOf(ch, LastKey(ch)) \in DOMAIN ch \cup {len}
  BY <1>1, <1>2 DEF Tiled
<1>4. EndOf(ch, LastKey(ch)) > LastKey(ch)
  BY <1>3 DEF EndOf, GoodChunk, Chunk
<1>. QED
  BY <1>1, <1>2, <1>3, <1>4

-----------------------------------------------------------------------------
(* Longer buffers *)

\* The chunks ch2 hold the tokens of ch, a buffer of length len, and then those of s.
Appended(ch2, ch, len, s) ==
  /\ Tiled(ch2, len + Len(s), 0)
  /\ \A i \in 0 .. len - 1 : TokenAt(ch2, i) = TokenAt(ch, i)
  /\ \A i \in 1 .. Len(s) : TokenAt(ch2, len + i - 1) = s[i]

\* A chunk that is added at the end of a buffer: the tokens before it stay where
\* they are, and its own follow them.
LEMMA ChunkAdded ==
  ASSUME NEW ch, NEW len \in Nat, Tiled(ch, len, 0), NEW c, GoodChunk(c)
  PROVE  Appended(Put(ch, len, c), ch, len, c.content)
<1>. DEFINE n == Len(c.content)
            ch2 == Put(ch, len, c)
<1>1. n \in Nat /\ n > 0 /\ c \in Chunk
  BY DEF GoodChunk, Chunk
<1>2. DOMAIN ch \subseteq 0 .. len - 1 /\ len \notin DOMAIN ch
  BY DEF Tiled
<1>3. DOMAIN ch2 = DOMAIN ch \cup {len} /\ ch2[len] = c /\ \A k \in DOMAIN ch : ch2[k] = ch[k]
  BY <1>2 DEF Put
<1>4. EndOf(ch2, len) = len + n /\ \A k \in DOMAIN ch : EndOf(ch2, k) = EndOf(ch, k)
  BY <1>3 DEF EndOf
<1>5. Tiled(ch2, len + n, 0)
  <2>1. ch2 \in [DOMAIN ch2 -> Chunk]
    BY <1>1, <1>2 DEF Tiled, Put
  <2>2. DOMAIN ch2 \subseteq 0 .. len + n - 1
    BY <1>1, <1>2, <1>3
  <2>3. 0 \in DOMAIN ch2
    BY <1>3 DEF Tiled
  <2>4. ASSUME NEW k \in DOMAIN ch2
        PROVE  GoodChunk(ch2[k]) /\ EndOf(ch2, k) \in DOMAIN ch2 \cup {len + n}
    BY <1>2, <1>3, <1>4 DEF Tiled
  <2>5. ASSUME NEW j \in DOMAIN ch2, NEW k \in DOMAIN ch2, j < k
        PROVE  EndOf(ch2, j) <= k
    <3>1. j \in DOMAIN ch /\ j \in Nat
      BY <1>2, <1>3, <2>5
    <3>2. CASE k \in DOMAIN ch
      BY <1>4, <2>5, <3>1, <3>2 DEF Tiled
    <3>3. CASE k = len
      BY <1>2, <1>4, <3>1, <3>3 DEF Tiled
    <3>. QED
      BY <1>3, <3>2, <3>3
  <2>. QED
    BY <2>1, <2>2, <2>3, <2>4, <2>5 DEF Tiled
<1>. HIDE DEF ch2
<1>6. ASSUME NEW i \in 0 .. len - 1
      PROVE  TokenAt(ch2, i) = TokenAt(ch, i)
  <2>1. PICK k \in DOMAIN ch : /\ k \in Nat /\ k <= i /\ i < EndOf(ch, k)
                               /\ TokenAt(ch, i) = ch[k].content[i - k + 1]
    BY AtWhole
  <2>2. TokenAt(ch2, i) = ch2[k].content[i - k + 1]
    BY <1>1, <1>3, <1>4, <1>5, <2>1, AtCover
  <2>. QED
    BY <1>3, <2>1, <2>2
<1>7. ASSUME NEW i \in 1 .. n
      PROVE  TokenAt(ch2, len + i - 1) = c.content[i]
  <2>. DEFINE p == len + i - 1
  <2>1. p \in Nat /\ len <= p /\ p < EndOf(ch2, len) /\ p - len + 1 = i
    BY <1>1, <1>4
  <2>2. TokenAt(ch2, p) = ch2[len].content[p - len + 1]
    <3>. HIDE DEF p
    <3>1. /\ len \in Nat /\ len + n \in Nat /\ 0 \in Nat /\ 0 <= len /\ len \in DOMAIN ch2
          /\ Tiled(ch2, len + n, 0)
      BY <1>1, <1>3, <1>5
    <3>. QED
      BY <2>1, <3>1, AtCover
  <2>. QED
    BY <1>3, <2>1, <2>2
<1>. QED
  BY <1>5, <1>6, <1>7 DEF ch2, Appended

\* The sequence r is q followed by s.
IsConcat(r, q, s) ==
  /\ s \in Seq(Token) /\ Len(r) = Len(q) + Len(s)
  /\ \A i \in 1 .. Len(q) : r[i] = q[i]
  /\ \A i \in 1 .. Len(s) : r[Len(q) + i] = s[i]

\* Concatenation gives it.
LEMMA ConcatIs ==
  ASSUME NEW q \in Seq(Token), NEW s \in Seq(Token)
  PROVE  q \o s \in Seq(Token) /\ IsConcat(q \o s, q, s)
<1>1. q \o s \in Seq(Token) /\ Len(q \o s) = Len(q) + Len(s) /\ Len(q) \in Nat /\ Len(s) \in Nat
  OBVIOUS
<1>2. \A i \in 1 .. Len(q) : (q \o s)[i] = q[i]
  OBVIOUS
<1>3. ASSUME NEW i \in 1 .. Len(s)
      PROVE  (q \o s)[Len(q) + i] = s[i]
  <2>1. Len(q) + i \in 1 .. Len(q) + Len(s) /\ ~(Len(q) + i <= Len(q)) /\ Len(q) + i - Len(q) = i
    BY <1>1
  <2>. QED
    BY <1>1, <2>1
<1>. QED
  BY <1>1, <1>2, <1>3 DEF IsConcat

\* A last chunk that grows: the tokens stay where they are, and the new ones follow.
LEMMA LastExtended ==
  ASSUME NEW ch, NEW len \in Nat, Tiled(ch, len, 0), DOMAIN ch # {},
         NEW c, GoodChunk(c), NEW s, IsConcat(c.content, ch[LastKey(ch)].content, s)
  PROVE  Appended(Put(ch, LastKey(ch), c), ch, len, s)
<1>. DEFINE last == LastKey(ch)
            ch2 == Put(ch, last, c)
            n == Len(ch[last].content)
            m == Len(s)
<1>1. /\ last \in DOMAIN ch /\ last \in Nat /\ n \in Nat /\ last + n = len
      /\ \A k \in DOMAIN ch : k <= last
  BY LastEnds DEF GoodChunk, Chunk, EndOf
<1>2. DOMAIN ch2 = DOMAIN ch /\ ch2[last] = c /\ \A k \in DOMAIN ch : k # last => ch2[k] = ch[k]
  BY <1>1 DEF Put
<1>4. /\ Len(c.content) = n + m /\ m \in Nat
      /\ \A i \in 1 .. n : c.content[i] = ch[last].content[i]
      /\ \A i \in 1 .. m : c.content[n + i] = s[i]
  BY DEF IsConcat
<1>. HIDE DEF m
<1>3. EndOf(ch2, last) = len + m /\ \A k \in DOMAIN ch : k # last => EndOf(ch2, k) = EndOf(ch, k)
  <2>. HIDE DEF ch2, last, n
  <2>1. EndOf(ch2, last) = last + (n + m)
    BY <1>2, <1>4 DEF EndOf
  <2>2. last + (n + m) = len + m
    BY <1>1, <1>4
  <2>3. \A k \in DOMAIN ch : k # last => EndOf(ch2, k) = EndOf(ch, k)
    BY <1>2 DEF EndOf
  <2>. QED
    BY <2>1, <2>2, <2>3
<1>5. DOMAIN ch \subseteq Nat
  BY DEF Tiled
<1>6. ASSUME NEW k \in DOMAIN ch, k # last
      PROVE  GoodChunk(ch[k]) /\ EndOf(ch, k) \in DOMAIN ch /\ EndOf(ch, k) <= last
  <2>. HIDE DEF last
  <2>1. k \in Nat /\ k < last
    BY <1>1, <1>5, <1>6
  <2>2. EndOf(ch, k) <= last /\ GoodChunk(ch[k]) /\ EndOf(ch, k) \in DOMAIN ch \cup {len}
    BY <1>1, <2>1 DEF Tiled
  <2>3. last < len
    BY <1>1 DEF Tiled
  <2>. QED
    BY <1>1, <1>5, <2>2, <2>3
<1>7. Tiled(ch2, len + m, 0)
  <2>1. ch2 \in [DOMAIN ch2 -> Chunk]
    BY <1>1 DEF Tiled, Put, GoodChunk
  <2>. HIDE DEF ch2, last, n
  <2>2. DOMAIN ch2 \subseteq 0 .. len + m - 1
    BY <1>2, <1>4 DEF Tiled
  <2>3. 0 \in DOMAIN ch2
    BY <1>1, <1>2 DEF Tiled
  <2>4. ASSUME NEW k \in DOMAIN ch2
        PROVE  GoodChunk(ch2[k]) /\ EndOf(ch2, k) \in DOMAIN ch2 \cup {len + m}
    BY <1>2, <1>3, <1>6
  <2>5. ASSUME NEW j \in DOMAIN ch2, NEW k \in DOMAIN ch2, j < k
        PROVE  EndOf(ch2, j) <= k
    <3>1. j # last
      BY <1>1, <1>2, <1>5, <2>5
    <3>. QED
      BY <1>2, <1>3, <1>5, <2>5, <3>1 DEF Tiled
  <2>. QED
    BY <1>4, <2>1, <2>2, <2>3, <2>4, <2>5 DEF Tiled
<1>. HIDE DEF ch2
<1>8. ASSUME NEW i \in 0 .. len - 1
      PROVE  TokenAt(ch2, i) = TokenAt(ch, i)
  <2>1. PICK k \in DOMAIN ch : /\ k \in Nat /\ k <= i /\ i < EndOf(ch, k)
                               /\ TokenAt(ch, i) = ch[k].content[i - k + 1]
    BY AtWhole
  <2>. HIDE DEF last, n
  <2>3. TokenAt(ch2, i) = ch2[k].content[i - k + 1]
    <3>1. i < EndOf(ch2, k)
      <4>1. CASE k = last
        BY <1>3, <1>4, <4>1
      <4>2. CASE k # last
        BY <1>3, <2>1, <4>2
      <4>. QED
        BY <4>1, <4>2
    <3>. QED
      BY <1>2, <1>4, <1>7, <2>1, <3>1, AtCover
  <2>4. ch2[k].content[i - k + 1] = ch[k].content[i - k + 1]
    <3>1. CASE k = last
      <4>1. i - k + 1 \in 1 .. n
        BY <1>1, <2>1, <3>1
      <4>. QED
        BY <1>2, <1>4, <3>1, <4>1
    <3>2. CASE k # last
      BY <1>2, <3>2
    <3>. QED
      BY <3>1, <3>2
  <2>. QED
    BY <2>1, <2>3, <2>4
<1>9. ASSUME NEW i \in 1 .. m
      PROVE  TokenAt(ch2, len + i - 1) = s[i]
  <2>. DEFINE p == len + i - 1
  <2>. HIDE DEF last, n
  <2>1. p \in Nat /\ last <= p /\ p < EndOf(ch2, last) /\ p - last + 1 = n + i
    <3>1. last \in Nat /\ n \in Nat /\ last + n = len /\ EndOf(ch2, last) = len + m /\ m \in Nat
      BY <1>1, <1>3, <1>4
    <3>2. p \in Nat /\ last <= p /\ p < len + m
      BY <3>1
    <3>3. p - last + 1 = n + i
      BY <3>1
    <3>. QED
      BY <3>1, <3>2, <3>3
  <2>2. TokenAt(ch2, p) = ch2[last].content[p - last + 1]
    <3>. HIDE DEF p
    <3>. QED
      BY <1>1, <1>2, <1>4, <1>7, <2>1, AtCover
  <2>. QED
    BY <1>2, <1>4, <2>1, <2>2
<1>. QED
  BY <1>7, <1>8, <1>9 DEF ch2, Appended, m

\* The greatest element, when it is known.
LEMMA MaxIs ==
  ASSUME NEW S \in SUBSET Nat, NEW x \in S, \A y \in S : y <= x
  PROVE  Max(S) = x
<1>1. \A z \in S : (\A y \in S : z >= y) => z = x
  OBVIOUS
<1>2. \A y \in S : x >= y
  OBVIOUS
<1>. QED
  BY <1>1, <1>2 DEF Max

\* kefir_token_buffer_emplace: one more token at the end, in a chunk that has room
\* for it.
LEMMA EmplacedTiled ==
  ASSUME NEW ch, NEW len \in Nat, Tiled(ch, len, 0), NEW t \in Token
  PROVE  Appended(Emplaced(ch, len, t), ch, len, <<t>>)
<1>. DEFINE ch2 == Emplaced(ch, len, t)
            room == EnsureCapacity(ch, len)
<1>1. DOMAIN ch \subseteq 0 .. len - 1 /\ DOMAIN ch \subseteq Nat /\ len \notin DOMAIN ch
  BY DEF Tiled
<1>2. CASE NeedsChunk(ch)
  <2>. DEFINE c0 == [capacity |-> INIT_CHUNK_CAPACITY, content |-> <<>>]
              c == [capacity |-> INIT_CHUNK_CAPACITY, content |-> <<t>>]
  <2>1. room = Put(ch, len, c0)
    BY <1>2 DEF EnsureCapacity
  <2>2. DOMAIN room = DOMAIN ch \cup {len} /\ room[len] = c0
    BY <2>1 DEF Put
  <2>3. LastKey(room) = len
    <3>1. DOMAIN room \in SUBSET Nat /\ len \in DOMAIN room /\ \A y \in DOMAIN room : y <= len
      BY <1>1, <2>2
    <3>. QED
      BY <3>1, MaxIs DEF LastKey
  <2>4. ch2 = [room EXCEPT ![len] = c]
    <3>1. [room[len] EXCEPT !.content = Append(@, t)] = c
      <4>1. Append(<<>>, t) = <<t>>
        OBVIOUS
      <4>. QED
        BY <2>2, <4>1
    <3>. HIDE DEF c, c0, room
    <3>2. ch2 = [room EXCEPT ![len] = [room[len] EXCEPT !.content = Append(@, t)]]
      BY <2>3 DEF Emplaced, room
    <3>. QED
      BY <3>1, <3>2
  <2>5. ch2 = Put(ch, len, c)
    <3>. HIDE DEF c, c0
    <3>. QED
      BY <2>1, <2>4 DEF Put
  <2>6. GoodChunk(c) /\ c.content = <<t>>
    BY CapacityAssumption DEF GoodChunk, Chunk, PowerOf2
  <2>. HIDE DEF c, ch2
  <2>7. Appended(Put(ch, len, c), ch, len, c.content)
    BY <2>6, ChunkAdded
  <2>. QED
    BY <2>5, <2>6, <2>7 DEF ch2
<1>3. CASE ~NeedsChunk(ch)
  <2>. DEFINE last == LastKey(ch)
              old == ch[last]
              c0 == Grown(old)
              c == [c0 EXCEPT !.content = Append(@, t)]
              n == Len(old.content)
  <2>1. DOMAIN ch # {} /\ n < MAX_CHUNK_LENGTH
    <3>1. DOMAIN ch # {} /\ ~(n >= MAX_CHUNK_LENGTH)
      BY <1>3 DEF NeedsChunk
    <3>2. n \in Nat
      BY <3>1, LastEnds DEF GoodChunk, Chunk
    <3>. QED
      BY <3>1, <3>2, CapacityAssumption
  <2>2. last \in DOMAIN ch /\ (\A k \in DOMAIN ch : k <= last) /\ GoodChunk(old)
    BY <2>1, LastEnds
  <2>3. room = Put(ch, last, c0)
    BY <1>3 DEF EnsureCapacity
  <2>4. DOMAIN room = DOMAIN ch /\ room[last] = c0
    <3>. HIDE DEF c0, last
    <3>. QED
      BY <2>2, <2>3 DEF Put
  <2>5. LastKey(room) = last
    BY <2>4 DEF LastKey
  <2>6. /\ c0 \in Chunk /\ c0.content = old.content /\ n < c0.capacity
        /\ PowerOf2(c0.capacity) /\ c0.capacity <= MAX_CHUNK_LENGTH
    <3>. HIDE DEF last
    <3>1. old \in Chunk /\ n \in Nat /\ n <= old.capacity /\ old.capacity \in Nat
          /\ PowerOf2(old.capacity) /\ old.capacity <= MAX_CHUNK_LENGTH /\ n > 0
      BY <2>2 DEF GoodChunk, Chunk
    <3>2. CASE n = old.capacity
      <4>1. c0 = [old EXCEPT !.capacity = 2 * n]
        BY <3>1, <3>2 DEF Grown
      <4>2. PowerOf2(2 * n) /\ 2 * n <= MAX_CHUNK_LENGTH
        BY <2>1, <3>1, <3>2, PowerDoubles, NextPower, CapacityAssumption
      <4>3. 2 * n \in Nat /\ n < 2 * n
        BY <3>1
      <4>. HIDE DEF old, n, c0
      <4>4. c0 \in Chunk /\ c0.content = old.content /\ c0.capacity = 2 * n
        BY <3>1, <4>1, <4>3 DEF Chunk
      <4>. QED
        BY <4>2, <4>3, <4>4
    <3>3. CASE n # old.capacity
      <4>1. c0 = old
        BY <3>3 DEF Grown
      <4>. HIDE DEF c0, n, old
      <4>. QED
        BY <3>1, <3>3, <4>1
    <3>. QED
      BY <3>2, <3>3
  <2>. HIDE DEF c0, last
  <2>7. ch2 = Put(ch, last, c)
    <3>1. ch2 = [room EXCEPT ![last] = c]
      <4>. HIDE DEF room
      <4>. QED
        BY <2>4, <2>5 DEF Emplaced, room
    <3>. HIDE DEF c
    <3>. QED
      BY <2>3, <3>1 DEF Put
  <2>8. GoodChunk(c) /\ IsConcat(c.content, old.content, <<t>>)
    <3>1. old.content \in Seq(Token) /\ n \in Nat
      BY <2>2 DEF GoodChunk, Chunk
    <3>. HIDE DEF n
    <3>2. c.content = Append(old.content, t) /\ c.capacity = c0.capacity /\ c \in Chunk
      <4>. HIDE DEF old
      <4>1. c0 \in Chunk /\ c0.content = old.content /\ Append(old.content, t) \in Seq(Token)
        BY <2>6, <3>1
      <4>. QED
        BY <4>1 DEF Chunk
    <3>3. IsConcat(Append(old.content, t), old.content, <<t>>) /\ Len(Append(old.content, t)) = n + 1
      BY <3>1 DEF n, IsConcat
    <3>4. c0.capacity \in Nat
      BY <2>6 DEF Chunk
    <3>. HIDE DEF old, c
    <3>. QED
      BY <2>6, <3>1, <3>2, <3>3, <3>4 DEF GoodChunk
  <2>. HIDE DEF c, ch2
  <2>9. Appended(Put(ch, last, c), ch, len, <<t>>)
    BY <2>1, <2>8, LastExtended DEF last
  <2>. QED
    BY <2>7, <2>9 DEF ch2
<1>. QED
  BY <1>2, <1>3

\* kefir_token_buffer_insert, one chunk: its tokens follow those of the destination,
\* whether it is merged into the last chunk or gets a node of its own.
LEMMA MovedTiled ==
  ASSUME NEW ch, NEW len \in Nat, Tiled(ch, len, 0), NEW c, GoodChunk(c)
  PROVE  Appended(Moved(ch, len, c), ch, len, c.content)
<1>. DEFINE n == Len(c.content)
<1>1. n \in Nat /\ n > 0 /\ c \in Chunk /\ c.content \in Seq(Token) /\ n <= c.capacity
      /\ c.capacity \in Nat /\ c.capacity <= MAX_CHUNK_LENGTH
  BY DEF GoodChunk, Chunk
<1>. HIDE DEF n
<1>2. CASE Mergeable(ch, c)
  <2>. DEFINE old == ch[LastKey(ch)]
              m == Len(old.content)
              e == Merged(old, c)
  <2>1. DOMAIN ch # {} /\ m + n < MAX_CHUNK_LENGTH
    BY <1>2 DEF Mergeable, Fits, n
  <2>2. GoodChunk(old) /\ m \in Nat /\ old.content \in Seq(Token) /\ old.capacity \in Nat
    BY <2>1, LastEnds DEF GoodChunk, Chunk
  <2>. HIDE DEF old
  <2>3. IsConcat(old.content \o c.content, old.content, c.content)
        /\ old.content \o c.content \in Seq(Token)
    BY <1>1, <2>2, ConcatIs
  <2>4. e.content = old.content \o c.content
        /\ e.capacity = IF m + n > old.capacity THEN RoundCapacityUp(m + n) ELSE old.capacity
    BY DEF Merged, n
  <2>5. e.capacity \in Nat /\ m + n <= e.capacity /\ PowerOf2(e.capacity)
        /\ e.capacity <= MAX_CHUNK_LENGTH
    <3>. HIDE DEF e, m
    <3>1. m + n \in Nat /\ m + n > 0 /\ m + n <= MAX_CHUNK_LENGTH
      BY <1>1, <2>1, <2>2, CapacityAssumption
    <3>2. CASE m + n > old.capacity
      BY <2>4, <3>1, <3>2, RoundedUp
    <3>3. CASE ~(m + n > old.capacity)
      <4>1. e.capacity = old.capacity
        BY <2>4, <3>3
      <4>. QED
        BY <2>2, <3>1, <3>3, <4>1 DEF GoodChunk
    <3>. QED
      BY <3>2, <3>3
  <2>6. e \in Chunk
    <3>1. e = [capacity |-> e.capacity, content |-> e.content]
      BY DEF Merged
    <3>. HIDE DEF e
    <3>. QED
      BY <2>3, <2>4, <2>5, <3>1 DEF Chunk
  <2>7. Len(e.content) = m + n
    <3>. HIDE DEF e
    <3>. QED
      BY <2>3, <2>4 DEF IsConcat, n
  <2>8. GoodChunk(e)
    <3>. HIDE DEF e, m
    <3>. QED
      BY <1>1, <2>2, <2>5, <2>6, <2>7 DEF GoodChunk
  <2>9. Moved(ch, len, c) = Put(ch, LastKey(ch), e)
    BY <1>2 DEF Moved, old
  <2>. HIDE DEF e
  <2>10. IsConcat(e.content, ch[LastKey(ch)].content, c.content)
    BY <2>3, <2>4 DEF old
  <2>11. Appended(Put(ch, LastKey(ch), e), ch, len, c.content)
    BY <2>1, <2>8, <2>10, LastExtended
  <2>. QED
    BY <2>9, <2>11
<1>3. CASE ~Mergeable(ch, c)
  <2>. DEFINE e == Shrunk(c)
  <2>1. e.content = c.content /\ e.capacity = RoundCapacityUp(n)
        /\ e = [capacity |-> e.capacity, content |-> e.content]
    BY <1>1 DEF Shrunk, Chunk, n
  <2>. HIDE DEF e
  <2>2. e.capacity \in Nat /\ n <= e.capacity /\ PowerOf2(e.capacity) /\ e.capacity <= MAX_CHUNK_LENGTH
    BY <1>1, <2>1, RoundedUp, CapacityAssumption
  <2>3. GoodChunk(e)
    BY <1>1, <2>1, <2>2 DEF GoodChunk, Chunk, n
  <2>4. Moved(ch, len, c) = Put(ch, len, e)
    BY <1>3 DEF Moved, e
  <2>5. Appended(Put(ch, len, e), ch, len, e.content)
    BY <2>3, ChunkAdded
  <2>. QED
    BY <2>1, <2>4, <2>5
<1>. QED
  BY <1>2, <1>3

-----------------------------------------------------------------------------
(* Shorter buffers *)

\* kefir_token_buffer_pop: the last token goes, and its chunk when it was the only one.
LEMMA PoppedTiled ==
  ASSUME NEW ch, NEW len \in Nat, Tiled(ch, len, 0), len > 0
  PROVE  /\ Tiled(Popped(ch), len - 1, 0)
         /\ \A i \in 0 .. len - 2 : TokenAt(Popped(ch), i) = TokenAt(ch, i)
<1>. DEFINE last == LastKey(ch)
            n == Len(ch[last].content)
            ch2 == Popped(ch)
<1>1. DOMAIN ch # {} /\ 0 \in DOMAIN ch
  BY DEF Tiled
<1>2. /\ last \in DOMAIN ch /\ last \in Nat /\ n \in Nat /\ n > 0 /\ last + n = len
      /\ ch[last].content \in Seq(Token) /\ ch[last] \in Chunk /\ GoodChunk(ch[last])
      /\ \A k \in DOMAIN ch : k <= last
  BY <1>1, LastEnds DEF GoodChunk, Chunk, EndOf
<1>3. DOMAIN ch \subseteq 0 .. len - 1 /\ DOMAIN ch \subseteq Nat
  BY DEF Tiled
<1>4. ASSUME NEW k \in DOMAIN ch, k # last
      PROVE  GoodChunk(ch[k]) /\ EndOf(ch, k) \in DOMAIN ch /\ EndOf(ch, k) <= last
  <2>. HIDE DEF last
  <2>1. k \in Nat /\ k < last
    BY <1>2, <1>3, <1>4
  <2>2. EndOf(ch, k) <= last /\ GoodChunk(ch[k]) /\ EndOf(ch, k) \in DOMAIN ch \cup {len}
    BY <1>2, <2>1 DEF Tiled
  <2>. QED
    BY <1>2, <1>3, <2>2
<1>5. CASE n = 1
  <2>1. ch2 = [x \in DOMAIN ch \ {last} |-> ch[x]]
    BY <1>2, <1>5 DEF Popped
  <2>2. DOMAIN ch2 = DOMAIN ch \ {last} /\ \A k \in DOMAIN ch2 : ch2[k] = ch[k] /\ EndOf(ch2, k) = EndOf(ch, k)
    BY <2>1 DEF EndOf
  <2>3. last = len - 1
    BY <1>2, <1>5
  <2>4. Tiled(ch2, len - 1, 0)
    <3>1. ch2 \in [DOMAIN ch2 -> Chunk]
      BY <2>1 DEF Tiled
    <3>. HIDE DEF ch2, last, n
    <3>2. DOMAIN ch2 \subseteq 0 .. (len - 1) - 1
      BY <1>2, <1>3, <2>2, <2>3
    <3>3. 0 \in DOMAIN ch2 \cup {len - 1}
      BY <1>1, <2>2, <2>3
    <3>4. ASSUME NEW k \in DOMAIN ch2
          PROVE  GoodChunk(ch2[k]) /\ EndOf(ch2, k) \in DOMAIN ch2 \cup {len - 1}
      BY <1>4, <2>2, <2>3
    <3>5. ASSUME NEW j \in DOMAIN ch2, NEW k \in DOMAIN ch2, j < k
          PROVE  EndOf(ch2, j) <= k
      BY <1>3, <2>2, <3>5 DEF Tiled
    <3>. QED
      BY <3>1, <3>2, <3>3, <3>4, <3>5 DEF Tiled
  <2>5. ASSUME NEW i \in 0 .. len - 2
        PROVE  TokenAt(ch2, i) = TokenAt(ch, i)
    <3>1. PICK k \in DOMAIN ch : /\ k \in Nat /\ k <= i /\ i < EndOf(ch, k)
                                 /\ TokenAt(ch, i) = ch[k].content[i - k + 1]
      <4>1. i \in 0 .. len - 1
        OBVIOUS
      <4>. QED
        BY <4>1, AtWhole
    <3>2. k \in DOMAIN ch2 /\ len - 1 \in Nat
      BY <2>2, <2>3, <3>1
    <3>. HIDE DEF ch2
    <3>3. TokenAt(ch2, i) = ch2[k].content[i - k + 1]
      BY <2>2, <2>4, <3>1, <3>2, AtCover
    <3>. QED
      BY <2>2, <3>1, <3>2, <3>3
  <2>. QED
    BY <2>4, <2>5
<1>6. CASE n # 1
  <2>. DEFINE r == SubSeq(ch[last].content, 1, n - 1)
              c == [ch[last] EXCEPT !.content = r]
  <2>1. r \in Seq(Token) /\ Len(r) = n - 1 /\ \A i \in 1 .. n - 1 : r[i] = ch[last].content[i]
    BY <1>2
  <2>2. ch2 = [ch EXCEPT ![last] = c]
    BY <1>2, <1>6 DEF Popped
  <2>. HIDE DEF r
  <2>3. c.content = r /\ c.capacity = ch[last].capacity /\ c \in Chunk
    BY <1>2, <2>1 DEF Chunk
  <2>4. GoodChunk(c)
    <3>. HIDE DEF c, n, last
    <3>1. c.capacity \in Nat /\ n <= c.capacity /\ PowerOf2(c.capacity) /\ c.capacity <= MAX_CHUNK_LENGTH
      BY <1>2, <2>3 DEF GoodChunk, Chunk, n
    <3>2. Len(c.content) = n - 1
      BY <2>1, <2>3
    <3>. QED
      BY <1>2, <1>6, <2>3, <3>1, <3>2 DEF GoodChunk
  <2>. HIDE DEF c
  <2>5. ch2 \in [DOMAIN ch -> Chunk]
    BY <2>2, <2>3 DEF Tiled
  <2>6. /\ DOMAIN ch2 = DOMAIN ch /\ ch2[last] = c
        /\ \A k \in DOMAIN ch : k # last => ch2[k] = ch[k]
    BY <1>2, <2>2
  <2>. HIDE DEF ch2, last, n
  <2>7. EndOf(ch2, last) = len - 1 /\ \A k \in DOMAIN ch : k # last => EndOf(ch2, k) = EndOf(ch, k)
    <3>1. EndOf(ch2, last) = last + (n - 1)
      BY <2>1, <2>3, <2>6 DEF EndOf
    <3>. QED
      BY <1>2, <2>6, <3>1 DEF EndOf
  <2>8. last < len - 1
    BY <1>2, <1>6
  <2>9. Tiled(ch2, len - 1, 0)
    <3>2. DOMAIN ch2 \subseteq 0 .. (len - 1) - 1
      BY <1>2, <1>3, <2>6, <2>8
    <3>3. 0 \in DOMAIN ch2
      BY <1>1, <2>6
    <3>4. ASSUME NEW k \in DOMAIN ch2
          PROVE  GoodChunk(ch2[k]) /\ EndOf(ch2, k) \in DOMAIN ch2 \cup {len - 1}
      BY <1>4, <2>4, <2>6, <2>7
    <3>5. ASSUME NEW j \in DOMAIN ch2, NEW k \in DOMAIN ch2, j < k
          PROVE  EndOf(ch2, j) <= k
      <4>1. j # last
        BY <1>2, <1>3, <2>6, <3>5
      <4>. QED
        BY <1>3, <2>6, <2>7, <3>5, <4>1 DEF Tiled
    <3>. QED
      BY <2>5, <2>6, <3>2, <3>3, <3>4, <3>5 DEF Tiled
  <2>10. ASSUME NEW i \in 0 .. len - 2
         PROVE  TokenAt(ch2, i) = TokenAt(ch, i)
    <3>1. PICK k \in DOMAIN ch : /\ k \in Nat /\ k <= i /\ i < EndOf(ch, k)
                                 /\ TokenAt(ch, i) = ch[k].content[i - k + 1]
      <4>1. i \in 0 .. len - 1
        OBVIOUS
      <4>. QED
        BY <4>1, AtWhole
    <3>2. i < EndOf(ch2, k) /\ len - 1 \in Nat
      BY <2>7, <3>1
    <3>3. TokenAt(ch2, i) = ch2[k].content[i - k + 1]
      BY <2>6, <2>9, <3>1, <3>2, AtCover
    <3>4. ch2[k].content[i - k + 1] = ch[k].content[i - k + 1]
      <4>1. CASE k = last
        <5>1. i - k + 1 \in 1 .. n - 1
          BY <1>2, <3>1, <4>1
        <5>. QED
          BY <2>1, <2>3, <2>6, <4>1, <5>1
      <4>2. CASE k # last
        BY <2>6, <4>2
      <4>. QED
        BY <4>1, <4>2
    <3>. QED
      BY <3>1, <3>3, <3>4
  <2>. QED
    BY <2>9, <2>10 DEF ch2
<1>. QED
  BY <1>5, <1>6

-----------------------------------------------------------------------------
(* The inductive invariant *)

BufferType ==
  /\ chunks = [b \in Buffer |-> chunks[b]]
  /\ length \in [Buffer -> Nat]
  /\ spoiled \subseteq Buffer

\* Two buffers take part in an operation.
Pair ==
  /\ bufferOp.dst \in Buffer \ spoiled /\ bufferOp.src \in Buffer \ spoiled
  /\ bufferOp.dst # bufferOp.src
  /\ bufferOp.before \in Nat /\ bufferOp.before <= length[bufferOp.dst]
  /\ Arrived <= length[bufferOp.src]

\* A copy in progress: the tokens that arrived are the first ones of the source.
CopyInv ==
  /\ bufferOp = [what |-> "copy", dst |-> bufferOp.dst, src |-> bufferOp.src, before |-> bufferOp.before]
  /\ Pair
  /\ \A i \in 1 .. Arrived :
       TokenAt(chunks[bufferOp.dst], bufferOp.before + i - 1) = TokenAt(chunks[bufferOp.src], i - 1)

\* An insertion in progress: the chunks that remain are those from the index on that
\* the tokens that arrived have reached.
InsertInv ==
  /\ bufferOp = [what |-> "insert", dst |-> bufferOp.dst, src |-> bufferOp.src,
                 next |-> bufferOp.next, before |-> bufferOp.before]
  /\ Pair
  /\ Tiled(chunks[bufferOp.src], length[bufferOp.src], Arrived)
  /\ bufferOp.next = {k \in DOMAIN chunks[bufferOp.src] : k >= Arrived}

BufferInv ==
  /\ BufferType
  /\ \A b \in Whole : Tiled(chunks[b], length[b], 0)
  /\ bufferOp = NoOp \/ CopyInv \/ InsertInv

\* A chunk of the source that was moved: the tokens behind it stay where they are.
LEMMA SourceTiled ==
  ASSUME NEW ch, NEW len \in Nat, NEW m \in Nat, Tiled(ch, len, m), m \in DOMAIN ch
  PROVE  LET ch2 == [ch EXCEPT ![m] = NoChunk]
         IN /\ EndOf(ch, m) \in Nat /\ m < EndOf(ch, m) /\ EndOf(ch, m) <= len
            /\ GoodChunk(ch[m])
            /\ Tiled(ch2, len, EndOf(ch, m))
            /\ \A i \in EndOf(ch, m) .. len - 1 : TokenAt(ch2, i) = TokenAt(ch, i)
            /\ \A k \in DOMAIN ch : k >= m /\ k # m <=> k >= EndOf(ch, m)
<1>. DEFINE ch2 == [ch EXCEPT ![m] = NoChunk]
            e == EndOf(ch, m)
<1>1. GoodChunk(ch[m]) /\ e \in DOMAIN ch \cup {len} /\ DOMAIN ch \subseteq 0 .. len - 1
  BY DEF Tiled
<1>2. e \in Nat /\ m < e /\ e <= len
  BY <1>1 DEF GoodChunk, Chunk, EndOf
<1>3. /\ DOMAIN ch2 = DOMAIN ch
      /\ \A k \in DOMAIN ch : k # m => ch2[k] = ch[k] /\ EndOf(ch2, k) = EndOf(ch, k)
  BY DEF EndOf
<1>4. NoChunk \in Chunk
  BY DEF NoChunk, Chunk
<1>5. ch2 \in [DOMAIN ch2 -> Chunk]
  BY <1>4 DEF Tiled
<1>. HIDE DEF ch2, e
<1>6. Tiled(ch2, len, e)
  <2>1. ASSUME NEW k \in DOMAIN ch2, k >= e
        PROVE  GoodChunk(ch2[k]) /\ EndOf(ch2, k) \in DOMAIN ch2 \cup {len}
    <3>1. k \in Nat /\ k > m
      BY <1>1, <1>2, <1>3, <2>1
    <3>. QED
      BY <1>3, <3>1 DEF Tiled
  <2>2. ASSUME NEW j \in DOMAIN ch2, NEW k \in DOMAIN ch2, e <= j, j < k
        PROVE  EndOf(ch2, j) <= k
    <3>1. j \in Nat /\ j > m
      BY <1>1, <1>2, <1>3, <2>2
    <3>. QED
      BY <1>3, <2>2, <3>1 DEF Tiled
  <2>. QED
    BY <1>1, <1>3, <1>5, <2>1, <2>2 DEF Tiled
<1>7. ASSUME NEW i \in e .. len - 1
      PROVE  TokenAt(ch2, i) = TokenAt(ch, i)
  <2>1. i \in Nat /\ m <= i /\ e <= i /\ i < len
    BY <1>2
  <2>2. PICK k \in DOMAIN ch2 : k \in Nat /\ e <= k /\ k <= i /\ i < EndOf(ch2, k)
                                /\ TokenAt(ch2, i) = ch2[k].content[i - k + 1]
    BY <1>2, <1>6, <2>1, AtIndex
  <2>3. k \in DOMAIN ch /\ k # m /\ m <= k
    BY <1>2, <1>3, <2>2
  <2>4. ch2[k] = ch[k] /\ EndOf(ch2, k) = EndOf(ch, k)
    BY <1>3, <2>3
  <2>5. TokenAt(ch, i) = ch[k].content[i - k + 1]
    BY <2>1, <2>2, <2>3, <2>4, AtCover
  <2>. QED
    BY <2>2, <2>4, <2>5
<1>8. ASSUME NEW k \in DOMAIN ch
      PROVE  k >= m /\ k # m <=> k >= e
  <2>1. k \in Nat
    BY <1>1
  <2>2. m < k => e <= k
    BY DEF Tiled, e
  <2>. QED
    BY <1>2, <2>1, <2>2
<1>. QED
  BY <1>1, <1>2, <1>6, <1>7, <1>8 DEF ch2, e

-----------------------------------------------------------------------------
(* Sequences of tokens *)

\* Sequences are equal when they agree everywhere.
LEMMA SequencesEqual ==
  ASSUME NEW p \in Seq(Token), NEW q \in Seq(Token), Len(p) = Len(q),
         \A i \in 1 .. Len(p) : p[i] = q[i]
  PROVE  p = q
  OBVIOUS

\* A function on 1 .. n with tokens as values is a sequence.
LEMMA FunctionIsSequence ==
  ASSUME NEW n \in Nat, NEW f \in [1 .. n -> Token]
  PROVE  f \in Seq(Token) /\ Len(f) = n
  OBVIOUS

\* What can be read from a buffer is a sequence of tokens.
LEMMA TokensType ==
  ASSUME NEW ch, NEW len \in Nat, Tiled(ch, len, 0), NEW n \in Nat, n <= len
  PROVE  /\ Tokens(ch, n) \in Seq(Token) /\ Len(Tokens(ch, n)) = n
         /\ \A i \in 1 .. n : Tokens(ch, n)[i] = TokenAt(ch, i - 1)
<1>1. ASSUME NEW i \in 1 .. n
      PROVE  TokenAt(ch, i - 1) \in Token
  <2>1. i - 1 \in Nat /\ 0 <= i - 1 /\ i - 1 < len /\ 0 \in Nat
    OBVIOUS
  <2>. QED
    BY <2>1, AtIndex
<1>2. Tokens(ch, n) \in [1 .. n -> Token]
  BY <1>1 DEF Tokens
<1>. QED
  BY <1>2, FunctionIsSequence DEF Tokens

\* The first tokens depend on what is read there only.
LEMMA TokensSame ==
  ASSUME NEW ch, NEW ch2, NEW n \in Nat,
         \A i \in 0 .. n - 1 : TokenAt(ch2, i) = TokenAt(ch, i)
  PROVE  Tokens(ch2, n) = Tokens(ch, n)
<1>1. ASSUME NEW i \in 1 .. n
      PROVE  TokenAt(ch2, i - 1) = TokenAt(ch, i - 1)
  <2>1. i - 1 \in 0 .. n - 1
    OBVIOUS
  <2>. QED
    BY <2>1
<1>. QED
  BY <1>1 DEF Tokens

\* The tokens of a buffer are the first n ones and then the others.
LEMMA TokensSplit ==
  ASSUME NEW ch, NEW len \in Nat, Tiled(ch, len, 0), NEW n \in Nat,
         NEW s \in Seq(Token), n + Len(s) = len,
         \A i \in 1 .. Len(s) : TokenAt(ch, n + i - 1) = s[i]
  PROVE  Tokens(ch, len) = Tokens(ch, n) \o s
<1>. DEFINE p == Tokens(ch, len)
            q == Tokens(ch, n)
            r == q \o s
            m == Len(s)
<1>1. m \in Nat /\ n <= len /\ n + m = len
  OBVIOUS
<1>2. /\ p \in Seq(Token) /\ Len(p) = len /\ (\A i \in 1 .. len : p[i] = TokenAt(ch, i - 1))
      /\ q \in Seq(Token) /\ Len(q) = n /\ (\A i \in 1 .. n : q[i] = TokenAt(ch, i - 1))
  <2>1. p \in Seq(Token) /\ Len(p) = len /\ (\A i \in 1 .. len : p[i] = TokenAt(ch, i - 1))
    BY <1>1, TokensType
  <2>2. q \in Seq(Token) /\ Len(q) = n /\ (\A i \in 1 .. n : q[i] = TokenAt(ch, i - 1))
    BY <1>1, TokensType
  <2>. HIDE DEF p, q
  <2>. QED
    BY <2>1, <2>2
<1>. HIDE DEF p, q, m
<1>3. r \in Seq(Token) /\ IsConcat(r, q, s)
  BY <1>2, ConcatIs
<1>. HIDE DEF r
<1>4. /\ Len(r) = n + m /\ (\A i \in 1 .. n : r[i] = q[i])
      /\ \A i \in 1 .. m : r[n + i] = s[i]
  BY <1>2, <1>3 DEF IsConcat, m
<1>5. ASSUME NEW i \in 1 .. len
      PROVE  p[i] = r[i]
  <2>1. CASE i <= n
    <3>1. i \in 1 .. n
      BY <1>1, <2>1
    <3>. QED
      BY <1>2, <1>4, <3>1
  <2>2. CASE i > n
    <3>1. i - n \in 1 .. m /\ n + (i - n) = i /\ n + (i - n) - 1 = i - 1
      BY <1>1, <2>2
    <3>2. r[i] = s[i - n]
      BY <1>4, <3>1
    <3>3. TokenAt(ch, i - 1) = s[i - n]
      BY <3>1 DEF m
    <3>. QED
      BY <1>2, <3>2, <3>3
  <2>. QED
    BY <1>1, <2>1, <2>2
<1>6. p = r
  BY <1>1, <1>2, <1>3, <1>4, <1>5, SequencesEqual
<1>. QED
  BY <1>6 DEF p, q, r

\* An appended sequence in terms of tokens.
LEMMA TokensAppended ==
  ASSUME NEW ch, NEW ch2, NEW len \in Nat, NEW s \in Seq(Token), Appended(ch2, ch, len, s)
  PROVE  Tokens(ch2, len + Len(s)) = Tokens(ch, len) \o s
<1>1. Tokens(ch2, len) = Tokens(ch, len)
  BY TokensSame DEF Appended
<1>2. len + Len(s) \in Nat /\ Tiled(ch2, len + Len(s), 0)
      /\ \A i \in 1 .. Len(s) : TokenAt(ch2, len + i - 1) = s[i]
  BY DEF Appended
<1>3. Tokens(ch2, len + Len(s)) = Tokens(ch2, len) \o s
  BY <1>2, TokensSplit
<1>. QED
  BY <1>1, <1>3

-----------------------------------------------------------------------------
(* Steps of one buffer *)

SequenceStep == [Sequence!SequenceNext]_<<[b \in Buffer |-> Visible(b)], spoiled>>

\* What a state without an operation in progress looks like.
LEMMA Quiet ==
  ASSUME BufferInv, bufferOp = NoOp
  PROVE  /\ \A b \in Buffer \ spoiled : /\ Tiled(chunks[b], length[b], 0)
                                        /\ Visible(b) = Tokens(chunks[b], length[b])
         /\ \A b \in spoiled : Visible(b) = <<>>
         /\ length \in [Buffer -> Nat] /\ spoiled \subseteq Buffer
         /\ chunks = [b \in Buffer |-> chunks[b]]
<1>1. bufferOp.what = "none"
  BY DEF NoOp
<1>2. Whole = Buffer \ spoiled
  BY <1>1 DEF Whole
<1>. QED
  BY <1>1, <1>2 DEF BufferInv, BufferType, Visible

\* A step to such a state.
LEMMA QuietNext ==
  ASSUME bufferOp' = NoOp, BufferType',
         \A b \in Buffer \ spoiled' : Tiled(chunks'[b], length'[b], 0)
  PROVE  /\ BufferInv'
         /\ \A b \in Buffer \ spoiled' : Visible(b)' = Tokens(chunks'[b], length'[b])
         /\ \A b \in spoiled' : Visible(b)' = <<>>
<1>1. bufferOp'.what = "none"
  BY DEF NoOp
<1>2. Whole' = Buffer \ spoiled'
  BY <1>1 DEF Whole
<1>. QED
  BY <1>1, <1>2 DEF BufferInv, Visible

\* kefir_token_buffer_emplace appends to the sequence.
LEMMA EmplaceStep ==
  ASSUME BufferInv, NEW b \in Buffer, Emplace(b)
  PROVE  BufferInv' /\ SequenceStep
<1>t. PICK t \in Arriving[b][length[b] + 1] : chunks' = [chunks EXCEPT ![b] = Emplaced(chunks[b], length[b], t)]
  BY DEF Emplace
<1>1. bufferOp = NoOp /\ b \notin spoiled /\ length[b] < Len(Arriving[b])
      /\ bufferOp' = NoOp /\ spoiled' = spoiled
  BY DEF Emplace, Usable
<1>2. /\ \A x \in Buffer \ spoiled : Tiled(chunks[x], length[x], 0) /\ Visible(x) = Tokens(chunks[x], length[x])
      /\ \A x \in spoiled : Visible(x) = <<>>
      /\ length \in [Buffer -> Nat] /\ spoiled \subseteq Buffer
      /\ chunks = [x \in Buffer |-> chunks[x]]
  BY <1>1, Quiet
<1>3. t \in Token
  <2>1. Arriving[b] \in Seq(SUBSET Token) /\ length[b] + 1 \in 1 .. Len(Arriving[b])
    BY <1>1, <1>2, ArrivingAssumption
  <2>. QED
    BY <2>1
<1>4. /\ chunks' = [chunks EXCEPT ![b] = Emplaced(chunks[b], length[b], t)]
      /\ length' = [length EXCEPT ![b] = length[b] + 1]
  BY <1>t DEF Emplace
<1>5. /\ chunks'[b] = Emplaced(chunks[b], length[b], t) /\ length'[b] = length[b] + 1
      /\ \A x \in Buffer : x # b => chunks'[x] = chunks[x] /\ length'[x] = length[x]
      /\ BufferType'
  <2>. DEFINE e == Emplaced(chunks[b], length[b], t)
  <2>1. chunks' = [chunks EXCEPT ![b] = e]
    BY <1>4
  <2>. HIDE DEF e
  <2>2. DOMAIN chunks = Buffer /\ length[b] + 1 \in Nat
    BY <1>2
  <2>3. chunks'[b] = e /\ (\A x \in Buffer : x # b => chunks'[x] = chunks[x])
        /\ chunks' = [x \in Buffer |-> chunks'[x]]
    BY <2>1, <2>2
  <2>4. length'[b] = length[b] + 1 /\ (\A x \in Buffer : x # b => length'[x] = length[x])
        /\ length' \in [Buffer -> Nat]
    BY <1>2, <1>4, <2>2
  <2>. QED
    BY <1>1, <1>2, <2>3, <2>4 DEF BufferType, e
<1>6. Appended(chunks'[b], chunks[b], length[b], <<t>>)
  BY <1>1, <1>2, <1>3, <1>5, EmplacedTiled
<1>7. <<t>> \in Seq(Token) /\ Len(<<t>>) = 1 /\ length[b] \in Nat
  BY <1>2, <1>3
<1>8. Tiled(chunks'[b], length'[b], 0)
  BY <1>5, <1>6, <1>7 DEF Appended
<1>9. Tokens(chunks'[b], length'[b]) = Append(Tokens(chunks[b], length[b]), t)
  <2>1. Tokens(chunks'[b], length[b] + 1) = Tokens(chunks[b], length[b]) \o <<t>>
    BY <1>6, <1>7, TokensAppended
  <2>2. Tokens(chunks[b], length[b]) \in Seq(Token)
    BY <1>1, <1>2, <1>7, TokensType
  <2>3. Tokens(chunks[b], length[b]) \o <<t>> = Append(Tokens(chunks[b], length[b]), t)
    BY <1>3, <2>2
  <2>. QED
    BY <1>5, <2>1, <2>3
<1>10. \A x \in Buffer \ spoiled' : Tiled(chunks'[x], length'[x], 0)
  BY <1>1, <1>2, <1>5, <1>8
<1>11. /\ BufferInv'
       /\ \A x \in Buffer \ spoiled' : Visible(x)' = Tokens(chunks'[x], length'[x])
       /\ \A x \in spoiled' : Visible(x)' = <<>>
  BY <1>1, <1>5, <1>10, QuietNext
<1>12. /\ Visible(b)' = Append(Visible(b), t)
       /\ \A x \in Buffer : x # b => Visible(x)' = Visible(x)
  BY <1>1, <1>2, <1>5, <1>9, <1>11
<1>13. Sequence!Append1(b, t)
  BY <1>1, <1>12 DEF Sequence!Append1
<1>. QED
  BY <1>3, <1>11, <1>13 DEF SequenceStep, Sequence!SequenceNext

\* kefir_token_buffer_pop drops the last token.
LEMMA PopStep ==
  ASSUME BufferInv, NEW b \in Buffer, Pop(b)
  PROVE  BufferInv' /\ SequenceStep
<1>1. bufferOp = NoOp /\ b \notin spoiled /\ length[b] > 0 /\ bufferOp' = NoOp /\ spoiled' = spoiled
  BY DEF Pop, Usable
<1>2. /\ \A x \in Buffer \ spoiled : Tiled(chunks[x], length[x], 0) /\ Visible(x) = Tokens(chunks[x], length[x])
      /\ \A x \in spoiled : Visible(x) = <<>>
      /\ length \in [Buffer -> Nat] /\ spoiled \subseteq Buffer
      /\ chunks = [x \in Buffer |-> chunks[x]]
  BY <1>1, Quiet
<1>3. length[b] - 1 \in Nat
  BY <1>1, <1>2
<1>4. /\ chunks'[b] = Popped(chunks[b]) /\ length'[b] = length[b] - 1
      /\ \A x \in Buffer : x # b => chunks'[x] = chunks[x] /\ length'[x] = length[x]
      /\ BufferType'
  BY <1>1, <1>2, <1>3 DEF BufferType, Pop
<1>5. /\ Tiled(chunks'[b], length'[b], 0)
      /\ \A i \in 0 .. length[b] - 2 : TokenAt(chunks'[b], i) = TokenAt(chunks[b], i)
  BY <1>1, <1>2, <1>4, PoppedTiled
<1>6. Tokens(chunks[b], length[b]) # <<>>
      /\ Tokens(chunks'[b], length'[b])
         = SubSeq(Tokens(chunks[b], length[b]), 1, Len(Tokens(chunks[b], length[b])) - 1)
  <2>. DEFINE q == Tokens(chunks[b], length[b])
              n == length[b] - 1
              p == Tokens(chunks[b], n)
  <2>1. \A i \in 0 .. n - 1 : TokenAt(chunks'[b], i) = TokenAt(chunks[b], i)
    <3>1. length[b] \in Nat
      BY <1>2
    <3>2. \A i \in 0 .. n - 1 : i \in 0 .. length[b] - 2
      BY <3>1
    <3>. QED
      BY <1>5, <3>2
  <2>2. Tokens(chunks'[b], n) = p
    BY <1>3, <2>1, TokensSame
  <2>3. q \in Seq(Token) /\ Len(q) = length[b] /\ (\A i \in 1 .. length[b] : q[i] = TokenAt(chunks[b], i - 1))
    BY <1>1, <1>2, TokensType
  <2>4. p \in Seq(Token) /\ Len(p) = n /\ (\A i \in 1 .. n : p[i] = TokenAt(chunks[b], i - 1))
    BY <1>1, <1>2, <1>3, TokensType
  <2>. HIDE DEF p, q
  <2>5. SubSeq(q, 1, n) \in Seq(Token) /\ Len(SubSeq(q, 1, n)) = n /\ \A i \in 1 .. n : SubSeq(q, 1, n)[i] = q[i]
    BY <1>2, <1>3, <2>3
  <2>6. \A i \in 1 .. n : p[i] = SubSeq(q, 1, n)[i]
    BY <1>2, <2>3, <2>4, <2>5
  <2>7. p = SubSeq(q, 1, n)
    BY <2>4, <2>5, <2>6, SequencesEqual
  <2>8. q # <<>>
    BY <1>1, <2>3
  <2>. QED
    BY <1>4, <2>2, <2>3, <2>7, <2>8 DEF p, q
<1>7. \A x \in Buffer \ spoiled' : Tiled(chunks'[x], length'[x], 0)
  BY <1>1, <1>2, <1>4, <1>5
<1>8. /\ BufferInv'
      /\ \A x \in Buffer \ spoiled' : Visible(x)' = Tokens(chunks'[x], length'[x])
      /\ \A x \in spoiled' : Visible(x)' = <<>>
  BY <1>1, <1>4, <1>7, QuietNext
<1>9. /\ Visible(b) # <<>> /\ Visible(b)' = SubSeq(Visible(b), 1, Len(Visible(b)) - 1)
      /\ \A x \in Buffer : x # b => Visible(x)' = Visible(x)
  BY <1>1, <1>2, <1>4, <1>6, <1>8
<1>10. Sequence!DropLast(b)
  BY <1>1, <1>9 DEF Sequence!DropLast
<1>. QED
  BY <1>8, <1>10 DEF SequenceStep, Sequence!SequenceNext

\* A buffer without chunks has no tokens.
LEMMA EmptyTiled ==
  Tiled(NoChunks, 0, 0) /\ Tokens(NoChunks, 0) = <<>>
<1>1. DOMAIN NoChunks = {} /\ NoChunks \in [DOMAIN NoChunks -> Chunk]
  BY DEF NoChunks
<1>2. Tiled(NoChunks, 0, 0)
  BY <1>1 DEF Tiled
<1>3. Tokens(NoChunks, 0) = <<>>
  BY DEF Tokens
<1>. QED
  BY <1>2, <1>3

\* kefir_token_buffer_reset and kefir_token_buffer_free empty the sequence.
LEMMA ResetStep ==
  ASSUME BufferInv, NEW b \in Buffer, Reset(b)
  PROVE  BufferInv' /\ SequenceStep
<1>1. bufferOp = NoOp /\ bufferOp' = NoOp /\ spoiled' = spoiled \ {b}
  BY DEF Reset
<1>2. /\ \A x \in Buffer \ spoiled : Tiled(chunks[x], length[x], 0) /\ Visible(x) = Tokens(chunks[x], length[x])
      /\ \A x \in spoiled : Visible(x) = <<>>
      /\ length \in [Buffer -> Nat] /\ spoiled \subseteq Buffer
      /\ chunks = [x \in Buffer |-> chunks[x]]
  BY <1>1, Quiet
<1>3. /\ chunks'[b] = NoChunks /\ length'[b] = 0
      /\ \A x \in Buffer : x # b => chunks'[x] = chunks[x] /\ length'[x] = length[x]
      /\ BufferType'
  BY <1>1, <1>2 DEF BufferType, Reset
<1>4. \A x \in Buffer \ spoiled' : Tiled(chunks'[x], length'[x], 0)
  BY <1>1, <1>2, <1>3, EmptyTiled
<1>5. /\ BufferInv'
      /\ \A x \in Buffer \ spoiled' : Visible(x)' = Tokens(chunks'[x], length'[x])
      /\ \A x \in spoiled' : Visible(x)' = <<>>
  BY <1>1, <1>3, <1>4, QuietNext
<1>6. Visible(b)' = <<>>
  BY <1>1, <1>3, <1>5, EmptyTiled
<1>7. \A x \in Buffer : x # b => Visible(x)' = Visible(x)
  BY <1>1, <1>2, <1>3, <1>5
<1>8. Sequence!Release(b)
  BY <1>1, <1>6, <1>7 DEF Sequence!Release
<1>. QED
  BY <1>5, <1>8 DEF SequenceStep, Sequence!SequenceNext

-----------------------------------------------------------------------------
(* Steps of a copy *)

\* The tokens that arrived and those of the source, of a copy or of an insertion.
LEMMA PairFacts ==
  ASSUME BufferInv, CopyInv \/ InsertInv
  PROVE  /\ bufferOp # NoOp /\ Pair
         /\ Arrived \in Nat /\ bufferOp.before + Arrived = length[bufferOp.dst]
         /\ length[bufferOp.dst] \in Nat /\ length[bufferOp.src] \in Nat
         /\ Tiled(chunks[bufferOp.dst], length[bufferOp.dst], 0)
         /\ Visible(bufferOp.dst) = Tokens(chunks[bufferOp.dst], bufferOp.before)
         /\ \A b \in spoiled : Visible(b) = <<>>
         /\ \A b \in Buffer \ spoiled : b \notin {bufferOp.dst, bufferOp.src} =>
              Tiled(chunks[b], length[b], 0) /\ Visible(b) = Tokens(chunks[b], length[b])
<1>1. bufferOp # NoOp /\ Pair
  <2>1. bufferOp.what # "none" /\ Pair
    BY DEF CopyInv, InsertInv
  <2>. QED
    BY <2>1 DEF NoOp
<1>2. length \in [Buffer -> Nat]
  BY DEF BufferInv, BufferType
<1>3. length[bufferOp.dst] \in Nat /\ length[bufferOp.src] \in Nat
  BY <1>1, <1>2 DEF Pair
<1>4. Arrived \in Nat /\ bufferOp.before + Arrived = length[bufferOp.dst]
  BY <1>1, <1>3 DEF Pair, Arrived
<1>5. bufferOp.dst \in Whole /\ \A b \in Buffer \ spoiled : b # bufferOp.src => b \in Whole
  BY <1>1 DEF Pair, Whole
<1>6. \A b \in Whole : Tiled(chunks[b], length[b], 0)
  BY DEF BufferInv
<1>7. Visible(bufferOp.dst) = Tokens(chunks[bufferOp.dst], bufferOp.before)
  BY <1>1 DEF Pair, Visible
<1>8. \A b \in spoiled : Visible(b) = <<>>
  BY DEF Visible
<1>9. ASSUME NEW b \in Buffer \ spoiled, b \notin {bufferOp.dst, bufferOp.src}
      PROVE  Visible(b) = Tokens(chunks[b], length[b])
  BY <1>9 DEF Visible
<1>. QED
  BY <1>1, <1>3, <1>4, <1>5, <1>6, <1>7, <1>8, <1>9

\* The source of a copy is whole.
LEMMA CopySource ==
  ASSUME BufferInv, CopyInv
  PROVE  /\ bufferOp.what = "copy"
         /\ Tiled(chunks[bufferOp.src], length[bufferOp.src], 0)
         /\ Visible(bufferOp.src) = Tokens(chunks[bufferOp.src], length[bufferOp.src])
<1>1. bufferOp.what = "copy" /\ Pair
  BY DEF CopyInv
<1>2. bufferOp.src \in Whole
  BY <1>1 DEF Whole, Pair
<1>3. Visible(bufferOp.src) = Tokens(chunks[bufferOp.src], length[bufferOp.src])
  BY <1>1 DEF Visible, Pair
<1>. QED
  BY <1>1, <1>2, <1>3 DEF BufferInv

\* kefir_token_buffer_copy begins: nothing is seen of it.
LEMMA BeginCopyStep ==
  ASSUME BufferInv, NEW d \in Buffer, NEW s \in Buffer, d # s, BeginCopy(d, s)
  PROVE  BufferInv' /\ SequenceStep
<1>1. /\ bufferOp = NoOp /\ d \notin spoiled /\ s \notin spoiled
      /\ bufferOp' = [what |-> "copy", dst |-> d, src |-> s, before |-> length[d]]
      /\ UNCHANGED <<chunks, length, spoiled>>
  BY DEF BeginCopy, Usable
<1>2. /\ \A x \in Buffer \ spoiled : Tiled(chunks[x], length[x], 0) /\ Visible(x) = Tokens(chunks[x], length[x])
      /\ \A x \in spoiled : Visible(x) = <<>>
      /\ length \in [Buffer -> Nat] /\ spoiled \subseteq Buffer
      /\ chunks = [x \in Buffer |-> chunks[x]]
  BY <1>1, Quiet
<1>3. /\ bufferOp'.what = "copy" /\ bufferOp'.dst = d /\ bufferOp'.src = s /\ bufferOp'.before = length[d]
      /\ bufferOp' # NoOp
  BY <1>1 DEF NoOp
<1>4. Arrived' = 0
  BY <1>1, <1>2, <1>3 DEF Arrived
<1>5. BufferInv'
  <2>1. BufferType'
    BY <1>1, <1>2 DEF BufferType
  <2>2. Whole' = Buffer \ spoiled
    BY <1>1, <1>3 DEF Whole
  <2>3. CopyInv'
    <3>1. Pair'
      BY <1>1, <1>2, <1>3, <1>4 DEF Pair
    <3>2. bufferOp' = [what |-> "copy", dst |-> bufferOp'.dst, src |-> bufferOp'.src, before |-> bufferOp'.before]
      BY <1>1, <1>3
    <3>3. \A i \in 1 .. Arrived' : FALSE
      BY <1>4
    <3>. QED
      BY <3>1, <3>2, <3>3 DEF CopyInv
  <2>. QED
    BY <1>1, <1>2, <2>1, <2>2, <2>3 DEF BufferInv
<1>6. \A x \in Buffer : Visible(x)' = Visible(x)
  <2>1. ASSUME NEW x \in Buffer
        PROVE  Visible(x)' = IF x \in spoiled THEN <<>> ELSE Tokens(chunks[x], length[x])
    BY <1>1, <1>3 DEF Visible
  <2>. QED
    BY <1>2, <2>1
<1>. QED
  BY <1>1, <1>5, <1>6 DEF SequenceStep

\* One token is copied: nothing is seen of it.
LEMMA CopyTokenStep ==
  ASSUME BufferInv, CopyToken
  PROVE  BufferInv' /\ SequenceStep
<1>d. PICK d : d = bufferOp.dst
  OBVIOUS
<1>s. PICK s : s = bufferOp.src
  OBVIOUS
<1>. DEFINE t == TokenAt(chunks[s], Arrived)
<1>1. CopyInv /\ bufferOp.what = "copy"
  <2>1. bufferOp.what = "copy"
    BY DEF CopyToken
  <2>. QED
    BY <2>1 DEF BufferInv, InsertInv, NoOp
<1>2. /\ bufferOp # NoOp /\ Pair
      /\ Arrived \in Nat /\ bufferOp.before + Arrived = length[d]
      /\ length[d] \in Nat /\ length[s] \in Nat
      /\ Tiled(chunks[d], length[d], 0) /\ Visible(d) = Tokens(chunks[d], bufferOp.before)
      /\ \A b \in spoiled : Visible(b) = <<>>
      /\ \A b \in Buffer \ spoiled : b \notin {d, s} =>
           Tiled(chunks[b], length[b], 0) /\ Visible(b) = Tokens(chunks[b], length[b])
  BY <1>1, <1>d, <1>s, PairFacts
<1>3. Tiled(chunks[s], length[s], 0) /\ Visible(s) = Tokens(chunks[s], length[s])
  BY <1>1, <1>d, <1>s, CopySource
<1>4. /\ Arrived < length[s] /\ bufferOp' = bufferOp /\ spoiled' = spoiled
      /\ chunks' = [chunks EXCEPT ![d] = Emplaced(chunks[d], length[d], t)]
      /\ length' = [length EXCEPT ![d] = length[d] + 1]
  BY <1>d, <1>s DEF CopyToken
<1>5. t \in Token
  <2>1. Arrived \in Nat /\ 0 <= Arrived /\ 0 \in Nat
    BY <1>2
  <2>. QED
    BY <1>2, <1>3, <1>4, <2>1, AtIndex
<1>6. /\ d \in Buffer \ spoiled /\ s \in Buffer \ spoiled /\ d # s
      /\ bufferOp.before \in Nat /\ bufferOp.before <= length[d]
      /\ length \in [Buffer -> Nat] /\ spoiled \subseteq Buffer /\ chunks = [x \in Buffer |-> chunks[x]]
  BY <1>2, <1>d, <1>s DEF Pair, BufferInv, BufferType
<1>. DEFINE e == Emplaced(chunks[d], length[d], t)
<1>7. Appended(e, chunks[d], length[d], <<t>>)
  <2>. HIDE DEF t
  <2>. QED
    BY <1>2, <1>5, EmplacedTiled
<1>. HIDE DEF t, e
<1>8. /\ chunks'[d] = e /\ length'[d] = length[d] + 1
      /\ \A x \in Buffer : x # d => chunks'[x] = chunks[x] /\ length'[x] = length[x]
      /\ BufferType'
  <2>1. chunks' = [chunks EXCEPT ![d] = e]
    BY <1>4 DEF e
  <2>2. chunks'[d] = e /\ (\A x \in Buffer : x # d => chunks'[x] = chunks[x])
        /\ chunks' = [x \in Buffer |-> chunks'[x]]
    BY <1>6, <2>1
  <2>3. length'[d] = length[d] + 1 /\ (\A x \in Buffer : x # d => length'[x] = length[x])
        /\ length' \in [Buffer -> Nat]
    BY <1>2, <1>4, <1>6
  <2>. QED
    BY <1>4, <1>6, <2>2, <2>3 DEF BufferType
<1>9. /\ Tiled(chunks'[d], length'[d], 0)
      /\ \A i \in 0 .. length[d] - 1 : TokenAt(chunks'[d], i) = TokenAt(chunks[d], i)
      /\ TokenAt(chunks'[d], length[d]) = t
  <2>1. Len(<<t>>) = 1 /\ <<t>>[1] = t /\ 1 \in 1 .. 1 /\ length[d] + 1 - 1 = length[d]
    BY <1>2
  <2>2. \A i \in 1 .. 1 : TokenAt(e, length[d] + i - 1) = <<t>>[i]
    BY <1>7, <2>1 DEF Appended
  <2>3. TokenAt(e, length[d]) = t
    BY <2>1, <2>2
  <2>. QED
    BY <1>7, <1>8, <2>1, <2>3 DEF Appended
<1>10. Arrived' = Arrived + 1
  <2>1. Arrived' = length'[d] - bufferOp.before /\ Arrived = length[d] - bufferOp.before
    BY <1>4, <1>d DEF Arrived
  <2>. QED
    BY <1>2, <1>6, <1>8, <2>1
<1>11. CopyInv'
  <2>1. Pair'
    BY <1>2, <1>4, <1>6, <1>8, <1>10, <1>d, <1>s DEF Pair
  <2>2. ASSUME NEW i \in 1 .. Arrived + 1
        PROVE  TokenAt(chunks'[d], bufferOp.before + i - 1) = TokenAt(chunks'[s], i - 1)
    <3>1. chunks'[s] = chunks[s]
      BY <1>6, <1>8
    <3>2. CASE i = Arrived + 1
      <4>1. bufferOp.before + i - 1 = length[d] /\ i - 1 = Arrived
        BY <1>2, <1>6, <3>2
      <4>. QED
        BY <1>9, <3>1, <4>1 DEF t
    <3>3. CASE i # Arrived + 1
      <4>1. i \in 1 .. Arrived /\ bufferOp.before + i - 1 \in 0 .. length[d] - 1
        BY <1>2, <1>6, <3>3
      <4>2. TokenAt(chunks[d], bufferOp.before + i - 1) = TokenAt(chunks[s], i - 1)
        BY <1>1, <4>1, <1>d, <1>s DEF CopyInv
      <4>. QED
        BY <1>9, <3>1, <4>1, <4>2
    <3>. QED
      BY <3>2, <3>3
  <2>3. bufferOp = [what |-> "copy", dst |-> bufferOp.dst, src |-> bufferOp.src, before |-> bufferOp.before]
    BY <1>1 DEF CopyInv
  <2>. QED
    BY <1>4, <1>10, <2>1, <2>2, <2>3, <1>d, <1>s DEF CopyInv
<1>12. BufferInv'
  <2>1. Whole' = Buffer \ spoiled
    BY <1>1, <1>4 DEF Whole
  <2>2. \A x \in Buffer \ spoiled : Tiled(chunks'[x], length'[x], 0)
    BY <1>2, <1>3, <1>8, <1>9
  <2>. QED
    BY <1>8, <1>11, <2>1, <2>2 DEF BufferInv
<1>13. ASSUME NEW x \in Buffer
       PROVE  Visible(x)' = Visible(x)
  <2>1. CASE x \in spoiled
    BY <1>4, <2>1 DEF Visible
  <2>2. CASE x = d
    <3>1. Visible(d)' = Tokens(chunks'[d], bufferOp.before)
      BY <1>2, <1>4, <1>6, <1>d DEF Visible
    <3>2. \A i \in 0 .. bufferOp.before - 1 : TokenAt(chunks'[d], i) = TokenAt(chunks[d], i)
      BY <1>2, <1>6, <1>9
    <3>3. Tokens(chunks'[d], bufferOp.before) = Tokens(chunks[d], bufferOp.before)
      BY <1>6, <3>2, TokensSame
    <3>. QED
      BY <1>2, <2>2, <3>1, <3>3
  <2>3. CASE x \notin spoiled /\ x # d
    <3>1. Visible(x)' = Tokens(chunks'[x], length'[x])
      BY <1>1, <1>4, <1>d, <2>3 DEF Visible
    <3>2. Visible(x) = Tokens(chunks[x], length[x])
      <4>1. CASE x = s
        BY <1>3, <4>1
      <4>2. CASE x # s
        BY <1>2, <2>3, <4>2
      <4>. QED
        BY <4>1, <4>2
    <3>. QED
      BY <1>8, <2>3, <3>1, <3>2
  <2>. QED
    BY <2>1, <2>2, <2>3
<1>. QED
  BY <1>4, <1>12, <1>13 DEF SequenceStep

\* The copy ends, after all tokens or in the middle: the destination has gained the
\* first tokens of the source.
LEMMA EndCopyStep ==
  ASSUME BufferInv, EndCopy
  PROVE  BufferInv' /\ SequenceStep
<1>d. PICK d : d = bufferOp.dst
  OBVIOUS
<1>s. PICK s : s = bufferOp.src
  OBVIOUS
<1>1. CopyInv /\ bufferOp' = NoOp /\ UNCHANGED <<chunks, length, spoiled>>
  <2>1. bufferOp.what = "copy"
    BY DEF EndCopy
  <2>. QED
    BY <2>1 DEF BufferInv, InsertInv, NoOp, EndCopy
<1>2. /\ Pair
      /\ Arrived \in Nat /\ bufferOp.before + Arrived = length[d]
      /\ length[d] \in Nat /\ length[s] \in Nat
      /\ Tiled(chunks[d], length[d], 0) /\ Visible(d) = Tokens(chunks[d], bufferOp.before)
      /\ \A b \in spoiled : Visible(b) = <<>>
      /\ \A b \in Buffer \ spoiled : b \notin {d, s} =>
           Tiled(chunks[b], length[b], 0) /\ Visible(b) = Tokens(chunks[b], length[b])
  BY <1>1, <1>d, <1>s, PairFacts
<1>3. Tiled(chunks[s], length[s], 0) /\ Visible(s) = Tokens(chunks[s], length[s])
  BY <1>1, <1>d, <1>s, CopySource
<1>4. /\ d \in Buffer \ spoiled /\ s \in Buffer \ spoiled /\ d # s
      /\ bufferOp.before \in Nat /\ bufferOp.before <= length[d] /\ Arrived <= length[s]
      /\ BufferType
  BY <1>2, <1>d, <1>s DEF Pair, BufferInv
<1>5. \A i \in 1 .. Arrived : TokenAt(chunks[d], bufferOp.before + i - 1) = TokenAt(chunks[s], i - 1)
  BY <1>1, <1>d, <1>s DEF CopyInv
<1>6. BufferType'
  BY <1>1, <1>4 DEF BufferType
<1>7. \A x \in Buffer \ spoiled' : Tiled(chunks'[x], length'[x], 0)
  BY <1>1, <1>2, <1>3
<1>8. /\ BufferInv'
      /\ \A x \in Buffer \ spoiled' : Visible(x)' = Tokens(chunks'[x], length'[x])
      /\ \A x \in spoiled' : Visible(x)' = <<>>
  BY <1>1, <1>6, <1>7, QuietNext
<1>9. /\ Visible(s) \in Seq(Token) /\ Len(Visible(s)) = length[s]
      /\ \A i \in 1 .. length[s] : Visible(s)[i] = TokenAt(chunks[s], i - 1)
  <2>1. /\ Tokens(chunks[s], length[s]) \in Seq(Token) /\ Len(Tokens(chunks[s], length[s])) = length[s]
        /\ \A i \in 1 .. length[s] : Tokens(chunks[s], length[s])[i] = TokenAt(chunks[s], i - 1)
    <3>1. length[s] \in Nat /\ length[s] <= length[s] /\ Tiled(chunks[s], length[s], 0)
      BY <1>2, <1>3
    <3>. QED
      BY <3>1, TokensType
  <2>. QED
    BY <1>3, <2>1
<1>10. Tokens(chunks[d], length[d]) = Visible(d) \o SubSeq(Visible(s), 1, Arrived)
  <2>. DEFINE v == Visible(s)
              r == SubSeq(v, 1, Arrived)
  <2>1. v \in Seq(Token) /\ Arrived <= Len(v)
    BY <1>4, <1>9
  <2>. HIDE DEF v
  <2>2. r \in Seq(Token) /\ Len(r) = Arrived /\ \A i \in 1 .. Arrived : r[i] = v[i]
    BY <1>2, <2>1
  <2>. HIDE DEF r
  <2>3. \A i \in 1 .. Len(r) : TokenAt(chunks[d], bufferOp.before + i - 1) = r[i]
    <3>1. ASSUME NEW i \in 1 .. Arrived
          PROVE  TokenAt(chunks[d], bufferOp.before + i - 1) = r[i]
      <4>1. i \in 1 .. length[s]
        BY <1>2, <1>4
      <4>2. v[i] = TokenAt(chunks[s], i - 1)
        BY <1>9, <4>1 DEF v
      <4>. QED
        BY <1>5, <2>2, <4>2
    <3>. QED
      BY <2>2, <3>1
  <2>4. bufferOp.before + Len(r) = length[d]
    BY <1>2, <2>2
  <2>5. Tokens(chunks[d], length[d]) = Tokens(chunks[d], bufferOp.before) \o r
    <3>1. length[d] \in Nat /\ Tiled(chunks[d], length[d], 0) /\ bufferOp.before \in Nat /\ r \in Seq(Token)
      BY <1>2, <1>4, <2>2
    <3>. QED
      BY <2>3, <2>4, <3>1, TokensSplit
  <2>. QED
    BY <1>2, <2>5 DEF r, v
<1>11. /\ Visible(d)' = Visible(d) \o SubSeq(Visible(s), 1, Arrived)
       /\ \A x \in Buffer : x # d => Visible(x)' = Visible(x)
  <2>1. Visible(d)' = Tokens(chunks[d], length[d])
    BY <1>1, <1>4, <1>8
  <2>2. ASSUME NEW x \in Buffer, x # d
        PROVE  Visible(x)' = Visible(x)
    <3>1. CASE x \in spoiled
      BY <1>1, <1>2, <1>8, <3>1
    <3>2. CASE x \notin spoiled
      <4>1. Visible(x)' = Tokens(chunks[x], length[x])
        BY <1>1, <1>8, <3>2
      <4>2. Visible(x) = Tokens(chunks[x], length[x])
        <5>1. CASE x = s
          BY <1>3, <5>1
        <5>2. CASE x # s
          BY <1>2, <2>2, <3>2, <5>2
        <5>. QED
          BY <5>1, <5>2
      <4>. QED
        BY <4>1, <4>2
    <3>. QED
      BY <3>1, <3>2
  <2>. QED
    BY <1>10, <2>1, <2>2
<1>12. Sequence!CopyUpTo(d, s, Arrived) /\ Arrived \in 0 .. Len(Visible(s))
  <2>1. Arrived \in 0 .. Len(Visible(s))
    BY <1>2, <1>4, <1>9
  <2>2. {d, s} \cap spoiled = {} /\ spoiled' = spoiled /\ d \in Buffer /\ s \in Buffer
    BY <1>1, <1>4
  <2>3. [x \in Buffer |-> Visible(x)]'
        = [[x \in Buffer |-> Visible(x)] EXCEPT ![d] = @ \o SubSeq([x \in Buffer |-> Visible(x)][s], 1, Arrived)]
    BY <1>11, <2>2
  <2>. QED
    BY <2>1, <2>2, <2>3 DEF Sequence!CopyUpTo
<1>. QED
  BY <1>4, <1>8, <1>12 DEF SequenceStep, Sequence!SequenceNext

-----------------------------------------------------------------------------
(* Steps of an insertion *)

\* The least element, when it is known.
LEMMA MinIs ==
  ASSUME NEW S \in SUBSET Nat, NEW x \in S, \A y \in S : x <= y
  PROVE  Min(S) = x
<1>1. \A z \in S : (\A y \in S : z <= y) => z = x
  OBVIOUS
<1>. QED
  BY <1>1 DEF Min

\* What is seen of the source of an insertion: tokens that have arrived, then its own.
LEMMA InsertSource ==
  ASSUME BufferInv, InsertInv
  PROVE  /\ Visible(bufferOp.src) \in Seq(Token) /\ Len(Visible(bufferOp.src)) = length[bufferOp.src]
         /\ \A i \in 1 .. length[bufferOp.src] :
              Visible(bufferOp.src)[i] = IF i <= Arrived THEN TokenAt(chunks[bufferOp.dst], bufferOp.before + i - 1)
                                         ELSE TokenAt(chunks[bufferOp.src], i - 1)
         /\ \A i \in 1 .. Arrived :
              Visible(bufferOp.src)[i] = TokenAt(chunks[bufferOp.dst], bufferOp.before + i - 1)
<1>. DEFINE d == bufferOp.dst
            s == bufferOp.src
            f == [i \in 1 .. length[s] |-> IF i <= Arrived THEN TokenAt(chunks[d], bufferOp.before + i - 1)
                                           ELSE TokenAt(chunks[s], i - 1)]
<1>1. /\ bufferOp # NoOp /\ Pair
      /\ Arrived \in Nat /\ bufferOp.before + Arrived = length[d]
      /\ length[d] \in Nat /\ length[s] \in Nat /\ Tiled(chunks[d], length[d], 0)
  BY PairFacts
<1>2. /\ bufferOp.before \in Nat /\ Arrived <= length[s] /\ d # s /\ s \notin spoiled
      /\ bufferOp.what = "insert" /\ Tiled(chunks[s], length[s], Arrived)
  BY <1>1 DEF InsertInv, Pair
<1>3. Visible(s) = f
  BY <1>2 DEF Visible
<1>. HIDE DEF d, s
<1>4. ASSUME NEW i \in 1 .. length[s]
      PROVE  f[i] \in Token
  <2>1. CASE i <= Arrived
    <3>1. bufferOp.before + i - 1 \in Nat /\ 0 <= bufferOp.before + i - 1
          /\ bufferOp.before + i - 1 < length[d] /\ 0 \in Nat
      BY <1>1, <1>2, <2>1
    <3>2. TokenAt(chunks[d], bufferOp.before + i - 1) \in Token
      BY <1>1, <3>1, AtIndex
    <3>. QED
      BY <2>1, <3>2
  <2>2. CASE ~(i <= Arrived)
    <3>1. i - 1 \in Nat /\ Arrived <= i - 1 /\ i - 1 < length[s]
      BY <1>1, <1>2, <2>2
    <3>2. TokenAt(chunks[s], i - 1) \in Token
      BY <1>1, <1>2, <3>1, AtIndex
    <3>. QED
      BY <2>2, <3>2
  <2>. QED
    BY <2>1, <2>2
<1>5. f \in [1 .. length[s] -> Token]
  BY <1>4
<1>6. f \in Seq(Token) /\ Len(f) = length[s]
  <2>. HIDE DEF f
  <2>. QED
    BY <1>1, <1>5, FunctionIsSequence
<1>7. \A i \in 1 .. length[s] : f[i] = IF i <= Arrived THEN TokenAt(chunks[d], bufferOp.before + i - 1)
                                       ELSE TokenAt(chunks[s], i - 1)
  OBVIOUS
<1>8. ASSUME NEW i \in 1 .. Arrived
      PROVE  f[i] = TokenAt(chunks[d], bufferOp.before + i - 1)
  <2>1. i \in 1 .. length[s] /\ i <= Arrived
    BY <1>1, <1>2
  <2>. QED
    BY <2>1
<1>. HIDE DEF f
<1>. QED
  BY <1>3, <1>6, <1>7, <1>8 DEF d, s

\* kefir_token_buffer_insert begins: nothing is seen of it.
LEMMA BeginInsertStep ==
  ASSUME BufferInv, NEW d \in Buffer, NEW s \in Buffer, d # s, BeginInsert(d, s)
  PROVE  BufferInv' /\ SequenceStep
<1>1. /\ bufferOp = NoOp /\ d \notin spoiled /\ s \notin spoiled
      /\ bufferOp' = [what |-> "insert", dst |-> d, src |-> s, next |-> DOMAIN chunks[s], before |-> length[d]]
      /\ UNCHANGED <<chunks, length, spoiled>>
  BY DEF BeginInsert, Usable
<1>2. /\ \A x \in Buffer \ spoiled : Tiled(chunks[x], length[x], 0) /\ Visible(x) = Tokens(chunks[x], length[x])
      /\ \A x \in spoiled : Visible(x) = <<>>
      /\ length \in [Buffer -> Nat] /\ spoiled \subseteq Buffer
      /\ chunks = [x \in Buffer |-> chunks[x]]
  BY <1>1, Quiet
<1>3. /\ bufferOp'.what = "insert" /\ bufferOp'.dst = d /\ bufferOp'.src = s /\ bufferOp'.before = length[d]
      /\ bufferOp'.next = DOMAIN chunks[s] /\ bufferOp' # NoOp
  BY <1>1 DEF NoOp
<1>4. Arrived' = 0
  BY <1>1, <1>2, <1>3 DEF Arrived
<1>5. BufferInv'
  <2>1. BufferType'
    BY <1>1, <1>2 DEF BufferType
  <2>2. Whole' \subseteq Buffer \ spoiled
    BY <1>1, <1>3 DEF Whole
  <2>3. InsertInv'
    <3>1. Pair'
      BY <1>1, <1>2, <1>3, <1>4 DEF Pair
    <3>2. bufferOp' = [what |-> "insert", dst |-> bufferOp'.dst, src |-> bufferOp'.src,
                       next |-> bufferOp'.next, before |-> bufferOp'.before]
      BY <1>1, <1>3
    <3>3. Tiled(chunks[s], length[s], 0)
      BY <1>1, <1>2
    <3>4. DOMAIN chunks[s] = {k \in DOMAIN chunks[s] : k >= 0}
      BY <3>3 DEF Tiled
    <3>. QED
      BY <1>1, <1>3, <1>4, <3>1, <3>2, <3>3, <3>4 DEF InsertInv
  <2>. QED
    BY <1>1, <1>2, <2>1, <2>2, <2>3 DEF BufferInv
<1>6. Visible(s)' = Visible(s)
  <2>1. Visible(s)' = [i \in 1 .. length[s] |-> IF i <= 0 THEN TokenAt(chunks[d], length[d] + i - 1)
                                                ELSE TokenAt(chunks[s], i - 1)]
    BY <1>1, <1>3, <1>4 DEF Visible
  <2>2. Tokens(chunks[s], length[s])
        = [i \in 1 .. length[s] |-> IF i <= 0 THEN TokenAt(chunks[d], length[d] + i - 1)
                                    ELSE TokenAt(chunks[s], i - 1)]
    BY <1>2 DEF Tokens
  <2>. QED
    BY <1>1, <1>2, <2>1, <2>2
<1>7. ASSUME NEW x \in Buffer, x # s
      PROVE  Visible(x)' = Visible(x)
  <2>1. Visible(x)' = IF x \in spoiled THEN <<>> ELSE Tokens(chunks[x], length[x])
    BY <1>1, <1>3, <1>7 DEF Visible
  <2>. QED
    BY <1>2, <2>1
<1>. QED
  BY <1>1, <1>5, <1>6, <1>7 DEF SequenceStep

\* The chunk that is visited next begins where the tokens that arrived end.
LEMMA NextChunkIs ==
  ASSUME BufferInv, InsertInv, bufferOp.next # {}
  PROVE  NextChunk(bufferOp.next) = Arrived /\ Arrived \in DOMAIN chunks[bufferOp.src]
<1>. DEFINE ch == chunks[bufferOp.src]
            len == length[bufferOp.src]
<1>1. Arrived \in Nat /\ len \in Nat
  BY PairFacts
<1>2. /\ DOMAIN ch \subseteq 0 .. len - 1 /\ Arrived \in DOMAIN ch \cup {len}
      /\ bufferOp.next = {k \in DOMAIN ch : k >= Arrived}
  BY DEF InsertInv, Tiled
<1>. HIDE DEF ch, len
<1>3. PICK k \in DOMAIN ch : k >= Arrived
  BY <1>2
<1>4. Arrived \in DOMAIN ch
  BY <1>1, <1>2, <1>3
<1>5. /\ bufferOp.next \in SUBSET Nat /\ Arrived \in bufferOp.next
      /\ \A y \in bufferOp.next : Arrived <= y
  BY <1>1, <1>2, <1>4
<1>. QED
  BY <1>4, <1>5, MinIs DEF NextChunk, ch

\* One chunk moves: nothing is seen of it.
LEMMA MoveChunkStep ==
  ASSUME BufferInv, MoveChunk
  PROVE  BufferInv' /\ SequenceStep
<1>d. PICK d : d = bufferOp.dst
  OBVIOUS
<1>s. PICK s : s = bufferOp.src
  OBVIOUS
<1>m. PICK m : m = Arrived
  OBVIOUS
<1>1. InsertInv /\ bufferOp.what = "insert" /\ bufferOp.next # {}
  <2>1. bufferOp.what = "insert" /\ bufferOp.next # {}
    BY DEF MoveChunk
  <2>. QED
    BY <2>1 DEF BufferInv, CopyInv, NoOp
<1>2. /\ bufferOp # NoOp /\ Pair
      /\ m \in Nat /\ bufferOp.before + m = length[d]
      /\ length[d] \in Nat /\ length[s] \in Nat
      /\ Tiled(chunks[d], length[d], 0) /\ Visible(d) = Tokens(chunks[d], bufferOp.before)
      /\ \A b \in spoiled : Visible(b) = <<>>
      /\ \A b \in Buffer \ spoiled : b \notin {d, s} =>
           Tiled(chunks[b], length[b], 0) /\ Visible(b) = Tokens(chunks[b], length[b])
  BY <1>1, <1>d, <1>s, <1>m, PairFacts
<1>3. /\ d \in Buffer \ spoiled /\ s \in Buffer \ spoiled /\ d # s
      /\ bufferOp.before \in Nat /\ bufferOp.before <= length[d]
      /\ length \in [Buffer -> Nat] /\ spoiled \subseteq Buffer /\ chunks = [x \in Buffer |-> chunks[x]]
  BY <1>2, <1>d, <1>s DEF Pair, BufferInv, BufferType
<1>4. Tiled(chunks[s], length[s], m) /\ bufferOp.next = {k \in DOMAIN chunks[s] : k >= m}
  BY <1>1, <1>s, <1>m DEF InsertInv
<1>5. NextChunk(bufferOp.next) = m /\ m \in DOMAIN chunks[s]
  BY <1>1, <1>s, <1>m, NextChunkIs
<1>c. PICK c : c = chunks[s][m]
  OBVIOUS
<1>e. PICK e : e = Moved(chunks[d], length[d], c)
  OBVIOUS
<1>6. /\ chunks' = [chunks EXCEPT ![s][m] = NoChunk, ![d] = e]
      /\ length' = [length EXCEPT ![d] = length[d] + Len(c.content)]
      /\ bufferOp' = [bufferOp EXCEPT !.next = bufferOp.next \ {m}]
      /\ spoiled' = spoiled
  BY <1>3, <1>5, <1>c, <1>d, <1>e, <1>s DEF MoveChunk
<1>f. PICK f : f = [chunks[s] EXCEPT ![m] = NoChunk]
  OBVIOUS
<1>g. PICK g : g = m + Len(c.content)
  OBVIOUS
<1>7. /\ g \in Nat /\ m < g /\ g <= length[s] /\ GoodChunk(c)
      /\ Tiled(f, length[s], g)
      /\ \A i \in g .. length[s] - 1 : TokenAt(f, i) = TokenAt(chunks[s], i)
      /\ \A k \in DOMAIN chunks[s] : k >= m /\ k # m <=> k >= g
      /\ DOMAIN f = DOMAIN chunks[s] /\ EndOf(chunks[s], m) = g
  <2>1. EndOf(chunks[s], m) = g
    BY <1>c, <1>g DEF EndOf
  <2>2. DOMAIN f = DOMAIN chunks[s]
    BY <1>f
  <2>3. /\ EndOf(chunks[s], m) \in Nat /\ m < EndOf(chunks[s], m) /\ EndOf(chunks[s], m) <= length[s]
        /\ GoodChunk(chunks[s][m])
        /\ Tiled([chunks[s] EXCEPT ![m] = NoChunk], length[s], EndOf(chunks[s], m))
        /\ \A i \in EndOf(chunks[s], m) .. length[s] - 1 :
             TokenAt([chunks[s] EXCEPT ![m] = NoChunk], i) = TokenAt(chunks[s], i)
        /\ \A k \in DOMAIN chunks[s] : k >= m /\ k # m <=> k >= EndOf(chunks[s], m)
    <3>1. length[s] \in Nat /\ m \in Nat /\ Tiled(chunks[s], length[s], m) /\ m \in DOMAIN chunks[s]
      BY <1>2, <1>4, <1>5
    <3>. QED
      BY <3>1, SourceTiled
  <2>. QED
    BY <2>1, <2>2, <2>3, <1>c, <1>f
<1>8. Appended(e, chunks[d], length[d], c.content)
  BY <1>2, <1>7, <1>e, MovedTiled
<1>9. c.content \in Seq(Token) /\ Len(c.content) \in Nat
  BY <1>7 DEF GoodChunk, Chunk
<1>10. /\ chunks'[d] = e /\ chunks'[s] = f
       /\ \A x \in Buffer : x # d /\ x # s => chunks'[x] = chunks[x]
       /\ chunks' = [x \in Buffer |-> chunks'[x]]
  <2>1. chunks' = [[chunks EXCEPT ![s] = f] EXCEPT ![d] = e]
    BY <1>3, <1>6, <1>f
  <2>. QED
    BY <1>3, <2>1
<1>11. /\ length'[d] = length[d] + Len(c.content)
       /\ \A x \in Buffer : x # d => length'[x] = length[x]
       /\ length' \in [Buffer -> Nat]
  BY <1>2, <1>3, <1>6, <1>9
<1>12. /\ bufferOp' = [what |-> "insert", dst |-> d, src |-> s, next |-> bufferOp.next \ {m},
                       before |-> bufferOp.before]
       /\ bufferOp'.what = "insert" /\ bufferOp'.dst = d /\ bufferOp'.src = s
       /\ bufferOp'.next = bufferOp.next \ {m} /\ bufferOp'.before = bufferOp.before /\ bufferOp' # NoOp
  <2>1. bufferOp = [what |-> "insert", dst |-> d, src |-> s, next |-> bufferOp.next, before |-> bufferOp.before]
    BY <1>1, <1>d, <1>s DEF InsertInv
  <2>2. bufferOp' = [what |-> "insert", dst |-> d, src |-> s, next |-> bufferOp.next \ {m},
                     before |-> bufferOp.before]
    <3>1. PICK n : n = bufferOp.next
      OBVIOUS
    <3>2. PICK b : b = bufferOp.before
      OBVIOUS
    <3>3. bufferOp = [what |-> "insert", dst |-> d, src |-> s, next |-> n, before |-> b]
      BY <2>1, <3>1, <3>2
    <3>4. bufferOp' = [bufferOp EXCEPT !.next = n \ {m}]
      BY <1>6, <3>1
    <3>5. bufferOp' = [what |-> "insert", dst |-> d, src |-> s, next |-> n \ {m}, before |-> b]
      BY <3>3, <3>4
    <3>. QED
      BY <3>1, <3>2, <3>5
  <2>. QED
    BY <2>2 DEF NoOp
<1>13. Arrived' = g
  <2>1. Arrived' = length'[d] - bufferOp.before
    BY <1>12 DEF Arrived
  <2>. QED
    BY <1>2, <1>3, <1>9, <1>11, <1>g, <2>1
<1>14. BufferInv'
  <2>1. BufferType'
    BY <1>3, <1>6, <1>10, <1>11 DEF BufferType
  <2>2. Whole' = Buffer \ (spoiled \cup {s})
    BY <1>6, <1>12 DEF Whole
  <2>3. Tiled(chunks'[d], length'[d], 0)
    BY <1>8, <1>10, <1>11 DEF Appended
  <2>4. ASSUME NEW x \in Buffer \ (spoiled \cup {s})
        PROVE  Tiled(chunks'[x], length'[x], 0)
    <3>1. CASE x = d
      BY <2>3, <3>1
    <3>2. CASE x # d
      BY <1>2, <1>10, <1>11, <3>2
    <3>. QED
      BY <3>1, <3>2
  <2>5. InsertInv'
    <3>1. bufferOp.before <= length'[d] /\ length'[s] = length[s]
      BY <1>2, <1>3, <1>9, <1>11
    <3>2. Pair'
      BY <1>3, <1>6, <1>7, <1>12, <1>13, <3>1 DEF Pair
    <3>3. bufferOp.next \ {m} = {k \in DOMAIN f : k >= g}
      BY <1>4, <1>7
    <3>. QED
      BY <1>7, <1>10, <1>12, <1>13, <3>1, <3>2, <3>3 DEF InsertInv
  <2>. QED
    BY <2>1, <2>2, <2>4, <2>5 DEF BufferInv
<1>15. Visible(d)' = Visible(d)
  <2>1. Visible(d)' = Tokens(chunks'[d], bufferOp.before)
    BY <1>3, <1>6, <1>12 DEF Visible
  <2>2. \A i \in 0 .. bufferOp.before - 1 : TokenAt(e, i) = TokenAt(chunks[d], i)
    BY <1>2, <1>3, <1>8 DEF Appended
  <2>. QED
    BY <1>2, <1>3, <1>10, <2>1, <2>2, TokensSame
<1>16. Visible(s)' = Visible(s)
  <2>. DEFINE h == [i \in 1 .. length[s] |-> IF i <= m THEN TokenAt(chunks[d], bufferOp.before + i - 1)
                                             ELSE TokenAt(chunks[s], i - 1)]
              h2 == [i \in 1 .. length[s] |-> IF i <= g THEN TokenAt(e, bufferOp.before + i - 1)
                                              ELSE TokenAt(f, i - 1)]
  <2>1. Visible(s) = h
    BY <1>1, <1>3, <1>d, <1>m, <1>s DEF Visible
  <2>2. Visible(s)' = h2
    BY <1>3, <1>6, <1>10, <1>11, <1>12, <1>13 DEF Visible
  <2>3. ASSUME NEW i \in 1 .. length[s]
        PROVE  (IF i <= g THEN TokenAt(e, bufferOp.before + i - 1) ELSE TokenAt(f, i - 1))
               = IF i <= m THEN TokenAt(chunks[d], bufferOp.before + i - 1) ELSE TokenAt(chunks[s], i - 1)
    <3>1. CASE i <= m
      <4>1. i <= g /\ bufferOp.before + i - 1 \in 0 .. length[d] - 1
        BY <1>2, <1>3, <1>7, <3>1
      <4>2. TokenAt(e, bufferOp.before + i - 1) = TokenAt(chunks[d], bufferOp.before + i - 1)
        BY <1>8, <4>1 DEF Appended
      <4>. QED
        BY <3>1, <4>1, <4>2
    <3>2. CASE m < i /\ i <= g
      <4>1. i - m \in 1 .. Len(c.content) /\ length[d] + (i - m) - 1 = bufferOp.before + i - 1
        <5>1. i - m <= Len(c.content) /\ 1 <= i - m /\ i - m \in Int
          BY <1>2, <1>9, <1>g, <3>2
        <5>2. length[d] = bufferOp.before + m /\ bufferOp.before \in Nat /\ m \in Nat
          BY <1>2, <1>3
        <5>. QED
          BY <1>9, <5>1, <5>2
      <4>6. i - 1 \in Nat /\ m <= i - 1 /\ i - 1 < EndOf(chunks[s], m) /\ (i - 1) - m + 1 = i - m
        BY <1>2, <1>7, <3>2
      <4>2. TokenAt(e, length[d] + (i - m) - 1) = c.content[i - m]
        BY <1>8, <4>1 DEF Appended
      <4>3. TokenAt(chunks[s], i - 1) = chunks[s][m].content[(i - 1) - m + 1]
        <5>1. /\ length[s] \in Nat /\ m \in Nat /\ Tiled(chunks[s], length[s], m)
              /\ m \in DOMAIN chunks[s] /\ m <= m
          BY <1>2, <1>4, <1>5
        <5>. QED
          BY <4>6, <5>1, AtCover
      <4>4. TokenAt(e, bufferOp.before + i - 1) = TokenAt(chunks[s], i - 1)
        BY <4>1, <4>2, <4>3, <4>6, <1>c
      <4>5. ~(i <= m)
        BY <1>2, <3>2
      <4>. QED
        BY <3>2, <4>4, <4>5
    <3>3. CASE g < i
      <4>1. ~(i <= m) /\ ~(i <= g) /\ i - 1 \in g .. length[s] - 1
        BY <1>2, <1>7, <3>3
      <4>2. TokenAt(f, i - 1) = TokenAt(chunks[s], i - 1)
        BY <1>7, <4>1
      <4>. QED
        BY <4>1, <4>2
    <3>4. i <= m \/ (m < i /\ i <= g) \/ g < i
      BY <1>2, <1>7
    <3>. QED
      BY <3>1, <3>2, <3>3, <3>4
  <2>4. h2 = h
    BY <2>3
  <2>. QED
    BY <2>1, <2>2, <2>4
<1>17. ASSUME NEW x \in Buffer, x # d, x # s
       PROVE  Visible(x)' = Visible(x)
  <2>1. Visible(x)' = IF x \in spoiled THEN <<>> ELSE Tokens(chunks'[x], length'[x])
    BY <1>6, <1>12, <1>17 DEF Visible
  <2>. QED
    BY <1>2, <1>10, <1>11, <1>17, <2>1
<1>18. \A x \in Buffer : Visible(x)' = Visible(x)
  BY <1>15, <1>16, <1>17
<1>. QED
  BY <1>6, <1>14, <1>18 DEF SequenceStep

\* The insertion stops or ends with n tokens in the destination: it has gained those, in order.
LEMMA InsertedPrefix ==
  ASSUME BufferInv, InsertInv
  PROVE  /\ Arrived \in 0 .. Len(Visible(bufferOp.src))
         /\ Tokens(chunks[bufferOp.dst], length[bufferOp.dst])
              = Visible(bufferOp.dst) \o SubSeq(Visible(bufferOp.src), 1, Arrived)
<1>. DEFINE d == bufferOp.dst
            v == Visible(bufferOp.src)
            r == SubSeq(v, 1, Arrived)
<1>1. /\ Pair /\ Arrived \in Nat /\ bufferOp.before + Arrived = length[d]
      /\ length[d] \in Nat /\ Tiled(chunks[d], length[d], 0)
      /\ Visible(d) = Tokens(chunks[d], bufferOp.before)
  BY PairFacts
<1>2. bufferOp.before \in Nat /\ Arrived <= length[bufferOp.src] /\ length[bufferOp.src] \in Nat
  BY <1>1, PairFacts DEF Pair
<1>3. /\ v \in Seq(Token) /\ Len(v) = length[bufferOp.src]
      /\ \A i \in 1 .. Arrived : v[i] = TokenAt(chunks[d], bufferOp.before + i - 1)
  BY InsertSource
<1>. HIDE DEF d, v
<1>4. r \in Seq(Token) /\ Len(r) = Arrived /\ \A i \in 1 .. Arrived : r[i] = v[i]
  BY <1>1, <1>2, <1>3
<1>. HIDE DEF r
<1>5. \A i \in 1 .. Len(r) : TokenAt(chunks[d], bufferOp.before + i - 1) = r[i]
  BY <1>3, <1>4
<1>6. bufferOp.before + Len(r) = length[d]
  BY <1>1, <1>4
<1>7. Tokens(chunks[d], length[d]) = Tokens(chunks[d], bufferOp.before) \o r
  <2>1. length[d] \in Nat /\ Tiled(chunks[d], length[d], 0) /\ bufferOp.before \in Nat /\ r \in Seq(Token)
    BY <1>1, <1>2, <1>4
  <2>. QED
    BY <1>5, <1>6, <2>1, TokensSplit
<1>8. Arrived \in 0 .. Len(v)
  <2>1. Arrived \in Nat /\ Arrived <= Len(v) /\ Len(v) \in Nat
    BY <1>1, <1>2, <1>3
  <2>. QED
    BY <2>1
<1>. QED
  BY <1>1, <1>7, <1>8 DEF d, v, r

\* An allocation fails: some tokens have moved, and the source is of no more use.
LEMMA MoveFailsStep ==
  ASSUME BufferInv, MoveFails
  PROVE  BufferInv' /\ SequenceStep
<1>d. PICK d : d = bufferOp.dst
  OBVIOUS
<1>s. PICK s : s = bufferOp.src
  OBVIOUS
<1>1. InsertInv
  <2>1. bufferOp.what = "insert"
    BY DEF MoveFails
  <2>. QED
    BY <2>1 DEF BufferInv, CopyInv, NoOp
<1>2. /\ Pair /\ length[d] \in Nat
      /\ Tiled(chunks[d], length[d], 0)
      /\ \A b \in spoiled : Visible(b) = <<>>
      /\ \A b \in Buffer \ spoiled : b \notin {d, s} =>
           Tiled(chunks[b], length[b], 0) /\ Visible(b) = Tokens(chunks[b], length[b])
  BY <1>1, <1>d, <1>s, PairFacts
<1>3. /\ d \in Buffer \ spoiled /\ s \in Buffer \ spoiled /\ d # s
      /\ length \in [Buffer -> Nat] /\ spoiled \subseteq Buffer /\ chunks = [x \in Buffer |-> chunks[x]]
  BY <1>2, <1>d, <1>s DEF Pair, BufferInv, BufferType
<1>4. /\ \A x \in Buffer : x # s => chunks'[x] = chunks[x]
      /\ chunks' = [x \in Buffer |-> chunks'[x]]
      /\ length' = length /\ bufferOp' = NoOp /\ spoiled' = spoiled \cup {s}
  <2>1. /\ length' = length /\ bufferOp' = NoOp /\ spoiled' = spoiled \cup {s}
        /\ \/ chunks' = chunks
           \/ chunks' = [chunks EXCEPT ![s][NextChunk(bufferOp.next)].capacity = 0]
    BY <1>s DEF MoveFails
  <2>2. CASE chunks' = chunks
    BY <1>3, <2>1, <2>2
  <2>3. CASE chunks' = [chunks EXCEPT ![s][NextChunk(bufferOp.next)].capacity = 0]
    <3>1. PICK y : chunks' = [chunks EXCEPT ![s] = y]
      BY <2>3
    <3>2. (\A x \in Buffer : x # s => chunks'[x] = chunks[x]) /\ chunks' = [x \in Buffer |-> chunks'[x]]
      BY <1>3, <3>1
    <3>. QED
      BY <2>1, <3>2
  <2>. QED
    BY <2>1, <2>2, <2>3
<1>5. ASSUME NEW x \in Buffer \ (spoiled \cup {s})
      PROVE  Tiled(chunks[x], length[x], 0) /\ chunks'[x] = chunks[x]
  <2>1. CASE x = d
    BY <1>2, <1>4, <2>1
  <2>2. CASE x # d
    BY <1>2, <1>4, <2>2
  <2>. QED
    BY <2>1, <2>2
<1>6. /\ BufferInv'
      /\ \A x \in Buffer : Visible(x)' = IF x \in spoiled' THEN <<>> ELSE Tokens(chunks'[x], length'[x])
  <2>1. BufferType'
    BY <1>3, <1>4 DEF BufferType
  <2>2. \A x \in Buffer \ spoiled' : Tiled(chunks'[x], length'[x], 0)
    BY <1>4, <1>5
  <2>. QED
    BY <1>4, <2>1, <2>2, QuietNext
<1>7. /\ Arrived \in 0 .. Len(Visible(s))
      /\ Tokens(chunks[d], length[d]) = Visible(d) \o SubSeq(Visible(s), 1, Arrived)
  BY <1>1, <1>d, <1>s, InsertedPrefix
<1>8. /\ Visible(d)' = Visible(d) \o SubSeq(Visible(s), 1, Arrived)
      /\ Visible(s)' = <<>>
      /\ \A x \in Buffer : x # d /\ x # s => Visible(x)' = Visible(x)
  <2>1. Visible(d)' = Tokens(chunks[d], length[d])
    BY <1>3, <1>4, <1>6
  <2>2. Visible(s)' = <<>>
    BY <1>3, <1>4, <1>6
  <2>3. ASSUME NEW x \in Buffer, x # d, x # s
        PROVE  Visible(x)' = Visible(x)
    <3>1. Visible(x)' = IF x \in spoiled THEN <<>> ELSE Tokens(chunks[x], length[x])
      BY <1>4, <1>6, <2>3
    <3>. QED
      BY <1>2, <2>3, <3>1
  <2>. QED
    BY <1>7, <2>1, <2>2, <2>3
<1>9. Sequence!ConcatFails(d, s)
  <2>. DEFINE w == [x \in Buffer |-> Visible(x)]
  <2>1. w' = [w EXCEPT ![d] = @ \o SubSeq(w[s], 1, Arrived), ![s] = <<>>]
    BY <1>3, <1>8
  <2>2. Arrived \in 0 .. Len(w[s]) /\ {d, s} \cap spoiled = {} /\ spoiled' = spoiled \cup {s}
    BY <1>3, <1>4, <1>7
  <2>. QED
    BY <2>1, <2>2 DEF Sequence!ConcatFails
<1>. QED
  BY <1>3, <1>6, <1>9 DEF SequenceStep, Sequence!SequenceNext

\* Every chunk has moved: the destination has gained the tokens of the source, which is empty.
LEMMA EndInsertStep ==
  ASSUME BufferInv, EndInsert
  PROVE  BufferInv' /\ SequenceStep
<1>d. PICK d : d = bufferOp.dst
  OBVIOUS
<1>s. PICK s : s = bufferOp.src
  OBVIOUS
<1>1. InsertInv /\ bufferOp.next = {}
  <2>1. bufferOp.what = "insert" /\ bufferOp.next = {}
    BY DEF EndInsert
  <2>. QED
    BY <2>1 DEF BufferInv, CopyInv, NoOp
<1>2. /\ Pair /\ length[d] \in Nat /\ length[s] \in Nat /\ Arrived \in Nat
      /\ Tiled(chunks[d], length[d], 0)
      /\ \A b \in spoiled : Visible(b) = <<>>
      /\ \A b \in Buffer \ spoiled : b \notin {d, s} =>
           Tiled(chunks[b], length[b], 0) /\ Visible(b) = Tokens(chunks[b], length[b])
  BY <1>1, <1>d, <1>s, PairFacts
<1>3. /\ d \in Buffer \ spoiled /\ s \in Buffer \ spoiled /\ d # s
      /\ length \in [Buffer -> Nat] /\ spoiled \subseteq Buffer /\ chunks = [x \in Buffer |-> chunks[x]]
  BY <1>2, <1>d, <1>s DEF Pair, BufferInv, BufferType
<1>4. /\ chunks' = [chunks EXCEPT ![s] = NoChunks] /\ length' = [length EXCEPT ![s] = 0]
      /\ bufferOp' = NoOp /\ spoiled' = spoiled
  BY <1>s DEF EndInsert
<1>5. /\ chunks'[s] = NoChunks /\ length'[s] = 0
      /\ \A x \in Buffer : x # s => chunks'[x] = chunks[x] /\ length'[x] = length[x]
  BY <1>3, <1>4
<1>6. BufferType'
  <2>1. chunks' = [x \in Buffer |-> chunks'[x]]
    BY <1>3, <1>4
  <2>2. length' \in [Buffer -> Nat]
    BY <1>3, <1>4
  <2>. QED
    BY <1>3, <1>4, <2>1, <2>2 DEF BufferType
<1>7. ASSUME NEW x \in Buffer \ spoiled
      PROVE  Tiled(chunks'[x], length'[x], 0)
  <2>1. CASE x = s
    BY <1>5, <2>1, EmptyTiled
  <2>2. CASE x = d
    BY <1>2, <1>3, <1>5, <2>2
  <2>3. CASE x # d /\ x # s
    BY <1>2, <1>5, <2>3
  <2>. QED
    BY <2>1, <2>2, <2>3
<1>8. /\ BufferInv'
      /\ \A x \in Buffer : Visible(x)' = IF x \in spoiled' THEN <<>> ELSE Tokens(chunks'[x], length'[x])
  BY <1>4, <1>6, <1>7, QuietNext
<1>9. Arrived = length[s]
  <2>1. Tiled(chunks[s], length[s], Arrived) /\ {k \in DOMAIN chunks[s] : k >= Arrived} = {}
    BY <1>1, <1>s DEF InsertInv
  <2>2. Arrived \in DOMAIN chunks[s] \cup {length[s]}
    BY <2>1 DEF Tiled
  <2>3. Arrived >= Arrived
    BY <1>2
  <2>. QED
    BY <2>1, <2>2, <2>3
<1>10. /\ Tokens(chunks[d], length[d]) = Visible(d) \o SubSeq(Visible(s), 1, Arrived)
       /\ Visible(s) \in Seq(Token) /\ Len(Visible(s)) = length[s]
  BY <1>1, <1>d, <1>s, InsertedPrefix, InsertSource
<1>11. SubSeq(Visible(s), 1, Arrived) = Visible(s)
  <2>1. PICK v \in Seq(Token) : v = Visible(s)
    BY <1>10
  <2>2. Len(v) = Arrived /\ SubSeq(v, 1, Len(v)) = v
    BY <1>9, <1>10, <2>1
  <2>. QED
    BY <2>1, <2>2
<1>12. /\ Visible(d)' = Visible(d) \o Visible(s)
       /\ Visible(s)' = <<>>
       /\ \A x \in Buffer : x # d /\ x # s => Visible(x)' = Visible(x)
  <2>1. Visible(d)' = Tokens(chunks[d], length[d])
    BY <1>3, <1>4, <1>5, <1>8
  <2>2. Visible(s)' = <<>>
    <3>1. Visible(s)' = Tokens(NoChunks, 0)
      BY <1>3, <1>4, <1>5, <1>8
    <3>. QED
      BY <3>1, EmptyTiled
  <2>3. ASSUME NEW x \in Buffer, x # d, x # s
        PROVE  Visible(x)' = Visible(x)
    <3>1. Visible(x)' = IF x \in spoiled THEN <<>> ELSE Tokens(chunks[x], length[x])
      BY <1>4, <1>5, <1>8, <2>3
    <3>. QED
      BY <1>2, <2>3, <3>1
  <2>. QED
    BY <1>10, <1>11, <2>1, <2>2, <2>3
<1>13. Sequence!Concat(d, s)
  <2>. DEFINE w == [x \in Buffer |-> Visible(x)]
  <2>1. w' = [w EXCEPT ![d] = @ \o w[s], ![s] = <<>>]
    BY <1>3, <1>12
  <2>. QED
    BY <1>3, <1>4, <2>1 DEF Sequence!Concat
<1>. QED
  BY <1>3, <1>8, <1>13 DEF SequenceStep, Sequence!SequenceNext

-----------------------------------------------------------------------------
(* The theorems *)

\* Every step of a token buffer keeps the invariant and is a step of a sequence.
LEMMA BufferStep ==
  ASSUME BufferInv, [BufferNext]_bufferVars
  PROVE  BufferInv' /\ SequenceStep
<1>1. CASE \E b \in Buffer : Emplace(b) \/ Pop(b) \/ Reset(b)
  BY <1>1, EmplaceStep, PopStep, ResetStep
<1>2. CASE \E d, s \in Buffer : d # s /\ (BeginInsert(d, s) \/ BeginCopy(d, s))
  BY <1>2, BeginInsertStep, BeginCopyStep
<1>3. CASE CopyToken \/ EndCopy
  BY <1>3, CopyTokenStep, EndCopyStep
<1>4. CASE MoveChunk \/ MoveFails \/ EndInsert
  BY <1>4, MoveChunkStep, MoveFailsStep, EndInsertStep
<1>5. CASE UNCHANGED bufferVars
  <2>1. BufferInv'
    BY <1>5 DEF BufferInv, BufferType, Whole, CopyInv, InsertInv, Pair, Arrived, bufferVars
  <2>2. UNCHANGED <<[b \in Buffer |-> Visible(b)], spoiled>>
    BY <1>5 DEF Visible, Arrived, bufferVars
  <2>. QED
    BY <2>1, <2>2 DEF SequenceStep
<1>. QED
  BY <1>1, <1>2, <1>3, <1>4, <1>5 DEF BufferNext

\* Initially every buffer is empty, and is an empty sequence.
LEMMA BufferStart ==
  ASSUME BufferInit
  PROVE  BufferInv /\ Sequence!SequenceInit
<1>1. /\ chunks = [b \in Buffer |-> NoChunks] /\ length = [b \in Buffer |-> 0]
      /\ bufferOp = NoOp /\ spoiled = {}
  BY DEF BufferInit
<1>2. bufferOp.what = "none"
  BY <1>1 DEF NoOp
<1>3. BufferType
  BY <1>1 DEF BufferType
<1>4. \A b \in Buffer : Tiled(chunks[b], length[b], 0)
  BY <1>1, EmptyTiled
<1>5. BufferInv
  BY <1>1, <1>3, <1>4 DEF BufferInv, Whole
<1>6. \A b \in Buffer : Visible(b) = <<>>
  BY <1>1, <1>2, EmptyTiled DEF Visible
<1>. QED
  BY <1>1, <1>5, <1>6 DEF Sequence!SequenceInit

\* The invariant of the token buffers, for any number of buffers, any chunk
\* capacities and any tokens: the chunks of a buffer tile it from its first token
\* to its last, and while an insertion is under way the chunks of its source that
\* have not moved tile the rest of it.
THEOREM BufferInvariant == BufferSpec => []BufferInv
<1>1. BufferInit => BufferInv
  BY BufferStart
<1>2. BufferInv /\ [BufferNext]_bufferVars => BufferInv'
  BY BufferStep
<1>. QED
  BY <1>1, <1>2, PTL DEF BufferSpec

\* No chunk is empty or longer than its memory, and capacities stay powers of two
\* up to MAX_CHUNK_LENGTH, whatever mixture of emplace, pop, copy and insert
\* produced the chunks.
THEOREM ChunksAlwaysFit == BufferSpec => []ChunksFit
<1>1. BufferInv => ChunksFit
  <2>1. SUFFICES ASSUME BufferInv, NEW b \in Whole, NEW k \in DOMAIN chunks[b]
                 PROVE  GoodChunk(chunks[b][k])
    BY DEF ChunksFit, GoodChunk
  <2>2. Tiled(chunks[b], length[b], 0)
    BY <2>1 DEF BufferInv
  <2>3. k \in Nat
    BY <2>2 DEF Tiled
  <2>. QED
    BY <2>2, <2>3 DEF Tiled
<1>. QED
  BY <1>1, BufferInvariant, PTL

\* The chunked token buffers implement plain sequences of tokens: copying and
\* inserting, which take one step for each token or chunk and may fail on the way,
\* append the tokens of the source in order, and nothing in between is seen.
THEOREM BufferIsSequence == BufferSpec => TokensAreSequence
<1>1. BufferInit => Sequence!SequenceInit
  BY BufferStart
<1>2. BufferInv /\ [BufferNext]_bufferVars
      => [Sequence!SequenceNext]_<<[b \in Buffer |-> Visible(b)], spoiled>>
  BY BufferStep DEF SequenceStep
<1>. QED
  BY <1>1, <1>2, BufferInvariant, PTL DEF BufferSpec, TokensAreSequence, Sequence!SequenceSpec
=============================================================================
