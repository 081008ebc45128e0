---------------------------- MODULE BLERingBuf_proofs ----------------------------
(***************************************************************************)
(* Proofs about BLERingBuf, for every capacity, all sizes of packets and   *)
(* any number of bytes: the indices, the counter and the headers in the    *)
(* memory agree, what the consumer looks at is intact, and the bytes come  *)
(* out in order.                                                           *)
(*                                                                         *)
(* The argument is that the memory in use is a chain of chunks: each of    *)
(* them begins with a header, and where it ends the next one begins, up to *)
(* the end of what is in use.  This is true of the part that the producer  *)
(* has published in `size`, on which pop relies, and of the part with the  *)
(* chunks that push has written and is about to publish.  push adds one or *)
(* two chunks at the end of the chain (AddChunk); pop takes the first one  *)
(* from it (DropFirst), or shortens it to a header (ShrinkFirst).          *)
(***************************************************************************)
EXTENDS BLERingBuf, TLAPS

Empty == [size |-> 0, type |-> "None"]

\* The headers as pop sees them: PopEmpty has yet to write the one at readP.
Headers == IF cpc = "empty" THEN [header EXCEPT ![readP] = Empty] ELSE header

\* The distance from the offset r to the offset p, around the ring.
Dist(r, p) == IF p >= r THEN p - r ELSE p - r + Capacity

\* What a chunk of the given length takes in the memory.
Space(length) == HeaderSize + CeilH(length)

\* There is a header at p, less than u bytes behind r.
Live(h, r, u, p) == p \in Words /\ Dist(r, p) < u /\ h[p] # NoHeader

\* The chunk at p fits into the u bytes behind r; if it does not end with them,
\* another one follows; its data is not taken for headers.
ChunkOK(h, r, u, p) ==
  /\ p + Space(h[p].size) <= Capacity
  /\ Dist(r, p) + Space(h[p].size) <= u
  /\ Dist(r, p) + Space(h[p].size) < u => h[Wrap(p + Space(h[p].size))] # NoHeader
  /\ \A q \in Words : p < q /\ q < p + Space(h[p].size) => h[q] = NoHeader

\* The bytes in the chunk at p are those behind b[p], the last one of all is t,
\* and the numbers go on in the next chunk.
BytesOK(h, c, r, u, b, t, p) ==
  /\ Dist(r, p) + Space(h[p].size) < u => b[Wrap(p + Space(h[p].size))] = b[p] + h[p].size
  /\ Dist(r, p) + Space(h[p].size) = u => t = b[p] + h[p].size
  /\ b[p] + h[p].size <= t
  /\ t - b[p] <= u - Dist(r, p) - HeaderSize
  /\ \A i \in 1..h[p].size : c[p + HeaderSize + i - 1] = b[p] + i

\* The u bytes behind r are a chain of chunks.
Chain(h, c, r, u, b, t) ==
  /\ h[r] # NoHeader
  /\ \A p \in Words : Live(h, r, u, p) => ChunkOK(h, r, u, p) /\ BytesOK(h, c, r, u, b, t, p)

\* From the distance d on, up to u, the memory and the numbers are the same.
Agree(h, c, b, h2, c2, b2, r, d, u) ==
  /\ \A q \in Words : d <= Dist(r, q) /\ Dist(r, q) < u => h2[q] = h[q] /\ b2[q] = b[q]
  /\ \A q \in Offsets : d <= Dist(r, q) /\ Dist(r, q) < u => c2[q] = c[q]

\* There is a new chunk of length z at w, with the bytes behind t.
NewChunk(h, c, b, w, z, t) ==
  /\ h[w] # NoHeader /\ h[w].size = z /\ b[w] = t
  /\ \A q \in Words : w < q /\ q < w + Space(z) => h[q] = NoHeader
  /\ \A i \in 1..z : c[w + HeaderSize + i - 1] = t + i

\* What push has written and not published.
Written == IF ppc = "release" THEN pushing.length ELSE 0

\* The published part is a chain, and so is all that is written; the consumer
\* has seen what is in front of the first chunk, and that chunk too unless it has
\* just got to it.
ChainWith(b) ==
  /\ Chain(Headers, content, readP, size, b, accepted)
  /\ Chain(Headers, content, readP, size + addSize, b, accepted + Written)
  /\ settled = b[readP] + (IF cpc \in {"view", "take"} THEN 0 ELSE Headers[readP].size)

ChainInv == \E b \in [Words -> Nat] : ChainWith(b)

\* The counter, the indices and what push and pop remember.
StepInv ==
  /\ size >= HeaderSize /\ size + addSize <= Capacity
  /\ size + addSize = Between
  /\ ppc # "release" => addSize = 0
  /\ ppc # "idle" => accepted + pushing.length <= MaxBytes
  /\ ppc = "write" => Fits(pushing.length)
  /\ cpc = "free" => Space(header[readP].size) <= locSize /\ locSize <= size
  /\ cpc = "take" => view.start = readP + HeaderSize /\ view.length = header[readP].size
  /\ Len(wire) = settled

RInv == RingTypeOK /\ StepInv /\ ChainInv

--------------------------------------------------------------------------------
(***************************************************************************)
(* Arithmetic of the ring                                                  *)
(***************************************************************************)
\* Rounding up to whole headers adds at most one byte.
LEMMA CeilOK ==
  ASSUME NEW i \in Nat
  PROVE  /\ CeilH(i) \in Nat /\ CeilH(i) % 2 = 0
         /\ i <= CeilH(i) /\ CeilH(i) <= i + 1
  BY DEF CeilH, HeaderSize

LEMMA SpaceOK ==
  ASSUME NEW i \in Nat
  PROVE  /\ Space(i) \in Nat /\ Space(i) % 2 = 0
         /\ i + 2 <= Space(i) /\ Space(i) <= i + 3
  BY CeilOK DEF Space, HeaderSize

\* What fits below an even bound fits there when rounded up.
LEMMA CeilBelow ==
  ASSUME NEW i \in Nat, NEW bound \in Nat, bound % 2 = 0, i <= bound
  PROVE  CeilH(i) <= bound
  BY DEF CeilH, HeaderSize

\* The capacity is even and leaves room for data behind the first header.
LEMMA CapacityOK == Capacity \in Nat /\ Capacity % 2 = 0 /\ 2 < Capacity
  BY ConstantsAssumption DEF HeaderSize

LEMMA WordOK ==
  ASSUME NEW p
  PROVE  p \in Words <=> p \in Nat /\ p % 2 = 0 /\ p + 2 <= Capacity
  BY CapacityOK DEF Words, Offsets, HeaderSize

LEMMA DistOK ==
  ASSUME NEW r \in Words, NEW p \in Nat, p < Capacity
  PROVE  Dist(r, p) \in Nat /\ Dist(r, p) < Capacity /\ Dist(r, r) = 0
  BY CapacityOK, WordOK DEF Dist

\* The offsets of a chunk are as far from r as they are from its header.
LEMMA Inside ==
  ASSUME NEW r \in Words, NEW p \in Words, NEW n \in Nat,
         p + n <= Capacity, Dist(r, p) + n <= Capacity,
         NEW q \in Nat, p <= q, q < p + n
  PROVE  q \in Offsets /\ Dist(r, q) = Dist(r, p) + q - p
  BY CapacityOK, WordOK DEF Dist, Offsets

\* Where a chunk ends, another one can begin.
LEMMA NextWord ==
  ASSUME NEW p \in Words, NEW n \in Nat, n % 2 = 0, p + n <= Capacity
  PROVE  Wrap(p + n) \in Words
  BY CapacityOK, WordOK DEF Wrap

LEMMA NextDist ==
  ASSUME NEW r \in Words, NEW p \in Words, NEW n \in Nat, n % 2 = 0,
         p + n <= Capacity, Dist(r, p) + n < Capacity, 0 < n
  PROVE  Wrap(p + n) \in Words /\ Dist(r, Wrap(p + n)) = Dist(r, p) + n
  BY CapacityOK, WordOK, NextWord DEF Wrap, Dist

--------------------------------------------------------------------------------
(***************************************************************************)
(* Chains of chunks                                                        *)
(***************************************************************************)
\* A chunk does not depend on the memory in front of it, nor behind the end of
\* the chain.
LEMMA ChunkKept ==
  ASSUME NEW h, NEW c, NEW b, NEW h2, NEW c2, NEW b2,
         NEW r \in Words, NEW u \in 1..Capacity, NEW t \in Nat, NEW p \in Words,
         h[p].size \in Nat, Dist(r, p) < u,
         ChunkOK(h, r, u, p), BytesOK(h, c, r, u, b, t, p),
         Agree(h, c, b, h2, c2, b2, r, Dist(r, p), u)
  PROVE  ChunkOK(h2, r, u, p) /\ BytesOK(h2, c2, r, u, b2, t, p)
<1>1. PICK z \in Nat, n \in Nat, d \in Nat :
        z = h[p].size /\ n = Space(z) /\ d = Dist(r, p) /\ n % 2 = 0 /\ z + 2 <= n
  <2>1. PICK z \in Nat : z = h[p].size
    OBVIOUS
  <2>2. PICK n \in Nat : n = Space(z) /\ n % 2 = 0 /\ z + 2 <= n
    BY SpaceOK
  <2>3. Dist(r, p) \in Nat
    BY DistOK, WordOK, CapacityOK
  <2> QED BY <2>1, <2>2, <2>3
<1>2. h2[p] = h[p] /\ b2[p] = b[p]
  BY <1>1 DEF Agree
<1>3. p + n <= Capacity /\ d + n <= u /\ d + n <= Capacity /\ u <= Capacity
  BY <1>1, CapacityOK DEF ChunkOK
<1>4. \A q \in Nat : p <= q /\ q < p + n => q \in Offsets /\ Dist(r, q) = d + q - p
  BY <1>1, <1>3, Inside
<1>5. d + n < u => LET q == Wrap(p + n) IN h2[q] = h[q] /\ b2[q] = b[q]
  BY <1>1, <1>3, NextDist, CapacityOK DEF Agree
<1>6. \A q \in Words : p < q /\ q < p + n => h2[q] = h[q]
  <2> SUFFICES ASSUME NEW q \in Words, p < q, q < p + n PROVE h2[q] = h[q]
    OBVIOUS
  <2>1. p \in Nat /\ q \in Nat
    BY WordOK
  <2>2. Dist(r, q) = d + q - p
    BY <1>4, <2>1
  <2> QED BY <1>1, <1>3, <2>1, <2>2 DEF Agree
<1>7. ASSUME NEW i \in 1..z PROVE c2[p + HeaderSize + i - 1] = b2[p] + i
  <2>1. PICK q \in Nat : q = p + HeaderSize + i - 1 /\ p <= q /\ q < p + n /\ p \in Nat
    BY <1>1, WordOK DEF HeaderSize
  <2>2. q \in Offsets /\ Dist(r, q) = d + q - p
    BY <1>4, <2>1
  <2>3. d <= Dist(r, q) /\ Dist(r, q) < u
    BY <1>1, <1>3, <2>1, <2>2
  <2>4. c2[q] = c[q]
    BY <1>1, <2>2, <2>3 DEF Agree
  <2> QED BY <1>1, <1>2, <2>1, <2>4 DEF BytesOK
<1>8. ChunkOK(h2, r, u, p)
  BY <1>1, <1>2, <1>5, <1>6 DEF ChunkOK
<1>9. BytesOK(h2, c2, r, u, b2, t, p)
  BY <1>1, <1>2, <1>5, <1>7 DEF BytesOK
<1> QED BY <1>8, <1>9

\* A chain does not depend on the memory behind its end.
LEMMA ChainKept ==
  ASSUME NEW h, NEW c, NEW b, NEW h2, NEW c2, NEW b2,
         NEW r \in Words, NEW u \in 1..Capacity, NEW t \in Nat,
         \A p \in Words : h[p].size \in Nat,
         Chain(h, c, r, u, b, t),
         Agree(h, c, b, h2, c2, b2, r, 0, u)
  PROVE  Chain(h2, c2, r, u, b2, t)
<1>1. h2[r] # NoHeader
  BY DistOK, WordOK, CapacityOK DEF Chain, Agree
<1>2. ASSUME NEW p \in Words, Live(h2, r, u, p)
      PROVE  ChunkOK(h2, r, u, p) /\ BytesOK(h2, c2, r, u, b2, t, p)
  <2>1. Dist(r, p) < u /\ ChunkOK(h, r, u, p) /\ BytesOK(h, c, r, u, b, t, p)
    <3>1. Dist(r, p) \in Nat /\ Dist(r, p) < u
      BY <1>2, DistOK, WordOK, CapacityOK DEF Live
    <3>2. h2[p] = h[p]
      BY <3>1 DEF Agree
    <3> QED BY <1>2, <3>2 DEF Live, Chain
  <2>2. Agree(h, c, b, h2, c2, b2, r, Dist(r, p), u)
    <3>1. Dist(r, p) \in Nat /\ \A q \in Offsets : Dist(r, q) \in Nat
      BY DistOK, WordOK, CapacityOK DEF Offsets
    <3>2. Words \subseteq Offsets
      BY DEF Words
    <3> QED BY <3>1, <3>2 DEF Agree
  <2> QED BY <2>1, <2>2, ChunkKept
<1> QED BY <1>1, <1>2 DEF Chain

\* Two headers at the same distance are the same.
LEMMA SameDist ==
  ASSUME NEW r \in Words, NEW p \in Words, NEW q \in Words, Dist(r, p) = Dist(r, q)
  PROVE  p = q
  BY CapacityOK, WordOK DEF Dist

\* What agrees from the distance of r2 on agrees behind r2.
LEMMA AgreeBehind ==
  ASSUME NEW h, NEW c, NEW b, NEW h2, NEW c2, NEW b2,
         NEW r \in Words, NEW u \in 1..Capacity, NEW r2 \in Words, NEW m \in Nat,
         Dist(r, r2) = m, m < u, Agree(h, c, b, h2, c2, b2, r, m, u)
  PROVE  Agree(h, c, b, h2, c2, b2, r2, 0, u - m)
<1>1. ASSUME NEW q \in Offsets, Dist(r2, q) < u - m
      PROVE  m <= Dist(r, q) /\ Dist(r, q) < u
  BY <1>1, CapacityOK, WordOK DEF Dist, Offsets
<1>2. Words \subseteq Offsets
  BY DEF Words
<1> QED BY <1>1, <1>2 DEF Agree

LEMMA AgreeLess ==
  ASSUME NEW h, NEW c, NEW b, NEW h2, NEW c2, NEW b2, NEW r \in Words,
         NEW u \in 1..Capacity, NEW v \in 1..Capacity, u <= v,
         Agree(h, c, b, h2, c2, b2, r, 0, v)
  PROVE  Agree(h, c, b, h2, c2, b2, r, 0, u)
<1>1. \A q \in Offsets : Dist(r, q) \in Nat
  BY DistOK, CapacityOK DEF Offsets
<1>2. Words \subseteq Offsets
  BY DEF Words
<1> QED BY <1>1, <1>2 DEF Agree

\* A chunk is added at the end of a chain.
LEMMA AddChunk ==
  ASSUME NEW h, NEW c, NEW b, NEW h2, NEW c2, NEW b2,
         NEW r \in Words, NEW u \in 1..Capacity, NEW t \in Nat,
         NEW w \in Words, NEW z \in Nat,
         \A p \in Words : h[p].size \in Nat,
         \A p \in Words : h2[p].size \in Nat,
         \A p \in Words : b2[p] \in Nat,
         Chain(h, c, r, u, b, t),
         Dist(r, w) = u, w + Space(z) <= Capacity, u + Space(z) <= Capacity,
         Agree(h, c, b, h2, c2, b2, r, 0, u),
         NewChunk(h2, c2, b2, w, z, t)
  PROVE  Chain(h2, c2, r, u + Space(z), b2, t + z)
<1>1. Chain(h2, c2, r, u, b2, t)
  <2>1. \A p \in Words : h[p].size \in Nat
    OBVIOUS
  <2> QED BY <2>1, ChainKept
<1>2. /\ h2[w] # NoHeader /\ h2[w].size = z /\ b2[w] = t
      /\ \A q \in Words : w < q /\ q < w + Space(z) => h2[q] = NoHeader
      /\ \A i \in 1..z : c2[w + HeaderSize + i - 1] = t + i
  BY DEF NewChunk
<1>3. PICK n \in Nat : n = Space(z) /\ n % 2 = 0 /\ z + 2 <= n
  BY SpaceOK
<1>4. u + n \in Nat /\ u < u + n /\ u \in Nat
  BY <1>3
<1>5. ASSUME NEW p \in Words, Live(h2, r, u + n, p)
      PROVE  ChunkOK(h2, r, u + n, p) /\ BytesOK(h2, c2, r, u + n, b2, t + z, p)
  <2>1. PICK d \in Nat : d = Dist(r, p)
    BY DistOK, WordOK, CapacityOK
  <2>2. CASE d < u
    <3>1. ChunkOK(h2, r, u, p) /\ BytesOK(h2, c2, r, u, b2, t, p)
      BY <1>1, <1>5, <2>1, <2>2 DEF Live, Chain
    <3>2. PICK y \in Nat, m \in Nat, a \in Nat :
            y = h2[p].size /\ m = Space(y) /\ m % 2 = 0 /\ y + 2 <= m /\ a = b2[p]
      <4>1. PICK y \in Nat, a \in Nat : y = h2[p].size /\ a = b2[p]
        OBVIOUS
      <4> QED BY <4>1, SpaceOK
    <3>3. CASE d + m < u
      <4>1. ChunkOK(h2, r, u + n, p)
        BY <1>4, <2>1, <3>1, <3>2, <3>3 DEF ChunkOK
      <4>2. BytesOK(h2, c2, r, u + n, b2, t + z, p)
        BY <1>3, <1>4, <2>1, <3>1, <3>2, <3>3 DEF BytesOK, HeaderSize
      <4> QED BY <4>1, <4>2
    <3>4. CASE d + m = u
      <4>1. Wrap(p + m) = w
        <5>1. p + m <= Capacity /\ d + m < Capacity /\ 0 < m
          BY <1>3, <2>1, <3>1, <3>2, <3>4, CapacityOK DEF ChunkOK
        <5>2. Wrap(p + m) \in Words /\ Dist(r, Wrap(p + m)) = d + m
          BY <2>1, <3>2, <5>1, NextDist
        <5> QED BY <3>4, <5>2, SameDist
      <4>2. ChunkOK(h2, r, u + n, p)
        BY <1>3, <1>4, <1>2, <2>1, <3>1, <3>2, <3>4, <4>1 DEF ChunkOK
      <4>3. BytesOK(h2, c2, r, u + n, b2, t + z, p)
        BY <1>3, <1>4, <1>2, <2>1, <3>1, <3>2, <3>4, <4>1 DEF BytesOK, HeaderSize
      <4> QED BY <4>2, <4>3
    <3>5. d + m <= u
      BY <2>1, <3>1, <3>2 DEF ChunkOK
    <3> QED BY <3>2, <3>3, <3>4, <3>5
  <2>3. CASE ~(d < u)
    <3>1. p = w
      <4>1. p \in Nat /\ w \in Nat /\ p < Capacity /\ h2[p] # NoHeader /\ d < u + n
        BY <1>5, <2>1, WordOK, CapacityOK DEF Live
      <4>2. p = w + (d - u)
        BY <1>3, <2>1, <2>3, <4>1, CapacityOK, WordOK DEF Dist
      <4> QED BY <1>3, <1>2, <2>3, <4>1, <4>2
    <3>2. ChunkOK(h2, r, u + n, p)
      BY <1>3, <1>4, <1>2, <3>1 DEF ChunkOK
    <3>3. BytesOK(h2, c2, r, u + n, b2, t + z, p)
      BY <1>3, <1>4, <1>2, <3>1 DEF BytesOK, HeaderSize
    <3> QED BY <3>2, <3>3
  <2> QED BY <2>2, <2>3
<1> QED BY <1>1, <1>3, <1>5 DEF Chain

\* All distances between headers are even.
LEMMA DistEven ==
  ASSUME NEW r \in Words, NEW p \in Words
  PROVE  Dist(r, p) % 2 = 0
  BY CapacityOK, WordOK DEF Dist

\* The distances from the header r2, m bytes behind r.
LEMMA SuffixDist ==
  ASSUME NEW r \in Words, NEW u \in 1..Capacity, NEW r2 \in Words, NEW m \in Nat,
         Dist(r, r2) = m, m < u, NEW p \in Words, Dist(r2, p) < u - m
  PROVE  Dist(r, p) = Dist(r2, p) + m
  BY CapacityOK, WordOK DEF Dist

\* What is said of a chunk holds of the chain without what is in front of it.
LEMMA Suffix ==
  ASSUME NEW h, NEW c, NEW b, NEW r \in Words, NEW u \in 1..Capacity, NEW t \in Nat,
         NEW r2 \in Words, NEW m \in Nat, Dist(r, r2) = m, m < u,
         NEW p \in Words, Dist(r2, p) < u - m
  PROVE  /\ h[p].size \in Nat /\ ChunkOK(h, r, u, p) => ChunkOK(h, r2, u - m, p)
         /\ h[p].size \in Nat /\ BytesOK(h, c, r, u, b, t, p)
              => BytesOK(h, c, r2, u - m, b, t, p)
<1>1. PICK d \in Nat : d = Dist(r2, p)
  BY DistOK, WordOK, CapacityOK
<1>2. Dist(r, p) = d + m
  BY <1>1, SuffixDist
<1>3. ASSUME h[p].size \in Nat, ChunkOK(h, r, u, p)
      PROVE  ChunkOK(h, r2, u - m, p)
  <2>1. PICK n \in Nat : n = Space(h[p].size)
    BY <1>3, SpaceOK
  <2> QED BY <1>1, <1>2, <1>3, <2>1 DEF ChunkOK
<1>4. ASSUME h[p].size \in Nat, BytesOK(h, c, r, u, b, t, p)
      PROVE  BytesOK(h, c, r2, u - m, b, t, p)
  <2>1. PICK n \in Nat : n = Space(h[p].size)
    BY <1>4, SpaceOK
  <2> QED BY <1>1, <1>2, <1>4, <2>1 DEF BytesOK, HeaderSize
<1> QED BY <1>1, <1>2, <1>3, <1>4

\* A chain without its first chunk is one.
LEMMA DropFirst ==
  ASSUME NEW h, NEW c, NEW b, NEW r \in Words, NEW u \in 1..Capacity, NEW t \in Nat,
         \A p \in Words : h[p].size \in Nat,
         Chain(h, c, r, u, b, t), Space(h[r].size) < u
  PROVE  LET r2 == Wrap(r + Space(h[r].size))
         IN  /\ r2 \in Words /\ Dist(r, r2) = Space(h[r].size)
             /\ r + Space(h[r].size) <= Capacity
             /\ b[r2] = b[r] + h[r].size
             /\ Chain(h, c, r2, u - Space(h[r].size), b, t)
<1>1. PICK n \in Nat : n = Space(h[r].size) /\ n % 2 = 0 /\ 0 < n
  <2>1. PICK z \in Nat : z = h[r].size
    OBVIOUS
  <2>2. PICK n \in Nat : n = Space(z) /\ n % 2 = 0 /\ z + 2 <= n
    BY SpaceOK
  <2>3. 0 < n
    BY <2>2
  <2> QED BY <2>1, <2>2, <2>3
<1>2. Dist(r, r) = 0 /\ u \in Nat /\ u <= Capacity
  BY DistOK, WordOK, CapacityOK
<1>3. ChunkOK(h, r, u, r) /\ BytesOK(h, c, r, u, b, t, r)
  BY <1>2 DEF Chain, Live
<1>4. PICK r2 : r2 = Wrap(r + n)
  OBVIOUS
<1>5. r + n <= Capacity /\ h[r2] # NoHeader /\ b[r2] = b[r] + h[r].size
  BY <1>1, <1>2, <1>3, <1>4 DEF ChunkOK, BytesOK
<1>6. r2 \in Words /\ Dist(r, r2) = n
  <2>1. Dist(r, r) + n < Capacity
    BY <1>1, <1>2, CapacityOK
  <2> QED BY <1>1, <1>2, <1>4, <1>5, <2>1, NextDist
<1>7. ASSUME NEW p \in Words, Live(h, r2, u - n, p)
      PROVE  ChunkOK(h, r2, u - n, p) /\ BytesOK(h, c, r2, u - n, b, t, p)
  <2>1. Dist(r2, p) < u - n /\ h[p].size \in Nat /\ Dist(r2, p) \in Nat
    BY <1>6, <1>7, DistOK, WordOK, CapacityOK DEF Live
  <2>2. Dist(r, p) = Dist(r2, p) + n
    BY <1>1, <1>6, <2>1, SuffixDist
  <2>3. Live(h, r, u, p)
    BY <1>1, <1>7, <2>1, <2>2 DEF Live
  <2>4. ChunkOK(h, r, u, p) /\ BytesOK(h, c, r, u, b, t, p)
    BY <2>3 DEF Chain
  <2> QED BY <1>1, <1>6, <2>1, <2>4, Suffix
<1>8. Chain(h, c, r2, u - n, b, t)
  BY <1>5, <1>7 DEF Chain
<1> QED BY <1>1, <1>4, <1>5, <1>6, <1>8

\* A chain remains one when its first chunk is reduced to a header, at the end of
\* where the chunk was.
LEMMA ShrinkFirst ==
  ASSUME NEW h, NEW c, NEW b, NEW h2, NEW c2, NEW b2,
         NEW r \in Words, NEW u \in 1..Capacity, NEW t \in Nat, NEW n \in Nat, NEW r2 \in Words,
         \A p \in Words : h[p].size \in Nat /\ b[p] \in Nat,
         Chain(h, c, r, u, b, t),
         n = CeilH(h[r].size), r2 = r + n,
         h2[r2] = Empty, b2[r2] = b[r] + h[r].size,
         Agree(h, c, b, h2, c2, b2, r, n + 2, u)
  PROVE  Chain(h2, c2, r2, u - n, b2, t)
<1>1. PICK z \in Nat, a \in Nat : z = h[r].size /\ a = b[r]
  OBVIOUS
<1>2. n + 2 = Space(z) /\ (n + 2) % 2 = 0
  <2>1. n + 2 = Space(z)
    BY <1>1, CeilOK DEF Space, HeaderSize
  <2> QED BY <2>1, SpaceOK
<1>3. Dist(r, r) = 0 /\ u \in Nat /\ u <= Capacity
  BY DistOK, WordOK, CapacityOK
<1>4. ChunkOK(h, r, u, r) /\ BytesOK(h, c, r, u, b, t, r)
  BY <1>3 DEF Chain, Live
<1>5. r + n + 2 <= Capacity /\ n + 2 <= u /\ r \in Nat
  BY <1>1, <1>2, <1>3, <1>4, WordOK DEF ChunkOK
<1>6. Dist(r, r2) = n /\ n < u /\ u - n \in 1..Capacity
  BY <1>3, <1>5, CapacityOK DEF Dist
<1>7. PICK s : s = Wrap(r2 + 2)
  OBVIOUS
<1>8. Wrap(r + (n + 2)) = s /\ 2 = Space(0) /\ r2 + 2 <= Capacity
  BY <1>5, <1>7 DEF Space, CeilH, HeaderSize
<1>9. ASSUME n + 2 < u
      PROVE  h2[s] # NoHeader /\ b2[s] = a + z /\ t - (a + z) <= u - n - 4 /\ a + z <= t
  <2>1. h[s] # NoHeader /\ b[s] = a + z
    BY <1>1, <1>2, <1>3, <1>4, <1>5, <1>8, <1>9 DEF ChunkOK, BytesOK
  <2>2. s \in Words /\ Dist(r, s) = n + 2
    <3>1. Dist(r, r) + (n + 2) < Capacity /\ (n + 2) % 2 = 0 /\ n + 2 \in Nat
      BY <1>2, <1>3, <1>9, CapacityOK
    <3> QED BY <1>3, <1>5, <1>8, <3>1, NextDist
  <2>3. h2[s] = h[s] /\ b2[s] = b[s]
    BY <1>3, <1>9, <2>2 DEF Agree
  <2>4. BytesOK(h, c, r, u, b, t, s) /\ a + z <= t
    BY <1>1, <1>4, <1>9, <2>1, <2>2 DEF Chain, Live, BytesOK
  <2>5. t - (a + z) <= u - (n + 2) - 2
    BY <2>1, <2>2, <2>4 DEF BytesOK, HeaderSize
  <2> QED BY <1>3, <2>1, <2>3, <2>4, <2>5
<1>10. n + 2 = u => t = a + z
  BY <1>1, <1>2, <1>3, <1>4 DEF BytesOK
<1>11. ChunkOK(h2, r2, u - n, r2) /\ BytesOK(h2, c2, r2, u - n, b2, t, r2)
  <2>1. h2[r2].size = 0 /\ Dist(r2, r2) = 0 /\ r2 \in Nat /\ b2[r2] = a + z /\ a + z \in Nat
    BY <1>1, DistOK, WordOK, CapacityOK DEF Empty
  <2>2. \A q \in Words : ~(r2 < q /\ q < r2 + 2)
    BY WordOK
  <2>3. ChunkOK(h2, r2, u - n, r2)
    BY <1>3, <1>5, <1>7, <1>8, <1>9, <2>1, <2>2 DEF ChunkOK
  <2>4. BytesOK(h2, c2, r2, u - n, b2, t, r2)
    BY <1>3, <1>5, <1>7, <1>8, <1>9, <1>10, <2>1 DEF BytesOK, HeaderSize
  <2> QED BY <2>3, <2>4
<1>12. ASSUME NEW p \in Words, Live(h2, r2, u - n, p), p # r2
      PROVE  ChunkOK(h2, r2, u - n, p) /\ BytesOK(h2, c2, r2, u - n, b2, t, p)
  <2>1. PICK d \in Nat : d = Dist(r2, p) /\ d < u - n
    BY <1>12, DistOK, WordOK, CapacityOK DEF Live
  <2>2. Dist(r, p) = d + n
    BY <1>6, <2>1, SuffixDist
  <2>3. 2 <= d
    <3>1. d # 0
      BY <1>12, <2>1, SameDist, DistOK, WordOK, CapacityOK
    <3> QED BY <2>1, <3>1, DistEven
  <2>4. h2[p] = h[p] /\ b2[p] = b[p] /\ Dist(r, p) < u
    BY <1>3, <2>1, <2>2, <2>3 DEF Agree
  <2>5. ChunkOK(h, r, u, p) /\ BytesOK(h, c, r, u, b, t, p)
    BY <1>12, <2>4 DEF Chain, Live
  <2>6. Agree(h, c, b, h2, c2, b2, r, Dist(r, p), u)
    <3>1. \A q \in Offsets : Dist(r, q) \in Nat
      BY DistOK, CapacityOK DEF Offsets
    <3>2. Words \subseteq Offsets
      BY DEF Words
    <3> QED BY <2>2, <2>3, <3>1, <3>2 DEF Agree
  <2>7. ChunkOK(h2, r, u, p) /\ BytesOK(h2, c2, r, u, b2, t, p)
    BY <2>4, <2>5, <2>6, ChunkKept
  <2>8. h2[p].size \in Nat
    BY <2>4
  <2> QED BY <1>6, <2>1, <2>7, <2>8, Suffix
<1>13. h2[r2] # NoHeader
  BY DEF Empty, NoHeader
<1> QED BY <1>11, <1>12, <1>13 DEF Chain

--------------------------------------------------------------------------------
(***************************************************************************)
(* The steps                                                               *)
(***************************************************************************)
LEMMA HeadersOK ==
  ASSUME RingTypeOK
  PROVE  /\ Headers \in [Words -> Header \cup {NoHeader}]
         /\ \A p \in Words : Headers[p].size \in Nat /\ header[p].size \in Nat
<1>1. Empty \in Header
  BY CapacityOK DEF Empty, Header, Types
<1>2. Headers \in [Words -> Header \cup {NoHeader}]
  BY <1>1 DEF RingTypeOK, Headers
<1>3. \A x \in Header \cup {NoHeader} : x.size \in Nat
  BY CapacityOK DEF Header, NoHeader
<1> QED BY <1>2, <1>3 DEF RingTypeOK

\* The numbers in the types.
LEMMA NumbersOK ==
  ASSUME RingTypeOK
  PROVE  /\ size \in Nat /\ addSize \in Nat /\ locSize \in Nat
         /\ accepted \in Nat /\ settled \in Nat /\ pushing.length \in Nat
         /\ readP \in Words /\ writeP \in Words
         /\ readP \in Nat /\ writeP \in Nat /\ MaxBytes \in Nat
  BY CapacityOK, WordOK, ConstantsAssumption DEF RingTypeOK, Chunk

\* At least a header is in use, and never more than there is.
LEMMA InUseOK ==
  ASSUME RInv
  PROVE  /\ readP \in Words /\ readP \in Nat /\ Dist(readP, readP) = 0
         /\ size \in Nat /\ addSize \in Nat /\ 0 < size /\ 2 <= size
         /\ size + addSize <= Capacity
<1>1. readP \in Words /\ readP \in Nat /\ size \in Nat /\ addSize \in Nat
  BY NumbersOK DEF RInv
<1>2. size >= 2 /\ size + addSize <= Capacity
  BY DEF RInv, StepInv, HeaderSize
<1>3. Dist(readP, readP) = 0
  BY <1>1, DistOK, WordOK, CapacityOK
<1> QED BY <1>1, <1>2, <1>3

\* The first chunk of what is in use is published as a whole.
LEMMA FirstChunk ==
  ASSUME RInv
  PROVE  /\ Headers[readP] # NoHeader
         /\ readP + Space(Headers[readP].size) <= Capacity
         /\ Space(Headers[readP].size) <= size
<1>1. PICK b \in [Words -> Nat] : ChainWith(b)
  BY DEF RInv, ChainInv
<1>2. readP \in Words /\ Dist(readP, readP) = 0 /\ 0 < size
  BY InUseOK
<1>3. ChunkOK(Headers, readP, size, readP) /\ Headers[readP] # NoHeader
  BY <1>1, <1>2 DEF ChainWith, Chain, Live
<1>4. Space(Headers[readP].size) \in Nat
  BY <1>2, HeadersOK, SpaceOK DEF RInv
<1> QED BY <1>2, <1>3, <1>4 DEF ChunkOK

LEMMA InitStep == RingInit => RInv
<1> SUFFICES ASSUME RingInit PROVE RInv
  OBVIOUS
<1>1. 0 \in Words /\ 2 \in Words /\ 2 \in 0..Capacity /\ 0 \in 0..Capacity
  <2>1. 4 <= Capacity /\ Capacity \in Nat
    BY CapacityOK
  <2>2. 0 % 2 = 0 /\ 2 % 2 = 0
    OBVIOUS
  <2> QED BY <2>1, <2>2, WordOK
<1>2. header[0] = Empty /\ Headers = header
  BY <1>1 DEF RingInit, Empty, Headers
<1>3. RingTypeOK
  <2>1. Empty \in Header /\ NoView \in [start : 0..Capacity, length : 0..Capacity, type : Types]
        /\ Nothing \in Chunk
    BY <1>1 DEF Empty, Header, Types, NoView, Nothing, Chunk
  <2>2. header \in [Words -> Header \cup {NoHeader}]
    BY <2>1 DEF RingInit, Empty
  <2>3. content \in [Offsets -> 0..MaxBytes] /\ 0 \in 0..MaxBytes
    BY ConstantsAssumption DEF RingInit
  <2> QED BY <1>1, <2>1, <2>2, <2>3 DEF RingInit, RingTypeOK, HeaderSize
<1>4. StepInv
  BY CapacityOK DEF RingInit, StepInv, Between, HeaderSize
<1>5. ChainInv
  <2> DEFINE b == [p \in Words |-> 0]
  <2>1. b \in [Words -> Nat] /\ b[0] = 0 /\ header[0].size = 0
    BY <1>1, <1>2 DEF Empty
  <2>2. Space(0) = 2
    BY DEF Space, CeilH, HeaderSize
  <2>3. Chain(header, content, 0, 2, b, 0)
    <3>1. ASSUME NEW p \in Words, Live(header, 0, 2, p) PROVE p = 0
      BY <3>1, WordOK DEF Live, Dist
    <3>2. \A q \in Words : ~(0 < q /\ q < 2)
      BY WordOK
    <3>3. Dist(0, 0) = 0
      BY DEF Dist
    <3>4. ChunkOK(header, 0, 2, 0) /\ BytesOK(header, content, 0, 2, b, 0, 0)
      BY <2>1, <2>2, <3>2, <3>3, CapacityOK DEF ChunkOK, BytesOK, HeaderSize
    <3>5. header[0] # NoHeader
      BY <1>2 DEF Empty, NoHeader
    <3> QED BY <3>1, <3>4, <3>5 DEF Chain
  <2>4. ChainWith(b)
    BY <1>2, <2>1, <2>3 DEF ChainWith, RingInit, HeaderSize, Written
  <2> QED BY <2>1, <2>4 DEF ChainInv
<1> QED BY <1>3, <1>4, <1>5 DEF RInv

LEMMA PushLoadStep ==
  ASSUME RInv, NEW length \in Nat, NEW type \in Types, PushLoad(length, type)
  PROVE  RInv'
<1>1. RingTypeOK'
  BY DEF RInv, RingTypeOK, PushLoad, memory, consumer, hist, Chunk
<1>2. StepInv'
  BY NumbersOK DEF RInv, StepInv, PushLoad, memory, consumer, hist, Between, Fits, Contig
<1>3. ChainInv'
  BY DEF RInv, ChainInv, ChainWith, PushLoad, memory, consumer, hist, Headers, Written
<1> QED BY <1>1, <1>2, <1>3 DEF RInv

LEMMA PushReleaseStep ==
  ASSUME RInv, PushRelease
  PROVE  RInv'
<1>1. RingTypeOK'
  <2>1. size' \in 0..Capacity /\ accepted' \in 0..MaxBytes
    <3>1. size' \in 0..Capacity
      BY InUseOK, CapacityOK DEF PushRelease
    <3>2. accepted + pushing.length <= MaxBytes /\ accepted' = accepted + pushing.length
      BY DEF RInv, StepInv, PushRelease
    <3>3. accepted \in Nat /\ pushing.length \in Nat /\ MaxBytes \in Nat
      BY NumbersOK DEF RInv
    <3> QED BY <3>1, <3>2, <3>3
  <2>2. addSize' \in 0..Capacity /\ pushing' \in Chunk
    BY CapacityOK DEF PushRelease, Nothing, Chunk, Types
  <2> QED BY <2>1, <2>2 DEF RInv, RingTypeOK, PushRelease, memory, consumer
<1>2. StepInv'
  <2>1. /\ ppc' = "idle" /\ addSize' = 0 /\ size' = size + addSize
        /\ UNCHANGED <<header, writeP, readP, locSize, view, cpc, settled, wire>>
    BY DEF PushRelease, memory, consumer
  <2>2. size' >= 2 /\ size' + addSize' = size + addSize /\ size' + addSize' <= Capacity
        /\ size <= size'
    BY <2>1, InUseOK, CapacityOK
  <2>3. Between' = Between
    BY <2>1 DEF Between
  <2>4. cpc = "free" => locSize <= size'
    <3>1. locSize \in Nat /\ size \in Nat /\ size' \in Nat
      BY <2>1, NumbersOK DEF RInv
    <3> QED BY <2>2, <3>1 DEF RInv, StepInv
  <2> QED BY <2>1, <2>2, <2>3, <2>4 DEF RInv, StepInv, HeaderSize
<1>3. ChainInv'
  <2>1. PICK b \in [Words -> Nat] : ChainWith(b)
    BY DEF RInv, ChainInv
  <2>2. /\ size' = size + addSize /\ size' + addSize' = size + addSize
        /\ accepted' = accepted + Written /\ accepted' + Written' = accepted + Written
        /\ Headers' = Headers /\ UNCHANGED <<content, readP, cpc, settled>>
    BY NumbersOK DEF RInv, PushRelease, memory, consumer, Written, Headers
  <2>3. ChainWith(b)'
    BY <2>1, <2>2 DEF ChainWith
  <2> QED BY <2>3 DEF ChainInv
<1> QED BY <1>1, <1>2, <1>3 DEF RInv

LEMMA PopLoadStep ==
  ASSUME RInv, PopLoad
  PROVE  RInv'
<1>1. RingTypeOK'
  BY DEF RInv, RingTypeOK, PopLoad, memory, producer, hist
<1>2. StepInv'
  <2>1. Headers = header
    BY DEF PopLoad, Headers
  <2> QED BY <2>1, NumbersOK, FirstChunk
          DEF RInv, StepInv, PopLoad, memory, producer, hist, Between, Fits, Contig
<1>3. ChainInv'
  BY DEF RInv, ChainInv, ChainWith, PopLoad, memory, producer, hist, Headers, Written
<1> QED BY <1>1, <1>2, <1>3 DEF RInv

LEMMA PopEmptyStep ==
  ASSUME RInv, PopEmpty
  PROVE  RInv'
<1>1. Headers' = Headers /\ header' = Headers
  BY DEF PopEmpty, Headers, Empty
<1>2. RingTypeOK'
  BY <1>1, HeadersOK DEF RInv, RingTypeOK, PopEmpty, producer, hist
<1>3. StepInv'
  BY DEF RInv, StepInv, PopEmpty, producer, hist, Between, Fits, Contig
<1>4. ChainInv'
  BY <1>1 DEF RInv, ChainInv, ChainWith, PopEmpty, producer, hist, Written
<1> QED BY <1>2, <1>3, <1>4 DEF RInv

LEMMA PopViewStep ==
  ASSUME RInv, PopView
  PROVE  RInv'
<1>1. Headers = header /\ Headers' = Headers
  BY DEF PopView, Headers, memory
<1>2. RingTypeOK'
  <2>1. header[readP] \in Header
    BY <1>1, FirstChunk, NumbersOK DEF RInv, RingTypeOK
  <2>2. readP + HeaderSize \in 0..Capacity
    BY NumbersOK, WordOK, CapacityOK DEF RInv, HeaderSize
  <2>3. view' \in [start : 0..Capacity, length : 0..Capacity, type : Types]
    BY <2>1, <2>2 DEF PopView, Old, Header
  <2> QED BY <2>3 DEF RInv, RingTypeOK, PopView, memory, producer, hist
<1>3. StepInv'
  BY DEF RInv, StepInv, PopView, memory, producer, hist, Between, Fits, Contig, Old
<1>4. ChainInv'
  BY <1>1 DEF RInv, ChainInv, ChainWith, PopView, memory, producer, hist, Written
<1> QED BY <1>2, <1>3, <1>4 DEF RInv

LEMMA LengthOfBoth ==
  ASSUME NEW f \in Seq(Nat), NEW g \in Seq(Nat)
  PROVE  Len(f \o g) = Len(f) + Len(g)
  OBVIOUS

LEMMA TakeStep ==
  ASSUME RInv, Take
  PROVE  RInv'
<1>1. Headers' = Headers /\ Headers = header
  BY DEF Take, Headers, memory
<1>2. PICK b \in [Words -> Nat] : ChainWith(b)
  BY DEF RInv, ChainInv
<1>3. PICK z \in Nat, n \in Nat, a \in Nat :
        /\ z = header[readP].size /\ z = view.length /\ n = Space(z) /\ z + 2 <= n
        /\ a = b[readP] /\ view.start = readP + 2 /\ cpc = "take"
  <2>1. readP \in Words /\ header[readP].size \in Nat /\ cpc = "take"
    BY NumbersOK, HeadersOK DEF RInv, Take
  <2>2. header[readP].size = view.length /\ view.start = readP + 2
    BY <2>1 DEF RInv, StepInv, HeaderSize
  <2>3. PICK z \in Nat : z = header[readP].size
    BY <2>1
  <2>4. PICK n \in Nat : n = Space(z) /\ z + 2 <= n
    BY SpaceOK
  <2>5. b[readP] \in Nat
    BY <2>1
  <2> QED BY <2>1, <2>2, <2>3, <2>4, <2>5
<1>4. settled = a /\ settled' = a + z
  <2>1. settled = b[readP] + 0
    BY <1>2, <1>3 DEF ChainWith
  <2> QED BY <1>3, <2>1 DEF Take
<1>5. settled' \in 0..MaxBytes
  <2>1. readP \in Words /\ Dist(readP, readP) = 0 /\ 0 < size /\ header[readP] # NoHeader
    BY <1>1, InUseOK, FirstChunk
  <2>2. BytesOK(header, content, readP, size, b, accepted, readP)
    BY <1>1, <1>2, <2>1 DEF ChainWith, Chain, Live
  <2>3. a + z <= accepted
    BY <1>3, <2>2 DEF BytesOK
  <2>4. accepted <= MaxBytes /\ accepted \in Nat /\ MaxBytes \in Nat
    BY NumbersOK DEF RInv, RingTypeOK
  <2> QED BY <1>3, <1>4, <2>3, <2>4
<1>6. Viewed \in Seq(Nat)
  <2>1. ASSUME NEW i \in 1..view.length PROVE content[view.start + i - 1] \in Nat
    <3>1. readP + n <= Capacity
      BY <1>1, <1>3, FirstChunk
    <3>2. view.start + i - 1 \in Offsets
      BY <1>3, <2>1, <3>1, NumbersOK, CapacityOK DEF RInv, Offsets
    <3> QED BY <3>2, NumbersOK DEF RInv, RingTypeOK
  <2>2. view.length \in Nat
    BY <1>3
  <2> QED BY <2>1, <2>2 DEF Viewed
<1>7. RingTypeOK'
  <2>1. view' \in [start : 0..Capacity, length : 0..Capacity, type : Types]
    BY CapacityOK DEF Take, NoView, Types
  <2>2. wire' \in Seq(Nat)
    BY <1>6 DEF RInv, RingTypeOK, Take
  <2> QED BY <1>5, <2>1, <2>2 DEF RInv, RingTypeOK, Take, memory, producer
<1>8. StepInv'
  <2>1. Len(wire') = settled'
    <3>1. PICK f : f = Viewed
      OBVIOUS
    <3>2. f = [i \in 1..z |-> content[view.start + i - 1]] /\ wire' = wire \o f
      BY <1>3, <3>1 DEF Viewed, Take
    <3>3. Len(wire) = settled /\ wire \in Seq(Nat)
      BY DEF RInv, StepInv, RingTypeOK
    <3>4. Len(f) = z /\ f \in Seq(Nat)
      BY <1>3, <1>6, <3>1, <3>2
    <3>5. Len(wire') = Len(wire) + Len(f)
      BY <3>2, <3>3, <3>4, LengthOfBoth
    <3> QED BY <1>3, <1>4, <3>3, <3>4, <3>5
  <2> QED BY <2>1 DEF RInv, StepInv, Take, memory, producer, Between, Fits, Contig
<1>9. ChainWith(b)'
  BY <1>1, <1>2, <1>3, <1>4 DEF ChainWith, Take, memory, producer, Written
<1> QED BY <1>7, <1>8, <1>9 DEF RInv, ChainInv

\* What Forget leaves in the memory: everything at the distance of what it is
\* asked to forget, and behind.
LEMMA ForgetAgrees ==
  ASSUME RingTypeOK, NEW n \in Nat, NEW u \in 1..Capacity, NEW b,
         readP + n <= Capacity, Forget(readP, n)
  PROVE  /\ header' \in [Words -> Header \cup {NoHeader}]
         /\ content' \in [Offsets -> 0..MaxBytes]
         /\ Agree(header, content, b, header', content', b, readP, n, u)
<1>1. readP \in Nat /\ MaxBytes \in Nat /\ 0 \in 0..MaxBytes
  BY NumbersOK
<1>2. ASSUME NEW q \in Offsets, n <= Dist(readP, q) PROVE ~In(q, readP, n)
  BY <1>1, <1>2, CapacityOK DEF Offsets, Dist, In
<1>3. Words \subseteq Offsets
  BY DEF Words
<1>4. header' \in [Words -> Header \cup {NoHeader}]
  BY DEF Forget, RingTypeOK
<1>5. content' \in [Offsets -> 0..MaxBytes]
  BY <1>1 DEF Forget, RingTypeOK
<1>6. \A q \in Words : n <= Dist(readP, q) => header'[q] = header[q]
  BY <1>2, <1>3 DEF Forget
<1>7. \A q \in Offsets : n <= Dist(readP, q) => content'[q] = content[q]
  BY <1>2 DEF Forget
<1> QED BY <1>4, <1>5, <1>6, <1>7 DEF Agree

\* What fits still fits when the consumer has freed something.
LEMMA FitsLater ==
  ASSUME RingTypeOK, size' \in Nat, size' <= size, writeP' = writeP, pushing' = pushing,
         Fits(pushing.length)
  PROVE  Fits(pushing.length)'
<1>1. PICK x \in Nat, y \in Nat, z \in Nat :
        x = size' /\ y = size /\ z = pushing.length /\ x <= y /\ Contig' = Contig
  BY NumbersOK DEF Contig
<1> QED BY <1>1, CapacityOK DEF Fits, HeaderSize

LEMMA PopNextStep ==
  ASSUME RInv, PopNext
  PROVE  RInv'
<1>1. PICK b \in [Words -> Nat] : ChainWith(b)
  BY DEF RInv, ChainInv
<1>2. /\ Headers = header /\ Headers' = header'
      /\ cpc = "free" /\ cpc' = "view" /\ settled' = settled /\ accepted' = accepted
  BY DEF PopNext, FreeOld, Headers, hist
<1>3. PICK z \in Nat, n \in Nat : z = header[readP].size /\ n = Space(z) /\ n % 2 = 0 /\ 2 <= n
  <2>1. PICK z \in Nat : z = header[readP].size
    BY NumbersOK, HeadersOK DEF RInv
  <2> QED BY <2>1, SpaceOK
<1>4. n < size /\ size \in 1..Capacity /\ size + addSize \in 1..Capacity /\ addSize \in Nat
  <2>1. n <= locSize /\ locSize <= size /\ size + addSize <= Capacity
    BY <1>2, <1>3 DEF RInv, StepInv
  <2>2. locSize # n
    <3>1. n = 2 + CeilH(z) /\ CeilH(z) \in Nat
      BY <1>3, CeilOK DEF Space, HeaderSize
    <3>2. locSize - 2 # CeilH(z)
      BY <1>3 DEF PopNext, FreeOld, OnlyOld, Old, HeaderSize
    <3> QED BY <3>1, <3>2
  <2>3. size \in Nat /\ addSize \in Nat /\ locSize \in Nat
    BY NumbersOK DEF RInv
  <2> QED BY <1>3, <2>1, <2>2, <2>3, CapacityOK
<1>5. PICK r \in Words : r = Wrap(readP + n) /\ Dist(readP, r) = n /\ readP + n <= Capacity
                         /\ b[r] = b[readP] + z
                         /\ Chain(header, content, r, size - n, b, accepted)
                         /\ Chain(header, content, r, size + addSize - n, b, accepted + Written)
  <2>1. \A p \in Words : header[p].size \in Nat
    BY HeadersOK DEF RInv
  <2>2. readP \in Words /\ accepted \in Nat /\ accepted + Written \in Nat
    BY NumbersOK DEF RInv, Written
  <2>3. n < size + addSize
    BY <1>4
  <2> QED BY <1>1, <1>2, <1>3, <1>4, <2>1, <2>2, <2>3, DropFirst DEF ChainWith
<1>6. readP' = r /\ size' = size - n /\ Forget(readP, n)
  <2>1. n = 2 + CeilH(z) /\ CeilH(z) \in Nat
    BY <1>3, CeilOK DEF Space, HeaderSize
  <2>2. /\ readP' = Wrap(readP + 2 + CeilH(z)) /\ size' = size - (1 * 2 + CeilH(z))
        /\ Forget(readP, 2 + CeilH(z))
    BY <1>3 DEF PopNext, FreeOld, Old, HeaderSize
  <2>3. readP + 2 + CeilH(z) = readP + n /\ 1 * 2 + CeilH(z) = n
    BY <2>1, NumbersOK DEF RInv
  <2> QED BY <1>5, <2>1, <2>2, <2>3
<1>7. /\ header' \in [Words -> Header \cup {NoHeader}]
      /\ content' \in [Offsets -> 0..MaxBytes]
      /\ Agree(header, content, b, header', content', b, readP, n, size + addSize)
  BY <1>4, <1>5, <1>6, ForgetAgrees DEF RInv
<1>8. /\ UNCHANGED <<writeP, pushing, addSize, ppc, view, accepted, settled, wire>>
      /\ locSize' = 0 /\ cpc' = "view"
  BY DEF PopNext, FreeOld, producer, hist
<1>9. RingTypeOK'
  <2>1. size' \in 0..Capacity /\ readP' \in Words /\ locSize' \in 0..Capacity
    BY <1>3, <1>4, <1>5, <1>6, <1>8, CapacityOK
  <2> QED BY <1>7, <1>8, <2>1 DEF RInv, RingTypeOK
<1>10. StepInv'
  <2>1. size + addSize = Between
    BY DEF RInv, StepInv
  <2>2. Between' = Between - n
    <3>1. r = IF readP + n = Capacity THEN 0 ELSE readP + n
      BY <1>5 DEF Wrap
    <3>2. n < Between
      BY <1>3, <1>4, <2>1
    <3>3. PICK x \in Nat, y \in Nat, k \in Nat :
            x = readP /\ y = writeP /\ k = Capacity /\ x < k /\ y < k
      BY NumbersOK, CapacityOK, WordOK DEF RInv
    <3>4. Between = (IF y > x THEN y - x ELSE y - x + k)
      BY <3>3 DEF Between
    <3>5. Between' = (IF y > r THEN y - r ELSE y - r + k)
      BY <1>6, <1>8, <3>3 DEF Between
    <3>6. x + n <= k /\ r = IF x + n = k THEN 0 ELSE x + n
      BY <1>5, <3>1, <3>3
    <3> QED BY <1>3, <3>2, <3>3, <3>4, <3>5, <3>6
  <2>3. size' >= 2
    <3>1. 0 < size - n /\ size - n \in Nat
      BY <1>3, <1>4
    <3>2. Dist(r, r) = 0 /\ header[r] # NoHeader
      BY <1>5, DistOK, WordOK, CapacityOK DEF Chain
    <3>3. Dist(r, r) + Space(header[r].size) <= size - n
      BY <1>5, <3>1, <3>2 DEF Chain, Live, ChunkOK
    <3>4. PICK y \in Nat : y = header[r].size
      BY HeadersOK DEF RInv
    <3>5. Space(y) \in Nat /\ y + 2 <= Space(y)
      BY SpaceOK
    <3> QED BY <1>6, <3>1, <3>2, <3>3, <3>4, <3>5
  <2>4. ppc = "write" => Fits(pushing.length)'
    <3>1. size' <= size /\ size' \in Nat /\ size \in Nat
      BY <1>3, <1>4, <1>6
    <3> QED BY <1>8, <3>1, FitsLater DEF RInv, StepInv
  <2>5. size' + addSize' = Between' /\ size' + addSize' <= Capacity
    BY <1>3, <1>4, <1>6, <1>8, <2>1, <2>2, CapacityOK
  <2> QED BY <1>8, <2>3, <2>4, <2>5 DEF RInv, StepInv, HeaderSize
<1>11. ChainWith(b)'
  <2>1. PICK u \in 1..Capacity, v \in 1..Capacity, k \in Nat :
          u = size - n /\ v = size + addSize - n /\ k = accepted + Written /\ u <= v
    <3>1. size - n \in 1..Capacity /\ size + addSize - n \in 1..Capacity
          /\ size - n <= size + addSize - n
      BY <1>3, <1>4, CapacityOK
    <3>2. accepted + Written \in Nat
      BY NumbersOK DEF RInv, Written
    <3> QED BY <3>1, <3>2
  <2>2. Agree(header, content, b, header', content', b, r, 0, v)
    <3>1. PICK w \in 1..Capacity : w = size + addSize /\ n < w /\ v = w - n
      BY <1>3, <1>4, <2>1
    <3>2. readP \in Words
      BY NumbersOK DEF RInv
    <3>3. Agree(header, content, b, header', content', b, readP, n, w)
      BY <1>7, <3>1
    <3>4. Agree(header, content, b, header', content', b, r, 0, w - n)
      BY <1>5, <3>1, <3>2, <3>3, AgreeBehind
    <3> QED BY <3>1, <3>4
  <2>3. Agree(header, content, b, header', content', b, r, 0, u)
    BY <2>1, <2>2, AgreeLess
  <2>4. (\A p \in Words : header[p].size \in Nat) /\ accepted \in Nat
    BY HeadersOK, NumbersOK DEF RInv
  <2>5. Chain(header', content', r, u, b, accepted)
    BY <1>5, <2>1, <2>3, <2>4, ChainKept
  <2>6. Chain(header', content', r, v, b, k)
    BY <1>5, <2>1, <2>2, <2>4, ChainKept
  <2>7. settled' = b[r] + 0
    <3>1. settled = b[readP] + z
      BY <1>1, <1>2, <1>3 DEF ChainWith
    <3>2. b[r] \in Nat
      OBVIOUS
    <3> QED BY <1>2, <1>5, <3>1, <3>2
  <2>8. size' = u /\ size' + addSize' = v /\ accepted' + Written' = k
    <3>1. size + addSize - n = size - n + addSize
      BY <1>3, <1>4
    <3> QED BY <1>6, <1>8, <2>1, <3>1 DEF Written
  <2> QED BY <1>2, <1>6, <2>5, <2>6, <2>7, <2>8 DEF ChainWith
<1> QED BY <1>9, <1>10, <1>11 DEF RInv, ChainInv

LEMMA PopLastStep ==
  ASSUME RInv, PopLast
  PROVE  RInv'
<1>1. CASE Old.type = "None"
  <2>1. /\ cpc = "free" /\ cpc' = "pop" /\ locSize' = 0
        /\ UNCHANGED <<memory, readP, size, producer, view, hist>>
    BY <1>1 DEF PopLast
  <2>2. Headers' = Headers
    BY <2>1 DEF Headers, memory
  <2>3. RingTypeOK'
    BY <2>1, CapacityOK DEF RInv, RingTypeOK, memory, producer, hist
  <2>4. StepInv'
    BY <2>1 DEF RInv, StepInv, memory, producer, hist, Between, Fits, Contig
  <2>5. ChainInv'
    BY <2>1, <2>2 DEF RInv, ChainInv, ChainWith, memory, producer, hist, Written
  <2> QED BY <2>3, <2>4, <2>5 DEF RInv
<1>2. CASE Old.type # "None"
  <2>1. PICK b \in [Words -> Nat] : ChainWith(b)
    BY DEF RInv, ChainInv
  <2>2. PICK z \in Nat, n \in Nat, a \in Nat :
          /\ z = header[readP].size /\ n = CeilH(z) /\ n % 2 = 0 /\ a = b[readP]
          /\ Space(z) = n + 2
    <3>1. PICK z \in Nat : z = header[readP].size
      BY NumbersOK, HeadersOK DEF RInv
    <3>2. PICK n \in Nat : n = CeilH(z) /\ n % 2 = 0
      BY CeilOK
    <3>3. b[readP] \in Nat
      BY NumbersOK DEF RInv
    <3>4. Space(z) = n + 2
      BY <3>2 DEF Space, HeaderSize
    <3> QED BY <3>1, <3>2, <3>3, <3>4
  <2>3. /\ Headers = header /\ cpc = "free" /\ cpc' = "empty" /\ locSize' = 0
        /\ locSize - 2 = n
        /\ readP' = readP + n /\ size' = size - n /\ Forget(readP, 2 + n)
        /\ UNCHANGED <<writeP, pushing, addSize, ppc, view, accepted, settled, wire>>
    BY <1>2, <2>2 DEF PopLast, Headers, OnlyOld, Old, producer, hist, HeaderSize
  <2>4. /\ n + 2 <= size /\ size \in Nat /\ addSize \in Nat /\ size + addSize <= Capacity
        /\ readP \in Words /\ readP \in Nat /\ readP + n + 2 <= Capacity
    <3>1. locSize <= size
      BY <2>3 DEF RInv, StepInv
    <3>2. locSize \in Nat
      BY NumbersOK DEF RInv
    <3>3. readP + (n + 2) <= Capacity
      BY <2>2, <2>3, FirstChunk
    <3>4. n + 2 <= size
      BY <2>2, <2>3, <3>1, <3>2, InUseOK
    <3> QED BY <2>2, <3>3, <3>4, InUseOK, CapacityOK
  <2>5. PICK r \in Words : r = readP + n
    <3>1. readP % 2 = 0
      BY <2>4, WordOK
    <3>2. (readP + n) % 2 = 0
      BY <2>2, <2>4, <3>1
    <3>3. PICK r \in Nat : r = readP + n
      BY <2>2, <2>4
    <3>4. r % 2 = 0 /\ r + 2 <= Capacity
      BY <2>2, <2>4, <3>2, <3>3
    <3> QED BY <3>3, <3>4, WordOK
  <2>6. PICK u \in 1..Capacity, v \in 1..Capacity, k \in Nat :
          u = size /\ v = size + addSize /\ k = accepted + Written /\ u <= v
          /\ u - n \in Nat /\ 2 <= u - n
    <3>1. PICK k \in Nat : k = accepted + Written
      BY NumbersOK DEF RInv, Written
    <3>2. size \in 1..Capacity /\ size + addSize \in 1..Capacity /\ size <= size + addSize
      BY <2>2, <2>4, CapacityOK
    <3>3. size - n \in Nat /\ 2 <= size - n
      BY <2>2, <2>4
    <3> QED BY <3>1, <3>2, <3>3
  <2>7. /\ header' \in [Words -> Header \cup {NoHeader}]
        /\ content' \in [Offsets -> 0..MaxBytes]
        /\ Agree(header, content, b, header', content', b, readP, n + 2, v)
    <3>1. readP + (2 + n) <= Capacity /\ 2 + n = n + 2 /\ n + 2 \in Nat
      BY <2>2, <2>4, CapacityOK
    <3> QED BY <2>3, <3>1, ForgetAgrees DEF RInv
  <2>8. RingTypeOK'
    <3>1. size' \in 0..Capacity /\ readP' \in Words /\ 0 \in 0..Capacity
      BY <2>2, <2>3, <2>4, <2>5, CapacityOK
    <3> QED BY <2>3, <2>7, <3>1 DEF RInv, RingTypeOK
  <2>9. StepInv'
    <3>1. size + addSize = Between
      BY DEF RInv, StepInv
    <3>2. Between' = Between - n
      <4>1. PICK x \in Nat, y \in Nat, c \in Nat :
              x = readP /\ y = writeP /\ c = Capacity /\ x < c /\ y < c
        BY NumbersOK, CapacityOK, WordOK DEF RInv
      <4>2. Between = (IF y > x THEN y - x ELSE y - x + c)
        BY <4>1 DEF Between
      <4>3. Between' = (IF y > x + n THEN y - (x + n) ELSE y - (x + n) + c)
        BY <2>3, <4>1 DEF Between
      <4>4. n < Between
        BY <2>2, <2>4, <3>1
      <4> QED BY <2>2, <4>1, <4>2, <4>3, <4>4
    <3>3. ppc = "write" => Fits(pushing.length)'
      <4>1. size' <= size /\ size' \in Nat
        BY <2>2, <2>3, <2>4
      <4> QED BY <2>3, <4>1, FitsLater DEF RInv, StepInv
    <3>4. size' >= 2 /\ size' + addSize' = Between' /\ size' + addSize' <= Capacity
      BY <2>2, <2>3, <2>4, <3>1, <3>2, CapacityOK
    <3> QED BY <2>3, <3>3, <3>4 DEF RInv, StepInv, HeaderSize
  <2>10. ChainInv'
    <3> DEFINE b2 == [b EXCEPT ![r] = a + z]
    <3>1. b2 \in [Words -> Nat] /\ b2[r] = b[readP] + header[readP].size
      BY <2>2
    <3>2. Headers' = [header' EXCEPT ![r] = Empty] /\ Headers'[r] = Empty
      BY <2>3, <2>5, <2>7 DEF Headers
    <3>3. Dist(readP, r) = n
      BY <2>2, <2>4, <2>5, CapacityOK DEF Dist
    <3>4. Agree(header, content, b, Headers', content', b2, readP, n + 2, v)
      <4>1. ASSUME NEW q \in Words, n + 2 <= Dist(readP, q)
            PROVE  Headers'[q] = header'[q] /\ b2[q] = b[q]
        <5>1. q # r
          BY <2>2, <3>3, <4>1
        <5> QED BY <2>7, <3>2, <5>1
      <4> QED BY <2>7, <4>1 DEF Agree
    <3>5. Agree(header, content, b, Headers', content', b2, readP, n + 2, u)
      <4>1. \A q \in Offsets : Dist(readP, q) \in Nat
        BY <2>4, DistOK, CapacityOK DEF Offsets
      <4>2. Words \subseteq Offsets
        BY DEF Words
      <4> QED BY <2>6, <3>4, <4>1, <4>2 DEF Agree
    <3>6. /\ \A p \in Words : header[p].size \in Nat /\ b[p] \in Nat
          /\ accepted \in Nat
      BY HeadersOK, NumbersOK DEF RInv
    <3> HIDE DEF b2
    <3>7. Chain(Headers', content', r, u - n, b2, accepted)
      <4>1. Chain(header, content, readP, u, b, accepted)
        BY <2>1, <2>3, <2>6 DEF ChainWith
      <4> QED BY <2>2, <2>4, <2>5, <3>1, <3>2, <3>5, <3>6, <4>1, ShrinkFirst
    <3>8. Chain(Headers', content', r, v - n, b2, k)
      <4>1. Chain(header, content, readP, v, b, k)
        BY <2>1, <2>3, <2>6 DEF ChainWith
      <4> QED BY <2>2, <2>4, <2>5, <3>1, <3>2, <3>4, <3>6, <4>1, ShrinkFirst
    <3>9. settled' = b2[r] + Headers'[r].size
      <4>1. settled = a + z
        BY <2>1, <2>2, <2>3 DEF ChainWith
      <4> QED BY <2>2, <2>3, <3>1, <3>2, <4>1 DEF Empty
    <3>10. size' = u - n /\ size' + addSize' = v - n /\ accepted' + Written' = k
      BY <2>2, <2>3, <2>4, <2>6 DEF Written
    <3>11. ChainWith(b2)'
      BY <2>3, <2>5, <3>7, <3>8, <3>9, <3>10 DEF ChainWith
    <3> QED BY <3>1, <3>11 DEF ChainInv
  <2> QED BY <2>8, <2>9, <2>10 DEF RInv
<1> QED BY <1>1, <1>2

\* Where push writes: the chunks fit behind what is in use, the first one in front
\* of the end of the memory, the second one at its beginning.
LEMMA WriteFits ==
  ASSUME RInv, ppc = "write"
  PROVE  /\ Size1 \in Nat /\ Size2 \in Nat /\ Size1 + Size2 = pushing.length
         /\ writeP + Space(Size1) <= Capacity /\ size + Space(Size1) <= Capacity
         /\ Dist(readP, writeP) = size
         /\ Start1 = writeP + 2 /\ End1 = Wrap(writeP + Space(Size1))
         /\ Size2 > 0 => /\ writeP + Space(Size1) = Capacity /\ End1 = 0 /\ Start2 = 2
                         /\ size + Space(Size1) + Space(Size2) <= Capacity
                         /\ Dist(readP, 0) = size + Space(Size1)
                         /\ Space(Size2) <= readP /\ readP < writeP
<1>1. PICK x \in Nat, y \in Nat, c \in Nat, u \in Nat, z \in Nat :
        /\ x = readP /\ y = writeP /\ c = Capacity /\ u = size /\ z = pushing.length
        /\ x + 2 <= c /\ y + 2 <= c /\ y % 2 = 0 /\ c % 2 = 0 /\ x % 2 = 0 /\ x \in Words
  BY NumbersOK, WordOK, CapacityOK DEF RInv
<1>2. u = (IF y > x THEN y - x ELSE y - x + c) /\ u % 2 = 0 /\ 2 <= u
  <2>1. size = Between /\ size >= 2
    BY NumbersOK DEF RInv, StepInv, HeaderSize
  <2>2. u = (IF y > x THEN y - x ELSE y - x + c) /\ 2 <= u
    BY <1>1, <2>1 DEF Between
  <2> QED BY <1>1, <2>2
<1>3. u + z + 2 <= c /\ (z > c - y - 2 => u + z + 4 <= c)
  BY <1>1 DEF RInv, StepInv, Fits, Contig, HeaderSize
<1>4. PICK s \in Nat, e \in Nat :
        /\ s = Size1 /\ e = Size2 /\ s + e = z /\ s <= c - y - 2
        /\ e > 0 => s = c - y - 2 /\ z > c - y - 2
  <2>1. Size1 = IF c - y - 2 <= z THEN c - y - 2 ELSE z
    BY <1>1 DEF Size1, Contig, HeaderSize
  <2>2. Size2 = z - Size1
    BY <1>1 DEF Size2
  <2> QED BY <1>1, <2>1, <2>2
<1>5. PICK n \in Nat, m \in Nat :
        /\ n = CeilH(s) /\ m = CeilH(e) /\ n % 2 = 0 /\ m % 2 = 0
        /\ s <= n /\ n <= s + 1 /\ e <= m /\ m <= e + 1
        /\ Space(s) = n + 2 /\ Space(e) = m + 2
  <2>1. PICK n \in Nat : n = CeilH(s) /\ n % 2 = 0 /\ s <= n /\ n <= s + 1
    BY CeilOK
  <2>2. PICK m \in Nat : m = CeilH(e) /\ m % 2 = 0 /\ e <= m /\ m <= e + 1
    BY CeilOK
  <2> QED BY <2>1, <2>2 DEF Space, HeaderSize
<1>6. n <= c - y - 2 /\ u + n + 2 <= c
  <2>1. (c - y - 2) % 2 = 0 /\ (c - u - 2) % 2 = 0
    BY <1>1, <1>2
  <2>2. s <= c - u - 2
    BY <1>1, <1>3, <1>4
  <2> QED BY <1>1, <1>2, <1>4, <1>5, <2>1, <2>2
<1>7. Dist(readP, writeP) = size
  BY <1>1, <1>2, <1>3 DEF Dist
<1>8. Start1 = writeP + 2 /\ End1 = Wrap(writeP + Space(Size1))
  <2>1. Start1 = y + 2
    BY <1>1 DEF Start1, HeaderSize
  <2>2. y + 2 + n = y + Space(s)
    BY <1>1, <1>5
  <2> QED BY <1>1, <1>4, <1>5, <2>1, <2>2 DEF End1
<1>9. CASE e > 0
  <2>1. s = c - y - 2 /\ n = s
    BY <1>1, <1>4, <1>5, <1>6, <1>9
  <2>2. u + s + e + 4 <= c
    BY <1>1, <1>3, <1>4, <1>9
  <2>3. u + s + m + 4 <= c
    <3>1. (c - u - s - 4) % 2 = 0
      BY <1>1, <1>2, <2>1
    <3> QED BY <1>1, <1>2, <1>5, <2>2, <3>1
  <2>4. y > x /\ m + 2 <= x
    <3>1. y > x
      BY <1>1, <1>2, <1>6, <2>1
    <3>2. u = y - x
      BY <1>2, <3>1
    <3> QED BY <1>1, <1>5, <2>1, <2>3, <3>1, <3>2
  <2>5. y + Space(s) = c /\ End1 = 0 /\ Start2 = 2
    BY <1>1, <1>4, <1>5, <1>8, <2>1 DEF Wrap, Start2, HeaderSize
  <2>6. Dist(x, 0) = u + (n + 2)
    <3>1. u = y - x /\ 0 < x /\ u + (n + 2) = c - x
      BY <1>1, <1>2, <1>5, <2>1, <2>4
    <3>2. Dist(x, 0) = 0 - x + c
      BY <1>1, <3>1 DEF Dist
    <3> QED BY <1>1, <3>1, <3>2
  <2>7. u + (n + 2) + (m + 2) <= c
    BY <1>1, <1>5, <2>1, <2>3
  <2> QED BY <1>1, <1>4, <1>5, <1>6, <1>7, <1>8, <2>4, <2>5, <2>6, <2>7
<1>10. CASE ~(e > 0)
  <2>1. y + (n + 2) <= c /\ u + (n + 2) <= c
    BY <1>1, <1>5, <1>6
  <2> QED BY <1>1, <1>4, <1>5, <1>7, <1>8, <1>10, <2>1
<1> QED BY <1>9, <1>10

\* What is in use is not written to; the headers and the data of the new chunks
\* are where they belong.
LEMMA WriteMemory ==
  ASSUME RInv, PushWrite
  PROVE  /\ \A q \in Words : Dist(readP, q) < size => header'[q] = header[q]
         /\ \A q \in Offsets : Dist(readP, q) < size => content'[q] = content[q]
         /\ header'[writeP] = [size |-> Size1, type |-> pushing.type]
         /\ \A q \in Words : writeP < q /\ q < writeP + Space(Size1) => header'[q] = NoHeader
         /\ \A i \in 1..Size1 : content'[writeP + HeaderSize + i - 1] = accepted + i
         /\ Size2 > 0 =>
              /\ header'[0] = [size |-> Size2, type |-> "Continuation"]
              /\ \A q \in Words : 0 < q /\ q < 0 + Space(Size2) => header'[q] = NoHeader
              /\ \A i \in 1..Size2 :
                   content'[0 + HeaderSize + i - 1] = (accepted + Size1) + i
<1>1. ppc = "write"
  BY DEF PushWrite
<1>2. PICK x \in Nat, y \in Nat, c \in Nat, u \in Nat, k \in Nat :
        /\ x = readP /\ y = writeP /\ c = Capacity /\ u = size /\ k = accepted
        /\ x + 2 <= c /\ y + 2 <= c /\ y % 2 = 0 /\ c % 2 = 0 /\ x % 2 = 0
        /\ x \in Words /\ y \in Words
  BY NumbersOK, WordOK, CapacityOK DEF RInv
<1>3. PICK s \in Nat, e \in Nat, n \in Nat, m \in Nat :
        /\ s = Size1 /\ e = Size2 /\ n = Space(s) /\ m = Space(e)
        /\ n % 2 = 0 /\ m % 2 = 0 /\ s + 2 <= n /\ n <= s + 3 /\ e + 2 <= m /\ m <= e + 3
  BY <1>1, WriteFits, SpaceOK
<1>4. y + n <= c /\ u + n <= c /\ Dist(x, y) = u /\ Start1 = y + 2 /\ End1 = Wrap(y + n)
  BY <1>1, <1>2, <1>3, WriteFits
<1>5. e > 0 => /\ y + n = c /\ End1 = 0 /\ Start2 = 2
               /\ u + n + m <= c /\ Dist(x, 0) = u + n /\ m <= x /\ x < y
  BY <1>1, <1>2, <1>3, WriteFits
<1>6. \A q \in Nat : Data1(q) <=> y + 2 <= q /\ q < y + 2 + s
  BY <1>3, <1>4 DEF Data1, In
<1>7. \A q \in Nat : Data2(q) <=> e > 0 /\ 2 <= q /\ q < 2 + e
  BY <1>3, <1>5 DEF Data2, In
<1>8. \A q \in Nat : q < c /\ Dist(x, q) < u => ~Data1(q) /\ ~Data2(q) /\ q # y /\ (e > 0 => q # 0)
  <2> SUFFICES ASSUME NEW q \in Nat, q < c, Dist(x, q) < u
               PROVE  ~Data1(q) /\ ~Data2(q) /\ q # y /\ (e > 0 => q # 0)
    OBVIOUS
  <2>1. Dist(x, q) = (IF q >= x THEN q - x ELSE q - x + c)
    BY <1>2 DEF Dist
  <2>2. u = (IF y >= x THEN y - x ELSE y - x + c)
    BY <1>2, <1>4 DEF Dist
  <2>3. ~(y <= q /\ q < y + n)
    BY <1>2, <1>3, <1>4, <2>1, <2>2
  <2>4. e > 0 => ~(q < m)
    <3> SUFFICES ASSUME e > 0, q < m PROVE FALSE
      OBVIOUS
    <3>1. m <= x /\ x < y /\ y + n = c
      BY <1>5
    <3>2. u = y - x /\ q < x
      BY <1>2, <1>3, <2>2, <3>1
    <3>3. Dist(x, q) = q - x + c
      BY <1>2, <2>1, <3>2
    <3> QED BY <1>2, <1>3, <3>1, <3>2, <3>3
  <2> QED BY <1>2, <1>3, <1>6, <1>7, <2>3, <2>4
<1>9. \A q \in Words : q \in Nat /\ q % 2 = 0 /\ q + 2 <= c /\ q..(q + HeaderSize - 1) = {q, q + 1}
  BY <1>2, WordOK DEF HeaderSize
<1>10. ASSUME NEW q \in Words
       PROVE  header'[q] =
                IF q = y THEN [size |-> s, type |-> pushing.type]
                ELSE IF e > 0 /\ q = End1 THEN [size |-> e, type |-> "Continuation"]
                ELSE IF Data1(q) \/ Data2(q) \/ Data1(q + 1) \/ Data2(q + 1) THEN NoHeader
                ELSE header[q]
  BY <1>2, <1>3, <1>9 DEF PushWrite
<1>11. ASSUME NEW q \in Offsets
       PROVE  content'[q] = IF Data1(q) THEN k + 1 + q - (y + 2)
                            ELSE IF Data2(q) THEN k + s + 1 + q - Start2
                            ELSE content[q]
  BY <1>2, <1>3, <1>4 DEF PushWrite
<1>12. ASSUME NEW q \in Words, Dist(readP, q) < size PROVE header'[q] = header[q]
  <2>1. PICK d \in Nat : d = Dist(x, q) /\ d % 2 = 0 /\ d < u
    BY <1>2, <1>12, DistEven, DistOK, WordOK, CapacityOK
  <2>2. u % 2 = 0
    BY <1>2, <1>4, DistEven
  <2>3. Dist(x, q + 1) = d + 1
    <3>1. d = (IF q >= x THEN q - x ELSE q - x + c)
      BY <1>2, <2>1 DEF Dist
    <3>2. Dist(x, q + 1) = (IF q + 1 >= x THEN q + 1 - x ELSE q + 1 - x + c)
      BY <1>2 DEF Dist
    <3>3. q + 1 # x
      BY <1>2, <1>9
    <3> QED BY <1>2, <1>9, <3>1, <3>2, <3>3
  <2>4. d + 1 < u
    BY <1>2, <2>1, <2>2
  <2>5. ~Data1(q) /\ ~Data2(q) /\ q # y /\ (e > 0 => q # 0)
    BY <1>2, <1>8, <1>9, <2>1
  <2>6. ~Data1(q + 1) /\ ~Data2(q + 1)
    <3>1. q + 1 \in Nat /\ q + 1 < c
      BY <1>2, <1>9
    <3> QED BY <1>2, <1>8, <2>3, <2>4, <3>1
  <2> QED BY <1>5, <1>10, <2>5, <2>6
<1>13. ASSUME NEW q \in Offsets, Dist(readP, q) < size PROVE content'[q] = content[q]
  <2>1. q \in Nat /\ q < c
    BY <1>2, CapacityOK DEF Offsets
  <2> QED BY <1>2, <1>8, <1>11, <1>13, <2>1
<1>14. header'[writeP] = [size |-> Size1, type |-> pushing.type]
  BY <1>2, <1>3, <1>10
<1>15. ASSUME NEW q \in Words, writeP < q, q < writeP + Space(Size1) PROVE header'[q] = NoHeader
  <2>1. q \in Nat /\ y < q /\ q < y + n /\ q % 2 = 0
    BY <1>2, <1>3, <1>9, <1>15
  <2>2. y + 2 <= q /\ q + 2 <= y + n
    BY <1>2, <1>3, <2>1
  <2>3. Data1(q)
    BY <1>2, <1>3, <1>6, <2>1, <2>2
  <2>4. e > 0 => q # 0
    BY <1>2, <2>1
  <2> QED BY <1>2, <1>5, <1>10, <2>1, <2>3, <2>4
<1>16. ASSUME NEW i \in 1..Size1 PROVE content'[writeP + HeaderSize + i - 1] = accepted + i
  <2>1. i \in Nat /\ 1 <= i /\ i <= s
    BY <1>3, <1>16
  <2>2. PICK q \in Nat : q = y + 2 + i - 1
    BY <1>2, <2>1
  <2>3. q \in Offsets /\ Data1(q)
    BY <1>2, <1>3, <1>4, <1>6, <2>1, <2>2, CapacityOK DEF Offsets
  <2>4. content'[q] = k + 1 + q - (y + 2)
    BY <1>11, <2>3
  <2>5. k + 1 + q - (y + 2) = k + i
    BY <1>2, <2>1, <2>2
  <2> QED BY <1>2, <2>2, <2>4, <2>5 DEF HeaderSize
<1>17. ASSUME Size2 > 0
       PROVE  /\ header'[0] = [size |-> Size2, type |-> "Continuation"]
              /\ \A q \in Words : 0 < q /\ q < 0 + Space(Size2) => header'[q] = NoHeader
              /\ \A i \in 1..Size2 :
                   content'[0 + HeaderSize + i - 1] = (accepted + Size1) + i
  <2>1. /\ e > 0 /\ y + n = c /\ End1 = 0 /\ Start2 = 2 /\ u + n + m <= c
        /\ Dist(x, 0) = u + n /\ m <= x /\ x < y
    BY <1>3, <1>5, <1>17
  <2>2. 0 \in Words /\ 0 # y
    BY <1>2, <2>1, WordOK
  <2>3. header'[0] = [size |-> Size2, type |-> "Continuation"]
    BY <1>3, <1>10, <2>1, <2>2
  <2>4. ASSUME NEW q \in Words, 0 < q, q < 0 + Space(Size2) PROVE header'[q] = NoHeader
    <3>1. q \in Nat /\ 0 < q /\ q < m /\ q % 2 = 0
      BY <1>3, <1>9, <2>4
    <3>2. 2 <= q /\ q + 2 <= m
      BY <1>3, <3>1
    <3>3. Data2(q) /\ q # y
      BY <1>2, <1>3, <1>7, <2>1, <3>1, <3>2
    <3> QED BY <1>10, <2>1, <3>1, <3>3
  <2>5. ASSUME NEW i \in 1..Size2
        PROVE  content'[0 + HeaderSize + i - 1] = (accepted + Size1) + i
    <3>1. i \in Nat /\ 1 <= i /\ i <= e
      BY <1>3, <2>5
    <3>2. PICK q \in Nat : q = 0 + 2 + i - 1
      BY <3>1
    <3>3. q \in Offsets /\ Data2(q) /\ ~Data1(q)
      <4>1. q < m
        BY <1>3, <3>1, <3>2
      <4>2. q < c /\ q < y
        BY <1>2, <2>1, <1>3, <4>1
      <4>3. 2 <= q /\ q < 2 + e
        BY <1>3, <3>1, <3>2
      <4> QED BY <1>2, <1>6, <1>7, <2>1, <4>2, <4>3, CapacityOK DEF Offsets
    <3>4. content'[q] = k + s + 1 + q - 2
      BY <1>11, <2>1, <3>3
    <3>5. k + s + 1 + q - 2 = k + s + i
      BY <1>2, <1>3, <3>1, <3>2
    <3> QED BY <1>2, <1>3, <3>2, <3>4, <3>5 DEF HeaderSize
  <2> QED BY <2>3, <2>4, <2>5
<1> QED BY <1>3, <1>12, <1>13, <1>14, <1>15, <1>16, <1>17

LEMMA PushWriteStep ==
  ASSUME RInv, PushWrite
  PROVE  RInv'
<1>1. /\ ppc = "write" /\ ppc' = "release"
      /\ UNCHANGED <<size, pushing, consumer, hist>>
  BY DEF PushWrite
<1>2. PICK b \in [Words -> Nat] : ChainWith(b)
  BY DEF RInv, ChainInv
<1>3. PICK x \in Words, y \in Words, c \in Nat, u \in Nat, k \in Nat :
        /\ x = readP /\ y = writeP /\ c = Capacity /\ u = size /\ k = accepted
        /\ x \in Nat /\ y \in Nat /\ x + 2 <= c /\ y + 2 <= c /\ y % 2 = 0 /\ addSize = 0
        /\ u = Between /\ 2 <= u
  <2>1. size + addSize = Between /\ addSize = 0 /\ 2 <= size
    BY <1>1 DEF RInv, StepInv, HeaderSize
  <2>2. readP \in Words /\ writeP \in Words /\ accepted \in Nat /\ size \in Nat
    BY NumbersOK DEF RInv
  <2>3. /\ readP \in Nat /\ writeP \in Nat /\ writeP % 2 = 0
        /\ readP + 2 <= Capacity /\ writeP + 2 <= Capacity
    BY <2>2, WordOK
  <2>4. size = Between
    BY <2>1, <2>2
  <2> QED BY <2>1, <2>2, <2>3, <2>4, CapacityOK
<1>4. PICK s \in Nat, e \in Nat, n \in Nat, m \in Nat :
        /\ s = Size1 /\ e = Size2 /\ n = Space(s) /\ m = Space(e) /\ s + e = pushing.length
        /\ n % 2 = 0 /\ m % 2 = 0 /\ s + 2 <= n /\ n <= s + 3 /\ e + 2 <= m /\ m <= e + 3
        /\ n = 2 + CeilH(s) /\ m = 2 + CeilH(e) /\ CeilH(s) \in Nat /\ CeilH(e) \in Nat
  <2>1. Size1 \in Nat /\ Size2 \in Nat /\ Size1 + Size2 = pushing.length
    BY <1>1, WriteFits
  <2>2. \A i \in Nat : Space(i) = 2 + CeilH(i) /\ CeilH(i) \in Nat
    BY CeilOK DEF Space, HeaderSize
  <2> QED BY <2>1, <2>2, SpaceOK
<1>5. y + n <= c /\ u + n <= c /\ Dist(x, y) = u /\ Start1 = y + 2 /\ End1 = Wrap(y + n)
  BY <1>1, <1>3, <1>4, WriteFits
<1>6. e > 0 => /\ y + n = c /\ End1 = 0 /\ Start2 = 2
               /\ u + n + m <= c /\ Dist(x, 0) = u + n /\ m <= x /\ x < y
  BY <1>1, <1>3, <1>4, WriteFits
<1>7. PICK v \in Nat : v = (IF e > 0 THEN n + m ELSE n) /\ u + v <= c /\ 2 <= v
  BY <1>3, <1>4, <1>5, <1>6
<1>8. addSize' = v
  <2>1. addSize' = 2 + CeilH(s) + (IF e > 0 THEN 2 + CeilH(e) ELSE 0)
    BY <1>4 DEF PushWrite, HeaderSize
  <2> QED BY <1>4, <1>7, <2>1
<1>9. writeP' = (IF e > 0 THEN m ELSE Wrap(y + n))
  BY <1>4, <1>5, <1>6 DEF PushWrite
<1>10. RingTypeOK'
  <2>1. header' \in [Words -> Header \cup {NoHeader}]
    <3>1. [size |-> s, type |-> pushing.type] \in Header
      <4>1. pushing.type \in Types
        BY DEF RInv, RingTypeOK, Chunk
      <4>2. s \in 0..Capacity
        BY <1>3, <1>4, <1>5
      <4> QED BY <4>1, <4>2 DEF Header
    <3>2. e > 0 => [size |-> e, type |-> "Continuation"] \in Header
      BY <1>3, <1>4, <1>6 DEF Header, Types
    <3> QED BY <1>4, <3>1, <3>2 DEF PushWrite, RInv, RingTypeOK
  <2>2. content' \in [Offsets -> 0..MaxBytes]
    <3>1. k + s + e <= MaxBytes /\ MaxBytes \in Nat
      <4>1. k + pushing.length <= MaxBytes /\ MaxBytes \in Nat
        BY <1>1, <1>3, NumbersOK DEF RInv, StepInv
      <4> QED BY <1>3, <1>4, <4>1
    <3>2. ASSUME NEW q \in Offsets, Data1(q) PROVE accepted + 1 + q - Start1 \in 0..MaxBytes
      <4>1. q \in Nat /\ y + 2 <= q /\ q < y + 2 + s
        BY <1>3, <1>4, <1>5, <3>2, CapacityOK DEF Offsets, Data1, In
      <4> QED BY <1>3, <1>4, <1>5, <3>1, <4>1
    <3>3. ASSUME NEW q \in Offsets, Data2(q)
          PROVE  accepted + Size1 + 1 + q - Start2 \in 0..MaxBytes
      <4>1. q \in Nat /\ e > 0 /\ 2 <= q /\ q < 2 + e
        BY <1>3, <1>4, <1>6, <3>3, CapacityOK DEF Offsets, Data2, In
      <4> QED BY <1>3, <1>4, <1>6, <3>1, <4>1
    <3> QED BY <3>2, <3>3 DEF PushWrite, RInv, RingTypeOK
  <2>3. writeP' \in Words
    <3>1. e > 0 => m \in Words
      <4>1. e > 0 => m + 2 <= c
        BY <1>3, <1>4, <1>6
      <4> QED BY <1>3, <1>4, <4>1, WordOK
    <3>2. Wrap(y + n) \in Words
      BY <1>3, <1>4, <1>5, NextWord
    <3> QED BY <1>9, <3>1, <3>2
  <2>4. addSize' \in 0..Capacity
    BY <1>3, <1>7, <1>8
  <2> QED BY <1>1, <2>1, <2>2, <2>3, <2>4 DEF RInv, RingTypeOK, consumer, hist
<1>11. StepInv'
  <2>1. readP' = readP /\ size' = size /\ cpc' = cpc /\ locSize' = locSize /\ view' = view
        /\ accepted' = accepted /\ pushing' = pushing /\ wire' = wire /\ settled' = settled
    BY <1>1 DEF consumer, hist
  <2>2. Between' = u + v
    <3>1. Between' = (IF writeP' > x THEN writeP' - x ELSE writeP' - x + c)
      BY <1>3, <2>1 DEF Between
    <3>2. u = (IF y > x THEN y - x ELSE y - x + c)
      BY <1>3 DEF Between
    <3>3. CASE e > 0
      <4>1. writeP' = m /\ y + n = c /\ m <= x /\ x < y /\ v = n + m
        BY <1>6, <1>7, <1>9, <3>3
      <4> QED BY <1>3, <1>4, <3>1, <3>2, <4>1
    <3>4. CASE ~(e > 0)
      <4>1. writeP' = (IF y + n = c THEN 0 ELSE y + n) /\ v = n
        BY <1>3, <1>7, <1>9, <3>4 DEF Wrap
      <4> QED BY <1>3, <1>4, <1>5, <3>1, <3>2, <4>1
    <3> QED BY <3>3, <3>4
  <2>3. cpc \in {"free", "take"} => header'[readP] = header[readP]
    <3>1. Dist(readP, readP) = 0 /\ 0 < size /\ readP \in Words
      BY <1>3, DistOK, CapacityOK
    <3> QED BY <3>1, WriteMemory
  <2>4. size' + addSize' <= Capacity /\ size' + addSize' = Between' /\ size' >= 2
    BY <1>3, <1>7, <1>8, <2>1, <2>2
  <2> QED BY <1>1, <2>1, <2>3, <2>4 DEF RInv, StepInv, HeaderSize
<1>12. ChainInv'
  <2> DEFINE b1 == [b EXCEPT ![y] = k]
             b2 == IF e > 0 THEN [b1 EXCEPT ![0] = k + s] ELSE b1
  <2>1. e > 0 => 0 \in Words /\ 0 # y
    <3>1. e > 0 => 0 # y
      BY <1>3, <1>6
    <3>2. 0 \in Words
      BY <1>3, WordOK
    <3> QED BY <3>1, <3>2
  <2>2. /\ b2 \in [Words -> Nat] /\ b2[y] = k /\ (e > 0 => b2[0] = k + s)
        /\ \A q \in Words : q # y /\ (e > 0 => q # 0) => b2[q] = b[q]
    BY <1>3, <1>4, <2>1
  <2> HIDE DEF b2
  <2>3. readP' = readP /\ cpc' = cpc /\ size' = size /\ accepted' = accepted
        /\ settled' = settled /\ pushing' = pushing
    BY <1>1 DEF consumer, hist
  <2>4. \A q \in Words : Headers'[q] = IF cpc = "empty" /\ q = x THEN Empty ELSE header'[q]
    BY <1>3, <1>10, <2>3 DEF Headers, RInv, RingTypeOK
  <2>5. \A q \in Words : Headers[q] = IF cpc = "empty" /\ q = x THEN Empty ELSE header[q]
    BY <1>3 DEF Headers, RInv, RingTypeOK
  <2>6. Dist(x, x) = 0 /\ 0 < u /\ u <= c /\ u \in 1..Capacity
    BY <1>3, <1>4, <1>5, DistOK, CapacityOK
  <2>7. Agree(Headers, content, b, Headers', content', b2, x, 0, u)
    <3>1. ASSUME NEW q \in Words, Dist(x, q) < u PROVE Headers'[q] = Headers[q] /\ b2[q] = b[q]
      <4>1. q # y /\ (e > 0 => q # 0)
        BY <1>3, <1>4, <1>5, <1>6, <3>1
      <4>2. header'[q] = header[q]
        BY <1>3, <3>1, WriteMemory
      <4> QED BY <2>2, <2>4, <2>5, <4>1, <4>2
    <3>2. ASSUME NEW q \in Offsets, Dist(x, q) < u PROVE content'[q] = content[q]
      BY <1>3, <3>2, WriteMemory
    <3> QED BY <3>1, <3>2 DEF Agree
  <2>8. /\ \A p \in Words : Headers[p].size \in Nat
        /\ \A p \in Words : Headers'[p].size \in Nat
        /\ \A p \in Words : b2[p] \in Nat
    <3>1. \A p \in Words : header'[p] \in Header \cup {NoHeader}
      BY <1>10 DEF RingTypeOK
    <3>2. (\A f \in Header \cup {NoHeader} : f.size \in Nat) /\ Empty.size \in Nat
      BY CapacityOK DEF Header, NoHeader, Empty
    <3>3. \A p \in Words : Headers'[p].size \in Nat
      BY <2>4, <3>1, <3>2
    <3> QED BY <2>2, <3>3, HeadersOK DEF RInv
  <2>9. Chain(Headers, content, x, u, b, k) /\ settled = b[x] + (IF cpc \in {"view", "take"} THEN 0 ELSE Headers[x].size)
    BY <1>2, <1>3 DEF ChainWith
  <2>10. Chain(Headers', content', x, u, b2, k)
    BY <1>3, <2>6, <2>7, <2>8, <2>9, ChainKept
  <2>11. y # x
    BY <1>3, <1>5, <2>6
  <2>12. ASSUME NEW q \in Words, u <= Dist(x, q) PROVE Headers'[q] = header'[q]
    <3>1. q # x
      BY <1>3, <2>6, <2>12
    <3> QED BY <2>4, <3>1
  <2>13. Chain(Headers', content', x, u + n, b2, k + s)
    <3>1. header'[y] = [size |-> s, type |-> pushing.type] /\ Headers'[y] = header'[y]
      <4>1. u <= Dist(x, y)
        BY <1>3, <1>5
      <4> QED BY <1>3, <1>4, <2>12, <4>1, WriteMemory
    <3>2. Headers'[y] # NoHeader /\ Headers'[y].size = s
      <4>1. pushing.type # "data"
        BY DEF RInv, RingTypeOK, Chunk, Types
      <4> QED BY <3>1, <4>1 DEF NoHeader
    <3>3. ASSUME NEW q \in Words, y < q, q < y + Space(s) PROVE Headers'[q] = NoHeader
      <4>1. header'[q] = NoHeader
        BY <1>3, <1>4, <3>3, WriteMemory
      <4>2. q \in Nat /\ y <= q /\ q < y + n
        BY <1>3, <1>4, <3>3, WordOK
      <4>3. Dist(x, q) = u + q - y
        <5>1. y + n <= Capacity /\ Dist(x, y) + n <= Capacity
          BY <1>3, <1>4, <1>5
        <5>2. Dist(x, q) = Dist(x, y) + q - y
          BY <1>3, <1>4, <4>2, <5>1, Inside
        <5> QED BY <1>5, <5>2
      <4> QED BY <1>3, <2>12, <4>1, <4>2, <4>3
    <3>4. \A i \in 1..s : content'[y + HeaderSize + i - 1] = k + i
      BY <1>3, <1>4, WriteMemory
    <3>5. y + Space(s) <= Capacity /\ u + Space(s) <= Capacity /\ u \in 1..Capacity
      BY <1>3, <1>4, <1>5, <2>6
    <3>6. NewChunk(Headers', content', b2, y, s, k)
      BY <2>2, <3>2, <3>3, <3>4 DEF NewChunk
    <3>7. Chain(Headers', content', x, u + Space(s), b2, k + s)
      BY <1>3, <1>4, <1>5, <2>7, <2>8, <2>9, <3>5, <3>6, AddChunk
    <3> QED BY <1>4, <3>7
  <2>14. ASSUME e > 0
         PROVE  Chain(Headers', content', x, u + n + m, b2, k + s + e)
    <3>1. PICK w \in 1..Capacity, t \in Nat : w = u + n /\ t = k + s
      BY <1>3, <1>4, <1>5, <2>6
    <3>2. Dist(x, 0) = w /\ m <= x /\ x < y /\ w + m <= c /\ 0 \in Words /\ 0 # y
      BY <1>3, <1>4, <1>6, <2>1, <2>14, <3>1
    <3>3. header'[0] = [size |-> e, type |-> "Continuation"] /\ Headers'[0] = header'[0]
      <4>1. u <= Dist(x, 0)
        BY <1>3, <1>4, <3>1, <3>2
      <4> QED BY <1>4, <2>12, <2>14, <3>2, <4>1, WriteMemory
    <3>4. Headers'[0] # NoHeader /\ Headers'[0].size = e
      BY <3>3 DEF NoHeader
    <3>5. ASSUME NEW q \in Words, 0 < q, q < 0 + Space(e) PROVE Headers'[q] = NoHeader
      <4>1. header'[q] = NoHeader
        BY <1>4, <2>14, <3>5, WriteMemory
      <4>2. q \in Nat /\ q < m
        BY <1>4, <3>5, WordOK
      <4>3. Dist(x, q) = w + q - 0
        <5>1. 0 + m <= Capacity /\ Dist(x, 0) + m <= Capacity /\ 0 <= q /\ q < 0 + m
          BY <1>3, <1>4, <3>1, <3>2, <4>2
        <5>2. Dist(x, q) = Dist(x, 0) + q - 0
          BY <1>3, <1>4, <3>2, <4>2, <5>1, Inside
        <5> QED BY <3>2, <5>2
      <4> QED BY <1>3, <1>4, <2>12, <3>1, <4>1, <4>2, <4>3
    <3>6. \A i \in 1..e : content'[0 + HeaderSize + i - 1] = t + i
      BY <1>3, <1>4, <2>14, <3>1, WriteMemory
    <3>7. Chain(Headers', content', x, w, b2, t)
      BY <2>13, <3>1
    <3>8. Agree(Headers', content', b2, Headers', content', b2, x, 0, w)
      BY DEF Agree
    <3>9. b2[0] = t /\ 0 + Space(e) <= Capacity /\ w + Space(e) <= Capacity
      BY <1>3, <1>4, <2>2, <2>14, <3>1, <3>2
    <3>10. NewChunk(Headers', content', b2, 0, e, t)
      BY <3>4, <3>5, <3>6, <3>9 DEF NewChunk
    <3>11. Chain(Headers', content', x, w + Space(e), b2, t + e)
      BY <1>3, <1>4, <2>8, <3>1, <3>2, <3>7, <3>8, <3>9, <3>10, AddChunk
    <3> QED BY <1>4, <3>1, <3>11
  <2>15. Chain(Headers', content', x, u + v, b2, k + s + e)
    <3>1. CASE e > 0
      <4>1. u + v = u + n + m
        BY <1>3, <1>4, <1>7, <3>1
      <4> QED BY <2>14, <3>1, <4>1
    <3>2. CASE ~(e > 0)
      <4>1. u + v = u + n /\ k + s + e = k + s
        BY <1>3, <1>4, <1>7, <3>2
      <4> QED BY <2>13, <4>1
    <3> QED BY <3>1, <3>2
  <2>16. settled = b2[x] + (IF cpc \in {"view", "take"} THEN 0 ELSE Headers'[x].size)
    <3>1. b2[x] = b[x] /\ Headers'[x] = Headers[x]
      BY <1>3, <2>6, <2>7 DEF Agree
    <3> QED BY <2>9, <3>1
  <2>17. accepted' + Written' = k + s + e
    <3>1. Written' = s + e
      BY <1>1, <1>4, <2>3 DEF Written
    <3> QED BY <1>3, <1>4, <2>3, <3>1
  <2>18. ChainWith(b2)'
    BY <1>3, <1>8, <2>3, <2>10, <2>15, <2>16, <2>17 DEF ChainWith
  <2> QED BY <2>2, <2>18 DEF ChainInv
<1> QED BY <1>10, <1>11, <1>12 DEF RInv

--------------------------------------------------------------------------------
(***************************************************************************)
(* What follows from the invariant                                         *)
(***************************************************************************)
\* The bytes of the view are the next ones in line.
LEMMA ViewIsNext ==
  ASSUME RInv, cpc = "take"
  PROVE  /\ view.length \in Nat /\ settled + view.length <= accepted
         /\ view.length <= Capacity
         /\ Viewed = [i \in 1..view.length |-> settled + i]
<1>1. PICK b \in [Words -> Nat] : ChainWith(b)
  BY DEF RInv, ChainInv
<1>2. Headers = header /\ settled = b[readP] + 0
  BY <1>1 DEF Headers, ChainWith
<1>3. PICK z \in Nat : z = view.length /\ z = header[readP].size /\ view.start = readP + HeaderSize
  BY NumbersOK, HeadersOK DEF RInv, StepInv
<1>4. /\ readP \in Words /\ Dist(readP, readP) = 0 /\ 0 < size /\ header[readP] # NoHeader
      /\ b[readP] \in Nat /\ readP \in Nat
  BY <1>2, InUseOK, FirstChunk
<1>5. BytesOK(header, content, readP, size, b, accepted, readP)
  BY <1>1, <1>2, <1>4 DEF ChainWith, Chain, Live
<1>6. z <= Capacity
  <2>1. readP + Space(z) <= Capacity
    BY <1>2, <1>3, FirstChunk
  <2>2. Space(z) \in Nat /\ z + 2 <= Space(z)
    BY SpaceOK
  <2> QED BY <1>3, <1>4, <2>1, <2>2, CapacityOK
<1>7. settled + z <= accepted
  BY <1>2, <1>3, <1>4, <1>5 DEF BytesOK
<1>8. \A i \in 1..z : content[view.start + i - 1] = settled + i
  BY <1>2, <1>3, <1>4, <1>5 DEF BytesOK
<1> QED BY <1>3, <1>6, <1>7, <1>8 DEF Viewed

LEMMA Sound == RInv => RingSound
<1> SUFFICES ASSUME RInv PROVE RingSound
  OBVIOUS
<1>1. ReadsHeaders
  <2>1. cpc \in {"free", "view"} => Headers = header
    BY DEF Headers
  <2> QED BY <2>1, FirstChunk DEF ReadsHeaders
<1>2. SizeIsDistance
  BY NumbersOK DEF RInv, StepInv, SizeIsDistance
<1>3. ViewValid
  BY ViewIsNext DEF ViewValid
<1> QED BY <1>1, <1>2, <1>3 DEF RingSound, RInv

\* Any step of the two, whatever the producer is given to push.
RingStep ==
  \/ \E length \in Nat, type \in Types : PushLoad(length, type)
  \/ PushStep \/ PopStep \/ PopView \/ Take

LEMMA RInvStep ==
  ASSUME RInv, RingStep \/ UNCHANGED ringVars
  PROVE  RInv'
<1>1. CASE UNCHANGED ringVars
  BY <1>1 DEF RInv, RingTypeOK, StepInv, ChainInv, ChainWith, ringVars, memory, producer, consumer,
              hist, Headers, Written, Between, Fits, Contig
<1> QED BY <1>1, PushLoadStep, PushWriteStep, PushReleaseStep, PopLoadStep, PopLastStep,
           PopEmptyStep, PopNextStep, PopViewStep, TakeStep DEF RingStep, PushStep, PopStep

\* Every step is one of MIDIFifo, or changes nothing that it shows.
LEMMA FifoStep ==
  ASSUME RInv, RingStep \/ UNCHANGED ringVars
  PROVE  (Fifo!Next \/ UNCHANGED Fifo!vars) /\ (UNCHANGED wire \/ Len(wire') = settled')
<1>1. Len(wire') = settled'
  BY RInvStep DEF RInv, StepInv
<1>2. CASE PushRelease
  <2>1. PICK b \in [Words -> Nat] : ChainWith(b)
    BY DEF RInv, ChainInv
  <2>2. /\ accepted' = accepted + pushing.length /\ UNCHANGED <<settled, wire>>
        /\ accepted + Written = accepted + pushing.length
    BY <1>2 DEF PushRelease, Written
  <2>3. /\ accepted \in Nat /\ pushing.length \in Nat /\ settled \in Nat /\ readP \in Words
        /\ b[readP] \in Nat /\ size \in Nat /\ addSize \in Nat
    BY NumbersOK DEF RInv
  <2>4. b[readP] <= settled
    <3>1. Headers[readP].size \in Nat
      BY <2>3, HeadersOK DEF RInv
    <3> QED BY <2>1, <2>3, <3>1 DEF ChainWith
  <2>5. PICK v \in Nat : v = size + addSize /\ 2 <= v /\ v <= Capacity
    BY <2>3 DEF RInv, StepInv, HeaderSize
  <2>6. Dist(readP, readP) = 0 /\ Headers[readP] # NoHeader
    BY <2>3, FirstChunk, DistOK, WordOK, CapacityOK
  <2>7. BytesOK(Headers, content, readP, v, b, accepted + Written, readP)
    BY <2>1, <2>3, <2>5, <2>6 DEF ChainWith, Chain, Live
  <2>8. accepted' - settled <= Capacity - 2
    BY <2>2, <2>3, <2>4, <2>5, <2>6, <2>7, CapacityOK DEF BytesOK, HeaderSize
  <2>9. CASE pushing.length = 0
    BY <2>2, <2>3, <2>9 DEF Fifo!vars
  <2>10. CASE pushing.length # 0
    <3>1. accepted' > accepted
      BY <2>2, <2>3, <2>10
    <3> QED BY <1>1, <2>2, <2>8, <3>1 DEF Fifo!Next, Fifo!Accept, HeaderSize
  <2> QED BY <1>1, <2>9, <2>10
<1>3. CASE Take
  <2>1. cpc = "take" /\ wire' = wire \o Viewed /\ settled' = settled + view.length
        /\ accepted' = accepted
    BY <1>3 DEF Take
  <2>2. PICK z \in Nat : z = view.length
    BY <2>1, ViewIsNext
  <2>3. /\ z <= Capacity /\ settled + z <= accepted /\ settled \in Nat
        /\ Viewed = [i \in 1..z |-> settled + i]
    BY <2>1, <2>2, ViewIsNext, NumbersOK DEF RInv
  <2>4. CASE z = 0
    <3>1. Len(wire') = Len(wire) /\ wire \in Seq(Nat)
      BY <1>1, <2>1, <2>2, <2>3, <2>4 DEF RInv, StepInv, RingTypeOK
    <3>2. Viewed = <<>>
      BY <2>3, <2>4
    <3>3. wire' = wire /\ settled' = settled
      BY <2>1, <2>2, <2>3, <2>4, <3>1, <3>2
    <3> QED BY <1>1, <2>1, <3>3 DEF Fifo!vars
  <2>5. CASE z # 0
    <3>1. settled' - settled = z /\ z \in 1..Capacity /\ settled' <= accepted
      BY <2>1, <2>2, <2>3, <2>5, CapacityOK
    <3> QED BY <1>1, <2>1, <2>3, <3>1 DEF Fifo!Next, Fifo!Deliver
  <2> QED BY <2>4, <2>5
<1>4. RingStep => PushRelease \/ Take \/ UNCHANGED hist
  BY DEF RingStep, PushStep, PopStep, PushLoad, PushWrite, PopLoad, PopLast, PopEmpty, PopNext,
         FreeOld, PopView
<1> QED BY <1>2, <1>3, <1>4 DEF ringVars, hist, Fifo!vars

\* The ring stays sound, whatever the capacity and the sizes of the chunks.
THEOREM RingIsSound == RingSpec => []RingSound
<1>1. RInv /\ [RingNext]_ringVars => RInv'
  <2>1. RingNext => RingStep
    BY ConstantsAssumption DEF RingNext, RingStep
  <2> QED BY <2>1, RInvStep
<1> QED BY <1>1, InitStep, Sound, PTL DEF RingSpec

\* The bytes leave the ring in the order in which they entered it, and no more
\* than fit beside a header are in it.
THEOREM RingIsFifo == RingSpec => FifoSpec
<1>1. RInv /\ [RingNext]_ringVars =>
        RInv' /\ [Fifo!Next]_(Fifo!vars) /\ [Len(wire') = settled']_wire
  <2>1. RingNext => RingStep
    BY ConstantsAssumption DEF RingNext, RingStep
  <2> QED BY <2>1, RInvStep, FifoStep
<1>2. RingInit => Fifo!Init
  BY DEF RingInit, Fifo!Init
<1> QED BY <1>1, <1>2, InitStep, PTL DEF RingSpec, FifoSpec, Fifo!Spec
===============================================================================
