---------------------- MODULE BufferedBLEMIDIParser_proofs ----------------------
(***************************************************************************)
(* Proofs about BufferedBLEMIDIParser, for every capacity of the ring and  *)
(* all packets: the ring stays sound and is a fifo when it is fed by       *)
(* handleData and emptied by the parser, and the parser extracts the MIDI  *)
(* bytes wherever the packets are split.  All that concerns the ring alone *)
(* is proved of its own steps in BLERingBuf_proofs.                        *)
(***************************************************************************)
EXTENDS BufferedBLEMIDIParser, BLERingBuf_proofs

\* The roles of the bytes pushed are known.
RolesInv ==
  /\ roles \in Seq(Roles) /\ rest \in Seq(Roles)
  /\ Len(roles) = accepted + (IF ppc = "idle" THEN 0 ELSE pushing.length)
  /\ read \in 0..view.length /\ midi \subseteq Nat
  /\ prevWasTimestamp \in BOOLEAN /\ headless \in BOOLEAN

IInv == RInv /\ RolesInv

\* To the ring, every step is one of its own.
LEMMA StepOfRing == Next => RingStep \/ UNCHANGED ringVars
<1>1. ASSUME NEW packet \in Seq(Roles), NEW k \in 0..Len(packet), NEW type \in {"Packet", "Continuation"},
             PushFirst(packet, k, type)
      PROVE  RingStep
  BY <1>1 DEF PushFirst, RingStep, Types
<1>2. ASSUME NEW packet \in Packets, Receive(packet) PROVE RingStep
  BY <1>2, PacketsAssumption DEF Receive, PushFirst, RingStep, Types
<1>3. ASSUME ReceiveMore PROVE RingStep
  BY <1>3 DEF ReceiveMore, PushFirst, RingStep, Types
<1> QED BY <1>2, <1>3 DEF Next, DropRest, Ring, NextChunk, Pull, EndChunk, RingStep

\* The first elements of a sequence, appended to another one.
LEMMA AppendFirst ==
  ASSUME NEW T, NEW s \in Seq(T), NEW f \in Seq(T), NEW k \in 0..Len(s)
  PROVE  f \o SubSeq(s, 1, k) \in Seq(T) /\ Len(f \o SubSeq(s, 1, k)) = Len(f) + k
<1>1. PICK g \in Seq(T) : g = SubSeq(s, 1, k) /\ Len(g) = k
  <2>1. SubSeq(s, 1, k) \in Seq(T) /\ Len(SubSeq(s, 1, k)) = k
    OBVIOUS
  <2> QED BY <2>1
<1>2. f \o g \in Seq(T) /\ Len(f \o g) = Len(f) + Len(g)
  OBVIOUS
<1> QED BY <1>1, <1>2

LEMMA PushFirstStep ==
  ASSUME IInv, NEW packet \in Seq(Roles), NEW k \in 0..Len(packet), NEW type \in Types,
         PushFirst(packet, k, type)
  PROVE  IInv'
<1>1. k \in Nat
  OBVIOUS
<1>2. RInv'
  BY <1>1, PushLoadStep DEF IInv, PushFirst
<1>3. /\ ppc = "idle" /\ ppc' = "write" /\ pushing'.length = k
      /\ accepted' = accepted /\ view' = view /\ parser' = parser
      /\ roles' = roles \o SubSeq(packet, 1, k)
      /\ rest' = SubSeq(packet, k + 1, Len(packet))
  BY DEF PushFirst, PushLoad, hist, consumer
<1>4. rest' \in Seq(Roles)
  BY <1>1, <1>3
<1>5. roles' \in Seq(Roles) /\ Len(roles') = Len(roles) + k
  BY <1>3, AppendFirst DEF IInv, RolesInv
<1>6. Len(roles) = accepted /\ accepted \in Nat
  BY <1>3, NumbersOK DEF IInv, RolesInv, RInv
<1>7. RolesInv'
  BY <1>3, <1>4, <1>5, <1>6 DEF IInv, RolesInv, parser
<1> QED BY <1>2, <1>7 DEF IInv

\* The byte that pull takes is the next one in line.
LEMMA PulledByte ==
  ASSUME IInv, cpc = "take", read < view.length
  PROVE  /\ Viewed[read + 1] = settled + read + 1 /\ Viewed[read + 1] \in Nat
         /\ read \in Nat /\ settled \in Nat /\ view.length \in Nat
         /\ settled + view.length <= accepted /\ accepted <= Len(roles)
<1>1. /\ view.length \in Nat /\ read \in Nat /\ settled \in Nat /\ accepted \in Nat
      /\ pushing.length \in Nat
      /\ settled + view.length <= accepted
      /\ Viewed = [i \in 1..view.length |-> settled + i]
  BY ViewIsNext, NumbersOK DEF IInv, RInv, RolesInv
<1>2. read + 1 \in 1..view.length
  BY <1>1
<1>3. Viewed[read + 1] = settled + (read + 1)
  BY <1>1, <1>2
<1> QED BY <1>1, <1>3 DEF IInv, RolesInv

\* The chunk that pop returns.
LEMMA NextView ==
  ASSUME RInv, PopView
  PROVE  /\ cpc' = "take" /\ settled' = settled /\ accepted' = accepted
         /\ view'.length \in Nat /\ settled + view'.length <= accepted
         /\ view'.length = header[readP].size /\ view'.type = header[readP].type
         /\ Viewed' = [i \in 1..view'.length |-> settled + i]
<1>1. (RInv /\ cpc = "take" =>
         /\ view.length \in Nat /\ settled + view.length <= accepted
         /\ Viewed = [i \in 1..view.length |-> settled + i])'
  BY ViewIsNext, PTL
<1>2. RInv'
  BY PopViewStep
<1>3. /\ cpc' = "take" /\ settled' = settled /\ accepted' = accepted
      /\ view'.length = header[readP].size /\ view'.type = header[readP].type
  BY DEF PopView, hist, Old
<1> QED BY <1>1, <1>2, <1>3

\* What the parser is told of a chunk.
LEMMA ChunkSkipped ==
  ASSUME RInv, NextChunk
  PROVE  /\ view'.length \in Nat /\ read' \in 0..view'.length
         /\ prevWasTimestamp \in BOOLEAN /\ headless \in BOOLEAN =>
              prevWasTimestamp' \in BOOLEAN /\ headless' \in BOOLEAN
         /\ midi' = {}
<1>1. view'.length \in Nat /\ Len(Viewed') = view'.length
  <2>1. PICK z \in Nat : z = view'.length /\ Viewed' = [i \in 1..z |-> settled + i]
    BY NextView DEF NextChunk
  <2> QED BY <2>1
<1>2. Skipped(Viewed') \in 0..view'.length
  BY <1>1 DEF Skipped
<1>3. CASE view'.type = "Packet"
  BY <1>1, <1>2, <1>3 DEF NextChunk, Construct
<1>4. CASE view'.type # "Packet"
  BY <1>1, <1>4 DEF NextChunk, Extend
<1> QED BY <1>3, <1>4

LEMMA IInvStep ==
  ASSUME IInv, [Next]_vars
  PROVE  IInv'
<1>1. ASSUME NEW packet \in Packets, Receive(packet) PROVE IInv'
  BY <1>1, PacketsAssumption, PushFirstStep DEF Receive, Types
<1>2. ASSUME ReceiveMore PROVE IInv'
  BY <1>2, PushFirstStep DEF ReceiveMore, Types, IInv, RolesInv
<1>3. RInv'
  BY StepOfRing, RInvStep DEF IInv, vars
<1>4. ASSUME DropRest PROVE RolesInv'
  BY <1>4 DEF DropRest, IInv, RolesInv, ringVars, producer, consumer, hist, parser
<1>5. ASSUME Ring PROVE RolesInv'
  <2>1. UNCHANGED <<roles, rest, read, prevWasTimestamp, midi, headless>>
    BY <1>5 DEF Ring, parser
  <2>2. CASE PushRelease
    <3>1. accepted' = accepted + pushing.length /\ ppc = "release" /\ ppc' = "idle" /\ view' = view
      BY <2>2 DEF PushRelease, consumer
    <3>2. accepted \in Nat /\ pushing.length \in Nat
      BY NumbersOK DEF IInv, RInv
    <3> QED BY <2>1, <3>1, <3>2 DEF IInv, RolesInv
  <2>3. CASE PushWrite
    BY <2>1, <2>3 DEF PushWrite, IInv, RolesInv, consumer, hist
  <2>4. CASE PopStep
    BY <2>1, <2>4 DEF PopStep, PopLoad, PopLast, PopEmpty, PopNext, FreeOld, producer, hist,
                      IInv, RolesInv
  <2> QED BY <1>5, <2>2, <2>3, <2>4 DEF Ring, PushStep
<1>6. ASSUME NextChunk PROVE RolesInv'
  <2>1. /\ view'.length \in Nat /\ read' \in 0..view'.length
        /\ headless' \in BOOLEAN /\ prevWasTimestamp' \in BOOLEAN /\ midi' = {}
    BY <1>6, ChunkSkipped DEF IInv, RolesInv
  <2> QED BY <1>6, <2>1 DEF NextChunk, PopView, producer, hist, IInv, RolesInv
<1>7. ASSUME Pull PROVE RolesInv'
  <2>1. view.length \in Nat /\ read \in 0..view.length /\ read < view.length
        /\ view' = view /\ read' = read + 1 /\ read' \in 0..view'.length
    BY <1>7, ViewIsNext DEF Pull, IInv, RolesInv, ringVars, consumer
  <2>2. Viewed[read + 1] \in Nat
    <3>1. cpc = "take" /\ read < view.length
      BY <1>7 DEF Pull
    <3> QED BY <3>1, PulledByte
  <2>3. midi' \subseteq Nat /\ prevWasTimestamp' \in BOOLEAN
    BY <1>7, <2>2 DEF Pull, IInv, RolesInv
  <2> QED BY <1>7, <2>1, <2>3 DEF Pull, ringVars, producer, hist, IInv, RolesInv
<1>8. ASSUME EndChunk PROVE RolesInv'
  BY <1>8 DEF EndChunk, Take, NoView, producer, IInv, RolesInv
<1>9. ASSUME UNCHANGED vars PROVE RolesInv'
  BY <1>9 DEF vars, ringVars, producer, consumer, hist, parser, IInv, RolesInv
<1> QED BY <1>1, <1>2, <1>3, <1>4, <1>5, <1>6, <1>7, <1>8, <1>9 DEF Next, IInv

LEMMA InitInv == Init => IInv
<1> SUFFICES ASSUME Init PROVE IInv
  OBVIOUS
<1>1. RInv
  BY InitStep DEF Init
<1>2. <<>> \in Seq(Roles) /\ Len(<<>>) = 0
  OBVIOUS
<1>3. roles = <<>> /\ rest = <<>> /\ headless = FALSE /\ accepted = 0 /\ ppc = "idle"
  BY DEF Init, RingInit
<1>4. Len(roles) = accepted + (IF ppc = "idle" THEN 0 ELSE pushing.length)
  BY <1>2, <1>3
<1>5. view.length = 0 /\ read = 0 /\ midi = {} /\ prevWasTimestamp = TRUE
  BY DEF Init, RingInit, NoView
<1>6. read \in 0..view.length /\ midi \subseteq Nat
  BY <1>5
<1>7. roles \in Seq(Roles) /\ rest \in Seq(Roles)
  BY <1>2, <1>3
<1>8. RolesInv
  BY <1>3, <1>4, <1>5, <1>6, <1>7 DEF RolesInv
<1> QED BY <1>1, <1>8 DEF IInv

LEMMA Invariance == Spec => []IInv
  BY InitInv, IInvStep, PTL DEF Spec

\* The ring of the back end is sound, whatever its capacity, the packets and the
\* way in which the Bluetooth stack splits them.
THEOREM BufferIsSound == Spec => []BufferSound
<1>1. IInv => BufferSound
  BY Sound DEF IInv, RolesInv, BufferSound, TypeOK, RInv
<1> QED BY <1>1, Invariance, PTL

\* The parser sees the bytes of all chunks that were not refused, in order and once.
THEOREM FifoCorrect == Spec => FifoSpec
<1>1. IInv /\ [Next]_vars => [Fifo!Next]_(Fifo!vars) /\ [Len(wire') = settled']_wire
  <2>1. ASSUME IInv, [Next]_vars PROVE RingStep \/ UNCHANGED ringVars
    BY <2>1, StepOfRing DEF vars
  <2> QED BY <2>1, FifoStep DEF IInv
<1>2. Init => Fifo!Init
  BY DEF Init, RingInit, Fifo!Init
<1> QED BY <1>1, <1>2, Invariance, PTL DEF Spec, FifoSpec, Fifo!Spec

--------------------------------------------------------------------------------
(***************************************************************************)
(* What the parser makes of the bytes.                                     *)
(*                                                                         *)
(* pull takes every second byte that is no data for a timestamp, so that   *)
(* all depends on prevWasTimestamp: it has to tell of the byte in front of *)
(* the next one what that was meant to be (PrevOK).  This holds as long as *)
(* the bytes of a packet follow each other in the format's order (RolesOK) *)
(* and every chunk is popped with the type that fits where it begins       *)
(* (ChunksOK), which push has to see to (PushOK, RestOK).  The exception   *)
(* is a packet whose header the ring has put behind an empty chunk         *)
(* (Orphan): `headless` tells the parser of it in time (HeadOK).           *)
(***************************************************************************)
\* The bytes pushed so far are packets with their ends cut off.
RolesOK ==
  \A n \in 1..Len(roles) : roles[n] # "header" => n > 1 /\ Follows(roles[n - 1], roles[n])

\* What handleData has yet to push continues them.
RestOK ==
  rest # <<>> =>
    /\ roles # <<>> /\ roles[Len(roles)] # "header"
    /\ \A i \in 1..Len(rest) :
         /\ rest[i] # "header"
         /\ Follows(IF i = 1 THEN roles[Len(roles)] ELSE rest[i - 1], rest[i])

\* The z bytes behind a begin a packet or continue one, as the type says.
PartOK(ro, a, z, type) ==
  /\ type # "None"
  /\ type = "Packet" => ro[a + 1] = "header"
  /\ type = "Continuation" => a > 0 /\ ro[a] # "header" /\ ro[a + 1] # "header"
  /\ \A i \in 2..z : ro[a + i] # "header"

\* The chunk that push is about to write is of the type it is pushed with.
PushOK ==
  ppc = "write" =>
    /\ pushing.type # "None"
    /\ pushing.length > 0 => PartOK(roles, accepted, pushing.length, pushing.type)

\* The last offset that a header can have; there is no space for data behind it.
Last == Capacity - HeaderSize

\* There is a header at p in what is in use or written.
InUse(p) == Live(Headers, readP, size + addSize, p)

\* The chunk at the beginning of the memory continues an empty one at its end, and the
\* parser knows that, will know it, or has yet to see the empty one.
Orphan ==
  /\ Headers[0].type = "Continuation"
  /\ \/ readP = 0 /\ headless
     \/ readP = Last /\ headless /\ Headers[Last].type = "None"
     \/ readP # 0 /\ InUse(Last) /\ Headers[Last] = [size |-> 0, type |-> "Packet"]

\* The chunk at p begins a packet or continues one, as its type says.
ChunkRoles(p) ==
  Headers[p].size > 0 =>
    \/ PartOK(roles, content[p + HeaderSize] - 1, Headers[p].size, Headers[p].type)
    \/ p = 0 /\ Orphan

ChunksOK == \A p \in Words : InUse(p) => ChunkRoles(p)

\* The parser knows of a packet whose first chunk it got whether that was empty.
HeadOK ==
  cpc # "view" /\ Headers[readP].type = "Packet" => (headless <=> Headers[readP].size = 0)

\* The last byte that the parser is past.
Past == settled + read

\* The parser knows whether the byte in front of the next one was a timestamp.
PrevOK ==
  ~headless /\ Past > 0 => (prevWasTimestamp <=> roles[Past] \in {"timestamp", "header"})

\* The constructor has skipped a header, and what follows it unless that is data.
ViewOK ==
  /\ cpc = "take" => view.type = Headers[readP].type
  /\ cpc # "take" => read = 0
  /\ cpc = "take" /\ view.type = "Packet" /\ view.length > 0 =>
       read >= 1 /\ (read = 1 => view.length = 1 \/ roles[settled + 2] = "data")

\* All of this is an invariant.
ParserInv ==
  /\ RolesOK /\ RestOK /\ PushOK /\ ChunksOK
  /\ HeadOK /\ PrevOK /\ ViewOK
  /\ YieldsItsMidiUnlessHeadless

\* The numbers in the types, and that all bytes in the ring have roles.
LEMMA Numbers ==
  ASSUME IInv
  PROVE  /\ accepted + Written <= Len(roles) /\ Len(roles) \in Nat
         /\ accepted \in Nat /\ Written \in Nat /\ settled \in Nat /\ read \in Nat
         /\ readP \in Words /\ size \in 1..Capacity /\ size + addSize \in 1..Capacity
         /\ addSize \in Nat
         /\ ppc = "idle" => Len(roles) = accepted
<1>1. /\ accepted \in Nat /\ settled \in Nat /\ pushing.length \in Nat /\ readP \in Words
      /\ size \in Nat /\ addSize \in Nat
  BY NumbersOK DEF IInv, RInv
<1>2. size >= 2 /\ size + addSize <= Capacity
  BY DEF IInv, RInv, StepInv, HeaderSize
<1>3. Written \in Nat /\ accepted + Written <= Len(roles)
  BY <1>1 DEF Written, IInv, RolesInv
<1>4. read \in Nat /\ view.length \in Nat
  <2>1. view.length \in Nat
    BY CapacityOK DEF IInv, RInv, RingTypeOK
  <2> QED BY <2>1 DEF IInv, RolesInv
<1>5. Len(roles) \in Nat
  BY DEF IInv, RolesInv
<1>6. ppc = "idle" => Len(roles) = accepted
  BY <1>1 DEF IInv, RolesInv
<1> QED BY <1>1, <1>2, <1>3, <1>4, <1>5, <1>6, CapacityOK

\* The bytes of a chunk in use have been pushed.
LEMMA LiveBytes ==
  ASSUME IInv, NEW p \in Words, InUse(p), Headers[p].size > 0
  PROVE  /\ Headers[p].size \in Nat
         /\ content[p + 2] \in Nat /\ content[p + 2] >= 1
         /\ content[p + 2] - 1 + Headers[p].size <= accepted + Written
         /\ p + 2 \in Offsets /\ Dist(readP, p + 2) = Dist(readP, p) + 2
         /\ Dist(readP, p) + Space(Headers[p].size) <= size + addSize
         /\ p = readP /\ cpc \in {"view", "take"} => content[p + 2] = settled + 1
<1>1. PICK b \in [Words -> Nat] : ChainWith(b)
  BY DEF IInv, RInv, ChainInv
<1>2. PICK z \in Nat, a \in Nat, u \in Nat, d \in Nat, n \in Nat :
        /\ z = Headers[p].size /\ a = b[p] /\ u = size + addSize /\ d = Dist(readP, p)
        /\ n = Space(z) /\ z + 2 <= n
  <2>1. Headers[p].size \in Nat /\ b[p] \in Nat
    BY HeadersOK DEF IInv, RInv
  <2>2. size + addSize \in Nat /\ readP \in Words
    BY Numbers, CapacityOK
  <2>3. Dist(readP, p) \in Nat
    BY <2>2, DistOK, WordOK, CapacityOK
  <2>4. PICK z \in Nat : z = Headers[p].size
    BY <2>1
  <2>5. PICK n \in Nat : n = Space(z) /\ z + 2 <= n
    BY SpaceOK
  <2> QED BY <2>1, <2>2, <2>3, <2>4, <2>5
<1>3. ChunkOK(Headers, readP, u, p) /\ BytesOK(Headers, content, readP, u, b, accepted + Written, p)
  BY <1>1, <1>2 DEF ChainWith, Chain, InUse
<1>4. p + n <= Capacity /\ d + n <= u
  BY <1>2, <1>3 DEF ChunkOK
<1>5. a + z <= accepted + Written /\ content[p + 2] = a + 1
  <2>1. content[p + 2 + 1 - 1] = a + 1
    BY <1>2, <1>3 DEF BytesOK, HeaderSize
  <2>2. p + 2 + 1 - 1 = p + 2
    BY WordOK
  <2> QED BY <1>2, <1>3, <2>1, <2>2 DEF BytesOK
<1>6. p + 2 \in Offsets /\ Dist(readP, p + 2) = d + 2
  <2>1. u <= Capacity /\ readP \in Words /\ 0 < z
    BY <1>2, Numbers, CapacityOK
  <2>2. p \in Nat /\ d + n <= Capacity /\ p <= p + 2 /\ p + 2 < p + n /\ p + 2 \in Nat
    BY <1>2, <1>4, <2>1, WordOK, CapacityOK
  <2>3. PICK q \in Nat, x \in Words : q = p + 2 /\ x = readP
    BY <2>1, <2>2
  <2>4. p + n <= Capacity /\ Dist(x, p) + n <= Capacity /\ p <= q /\ q < p + n
    BY <1>2, <1>4, <2>2, <2>3
  <2>5. q \in Offsets /\ Dist(x, q) = Dist(x, p) + q - p
    BY <2>3, <2>4, Inside
  <2>6. d + q - p = d + 2
    BY <1>2, <2>2, <2>3
  <2> QED BY <1>2, <2>3, <2>5, <2>6
<1>7. p = readP /\ cpc \in {"view", "take"} => content[p + 2] = settled + 1
  BY <1>1, <1>2, <1>5 DEF ChainWith
<1>8. content[p + 2] \in Nat /\ content[p + 2] >= 1
      /\ content[p + 2] - 1 + z <= accepted + Written
  BY <1>2, <1>5
<1> QED BY <1>2, <1>4, <1>6, <1>7, <1>8

\* The parts of a chunk do not depend on what is pushed behind it.
LEMMA PartKept ==
  ASSUME NEW ro, NEW ro2, NEW a \in Nat, NEW z \in Nat, NEW type, NEW t \in Nat, 1 <= z, a + z <= t,
         \A n \in 1..t : ro2[n] = ro[n],
         PartOK(ro, a, z, type)
  PROVE  PartOK(ro2, a, z, type)
<1>1. ro2[a + 1] = ro[a + 1]
  OBVIOUS
<1>2. a > 0 => ro2[a] = ro[a]
  OBVIOUS
<1>3. \A i \in 2..z : ro2[a + i] = ro[a + i]
  OBVIOUS
<1> QED BY <1>1, <1>2, <1>3 DEF PartOK

\* A chunk that stays what it is keeps its roles.
LEMMA ChunkRolesKept ==
  ASSUME IInv, NEW p \in Words, InUse(p), ChunkRoles(p),
         Headers'[p] = Headers[p],
         Headers[p].size > 0 => content'[p + 2] = content[p + 2],
         \A n \in 1..(accepted + Written) : roles'[n] = roles[n],
         Headers[p].size > 0 /\ p = 0 /\ Orphan => Orphan'
  PROVE  ChunkRoles(p)'
<1> SUFFICES ASSUME Headers[p].size > 0
             PROVE  \/ PartOK(roles', content'[p + 2] - 1, Headers[p].size, Headers[p].type)
                    \/ p = 0 /\ Orphan'
  BY DEF ChunkRoles, HeaderSize
<1>1. CASE p = 0 /\ Orphan
  BY <1>1
<1>2. CASE PartOK(roles, content[p + 2] - 1, Headers[p].size, Headers[p].type)
  <2>1. PICK a \in Nat, z \in Nat, t \in Nat :
          /\ a = content[p + 2] - 1 /\ z = Headers[p].size /\ 1 <= z
          /\ t = accepted + Written /\ a + z <= t
    <3>1. PICK z \in Nat : z = Headers[p].size /\ 1 <= z
      BY LiveBytes
    <3>2. PICK a \in Nat : a = content[p + 2] - 1 /\ a + z <= accepted + Written
      BY <3>1, LiveBytes
    <3>3. accepted + Written \in Nat
      BY Numbers
    <3> QED BY <3>1, <3>2, <3>3
  <2>2. PartOK(roles', a, z, Headers[p].type)
    <3>1. \A n \in 1..t : roles'[n] = roles[n]
      BY <2>1
    <3>2. PartOK(roles, a, z, Headers[p].type)
      BY <1>2, <2>1
    <3> QED BY <2>1, <3>1, <3>2, PartKept
  <2> QED BY <2>1, <2>2
<1> QED BY <1>1, <1>2 DEF ChunkRoles, HeaderSize

\* The elements of a sequence extended by the first of another, and of its rest.
LEMMA Elements ==
  ASSUME NEW T, NEW f \in Seq(T), NEW s \in Seq(T), NEW k \in 0..Len(s)
  PROVE  /\ \A n \in 1..Len(f) : (f \o SubSeq(s, 1, k))[n] = f[n]
         /\ \A i \in 1..k : (f \o SubSeq(s, 1, k))[Len(f) + i] = s[i]
         /\ Len(SubSeq(s, k + 1, Len(s))) = Len(s) - k
         /\ \A i \in 1..(Len(s) - k) : SubSeq(s, k + 1, Len(s))[i] = s[k + i]
<1>1. PICK g \in Seq(T) : g = SubSeq(s, 1, k) /\ Len(g) = k /\ \A i \in 1..k : g[i] = s[i]
  <2>1. SubSeq(s, 1, k) \in Seq(T) /\ Len(SubSeq(s, 1, k)) = k
    OBVIOUS
  <2>2. \A i \in 1..k : SubSeq(s, 1, k)[i] = s[i]
    OBVIOUS
  <2> QED BY <2>1, <2>2
<1>2. \A n \in 1..Len(f) : (f \o g)[n] = f[n]
  OBVIOUS
<1>3. \A i \in 1..k : (f \o g)[Len(f) + i] = g[i]
  BY <1>1
<1>4. Len(SubSeq(s, k + 1, Len(s))) = Len(s) - k
  OBVIOUS
<1>5. \A i \in 1..(Len(s) - k) : SubSeq(s, k + 1, Len(s))[i] = s[k + i]
  OBVIOUS
<1> QED BY <1>1, <1>2, <1>3, <1>4, <1>5

\* The parser has not seen more than was pushed.
LEMMA SettledFirst == RInv => settled <= accepted
<1> SUFFICES ASSUME RInv PROVE settled <= accepted
  OBVIOUS
<1>1. PICK b \in [Words -> Nat] : ChainWith(b)
  BY DEF RInv, ChainInv
<1>2. readP \in Words /\ Dist(readP, readP) = 0 /\ 0 < size
  BY InUseOK
<1>3. BytesOK(Headers, content, readP, size, b, accepted, readP)
  BY <1>1, <1>2 DEF ChainWith, Chain, Live
<1>4. PICK z \in Nat, a \in Nat : z = Headers[readP].size /\ a = b[readP]
  BY <1>2, HeadersOK DEF RInv
<1>5. a + z <= accepted /\ (settled = a + 0 \/ settled = a + z)
  BY <1>1, <1>3, <1>4 DEF BytesOK, ChainWith
<1> QED BY <1>4, <1>5, NumbersOK DEF RInv

\* What the parser knows does not depend on what is pushed.
LEMMA ParserKept ==
  ASSUME IInv, HeadOK, PrevOK, ViewOK, YieldsItsMidiUnlessHeadless,
         UNCHANGED <<settled, view, cpc, read, prevWasTimestamp, midi, headless, readP>>,
         Headers'[readP] = Headers[readP],
         cpc = "take" => Viewed' = Viewed,
         \A n \in 1..(accepted + Written) : roles'[n] = roles[n]
  PROVE  HeadOK' /\ PrevOK' /\ ViewOK' /\ YieldsItsMidiUnlessHeadless'
<1>1. HeadOK'
  BY DEF HeadOK
<1>2. PICK a \in Nat, r \in Nat, z \in Nat, t \in Nat :
        /\ a = settled /\ r = read /\ z = view.length /\ r <= z /\ t = accepted + Written
        /\ cpc = "take" => a + z <= t
  <2>1. settled \in Nat /\ read \in Nat /\ accepted + Written \in Nat /\ view.length \in Nat
    <3>1. view.length \in Nat
      BY CapacityOK DEF IInv, RInv, RingTypeOK
    <3>2. accepted + Written \in Nat
      BY Numbers
    <3> QED BY <3>1, <3>2, Numbers
  <2>2. read <= view.length
    BY <2>1 DEF IInv, RolesInv
  <2>3. cpc = "take" => settled + view.length <= accepted + Written
    BY ViewIsNext, Numbers DEF IInv
  <2> QED BY <2>1, <2>2, <2>3
<1>3. PrevOK'
  <2> SUFFICES ASSUME ~headless, a + r > 0
               PROVE  prevWasTimestamp <=> roles'[a + r] \in {"timestamp", "header"}
    BY <1>2 DEF PrevOK, Past
  <2>1. prevWasTimestamp <=> roles[a + r] \in {"timestamp", "header"}
    BY <1>2 DEF PrevOK, Past
  <2>2. a + r <= t
    <3>1. cpc # "take" => r = 0
      BY <1>2 DEF ViewOK
    <3>2. a <= t
      BY <1>2, SettledFirst, Numbers DEF IInv
    <3> QED BY <1>2, <3>1, <3>2
  <2> QED BY <1>2, <2>1, <2>2
<1>4. ViewOK'
  <2>1. cpc = "take" /\ z >= 2 => roles'[a + 2] = roles[a + 2]
    BY <1>2
  <2>2. ASSUME cpc = "take", view.type = "Packet", z > 0
        PROVE  r >= 1 /\ (r = 1 => z = 1 \/ roles'[a + 2] = "data")
    BY <1>2, <2>1, <2>2 DEF ViewOK
  <2> QED BY <1>2, <2>2 DEF ViewOK
<1>5. YieldsItsMidiUnlessHeadless'
  <2> SUFFICES ASSUME view.type = "Packet" \/ ~headless, cpc = "take"
               PROVE  midi = Midi'
    BY DEF YieldsItsMidiUnlessHeadless, YieldsItsMidi
  <2>1. midi = Midi
    BY DEF YieldsItsMidiUnlessHeadless, YieldsItsMidi
  <2>2. \A i \in 1..r : Viewed[i] \in 1..t
    <3>1. Viewed = [i \in 1..z |-> a + i]
      BY <1>2, ViewIsNext DEF IInv
    <3> QED BY <1>2, <3>1
  <2>3. Midi' = Midi
    BY <1>2, <2>2 DEF Midi
  <2> QED BY <2>1, <2>3
<1> QED BY <1>1, <1>3, <1>4, <1>5

\* The beginning of a packet, or of the rest of one, is pushed.
LEMMA PushFirstRoles ==
  ASSUME IInv, ParserInv, NEW s \in Seq(Roles), NEW k \in 0..Len(s),
         NEW type \in {"Packet", "Continuation"}, PushFirst(s, k, type),
         \A i \in 1..Len(s) : i > 1 => s[i] # "header" /\ Follows(s[i - 1], s[i]),
         Len(s) > 0 /\ type = "Packet" => s[1] = "header",
         Len(s) > 0 /\ type = "Continuation" =>
           /\ roles # <<>> /\ roles[Len(roles)] # "header"
           /\ s[1] # "header" /\ Follows(roles[Len(roles)], s[1]),
         k < Len(s) => k >= 1 /\ (type = "Packet" => k >= 2)
  PROVE  ParserInv'
<1>1. /\ ppc = "idle" /\ ppc' = "write" /\ pushing' = [length |-> k, type |-> type]
      /\ UNCHANGED <<header, content, size, writeP, addSize, readP, locSize, view, cpc,
                     accepted, settled, wire, read, prevWasTimestamp, midi, headless>>
      /\ roles' = roles \o SubSeq(s, 1, k)
      /\ rest' = SubSeq(s, k + 1, Len(s))
  BY DEF PushFirst, PushLoad, memory, consumer, hist, parser
<1>2. PICK l \in Nat, m \in Nat :
        l = Len(roles) /\ m = Len(s) /\ l = accepted /\ k <= m /\ k \in Nat
  BY <1>1, Numbers
<1>3. /\ roles \in Seq(Roles)
      /\ \A n \in 1..l : roles'[n] = roles[n]
      /\ \A i \in 1..k : roles'[l + i] = s[i]
      /\ Len(rest') = m - k
      /\ \A i \in 1..(m - k) : rest'[i] = s[k + i]
      /\ Len(roles') = l + k
  <2>1. roles \in Seq(Roles)
    BY DEF IInv, RolesInv
  <2>2. /\ \A n \in 1..Len(roles) : (roles \o SubSeq(s, 1, k))[n] = roles[n]
        /\ \A i \in 1..k : (roles \o SubSeq(s, 1, k))[Len(roles) + i] = s[i]
        /\ Len(SubSeq(s, k + 1, Len(s))) = Len(s) - k
        /\ \A i \in 1..(Len(s) - k) : SubSeq(s, k + 1, Len(s))[i] = s[k + i]
    BY <2>1, Elements
  <2>3. Len(roles \o SubSeq(s, 1, k)) = Len(roles) + k
    BY <2>1, AppendFirst
  <2> QED BY <1>1, <1>2, <2>1, <2>2, <2>3
<1>4. roles # <<>> => l > 0
  <2>1. PICK g \in Seq(Roles) : g = roles /\ Len(g) = l
    BY <1>2, <1>3
  <2>2. Len(g) = 0 => g = <<>>
    OBVIOUS
  <2> QED BY <1>2, <2>1, <2>2
<1>5. RolesOK'
  <2> SUFFICES ASSUME NEW n \in 1..(l + k), roles'[n] # "header"
               PROVE  n > 1 /\ Follows(roles'[n - 1], roles'[n])
    BY <1>3 DEF RolesOK
  <2>1. CASE n <= l
    <3>1. n \in 1..l /\ roles'[n] = roles[n] /\ n > 1 /\ Follows(roles[n - 1], roles[n])
      BY <1>2, <1>3, <2>1 DEF ParserInv, RolesOK
    <3>2. roles'[n - 1] = roles[n - 1]
      BY <1>2, <1>3, <2>1, <3>1
    <3> QED BY <3>1, <3>2
  <2>2. CASE n = l + 1
    <3>1. roles'[n] = s[1] /\ m > 0 /\ type = "Continuation"
      BY <1>2, <1>3, <2>2
    <3>2. l > 0 /\ Follows(roles[l], s[1])
      BY <1>2, <1>4, <3>1
    <3>3. roles'[n - 1] = roles[l]
      BY <1>2, <1>3, <2>2, <3>2
    <3> QED BY <1>2, <2>2, <3>1, <3>2, <3>3
  <2>3. CASE n > l + 1
    <3>1. PICK i \in 1..k : n = l + i /\ i > 1
      BY <1>2, <2>3
    <3>2. roles'[n] = s[i] /\ roles'[n - 1] = s[i - 1]
      <4>1. n - 1 = l + (i - 1) /\ i - 1 \in 1..k
        BY <1>2, <3>1
      <4> QED BY <1>3, <3>1, <4>1
    <3>3. Follows(s[i - 1], s[i])
      BY <1>2, <3>1
    <3> QED BY <1>2, <3>1, <3>2, <3>3
  <2> QED BY <1>2, <2>1, <2>2, <2>3
<1>6. RestOK'
  <2> SUFFICES ASSUME rest' # <<>>
               PROVE  /\ roles' # <<>> /\ roles'[l + k] # "header"
                      /\ \A i \in 1..(m - k) :
                           /\ rest'[i] # "header"
                           /\ Follows(IF i = 1 THEN roles'[l + k] ELSE rest'[i - 1], rest'[i])
    BY <1>3 DEF RestOK
  <2>1. k < m /\ k >= 1 /\ (type = "Packet" => k >= 2)
    <3>1. k # m
      BY <1>1, <1>2
    <3> QED BY <1>2, <3>1
  <2>2. roles'[l + k] = s[k] /\ roles' # <<>>
    BY <1>2, <1>3, <2>1
  <2>3. s[k] # "header"
    <3>1. CASE k > 1
      BY <1>2, <2>1, <3>1
    <3>2. CASE k = 1
      BY <1>2, <2>1, <3>2
    <3> QED BY <2>1, <3>1, <3>2
  <2>4. ASSUME NEW i \in 1..(m - k)
        PROVE  /\ rest'[i] # "header"
               /\ Follows(IF i = 1 THEN roles'[l + k] ELSE rest'[i - 1], rest'[i])
    <3>1. rest'[i] = s[k + i] /\ k + i \in 1..m /\ k + i > 1
      BY <1>2, <1>3, <2>1
    <3>2. (IF i = 1 THEN roles'[l + k] ELSE rest'[i - 1]) = s[(k + i) - 1]
      <4>1. CASE i = 1
        BY <1>2, <2>2, <4>1
      <4>2. CASE i # 1
        <5>1. i - 1 \in 1..(m - k) /\ k + (i - 1) = (k + i) - 1
          BY <1>2, <4>2
        <5> QED BY <1>3, <4>2, <5>1
      <4> QED BY <4>1, <4>2
    <3> QED BY <1>2, <3>1, <3>2
  <2> QED BY <2>2, <2>3, <2>4
<1>7. PushOK'
  <2> SUFFICES ASSUME k > 0 PROVE PartOK(roles', l, k, type)
    BY <1>1, <1>2 DEF PushOK
  <2>1. roles'[l + 1] = s[1]
    BY <1>2, <1>3
  <2>2. type = "Continuation" => l > 0 /\ roles'[l] # "header" /\ s[1] # "header"
    BY <1>2, <1>3, <1>4
  <2>3. ASSUME NEW i \in 2..k PROVE roles'[l + i] # "header"
    <3>1. i \in 1..k /\ i \in 1..Len(s) /\ i > 1
      BY <1>2
    <3> QED BY <1>3, <3>1
  <2>4. type = "Packet" => s[1] = "header"
    BY <1>2
  <2> QED BY <2>1, <2>2, <2>3, <2>4 DEF PartOK
<1>8. Headers' = Headers /\ Written = 0
  BY <1>1 DEF Headers, Written
<1>9. \A n \in 1..(accepted + Written) : roles'[n] = roles[n]
  BY <1>2, <1>3, <1>8
<1>10. ChunksOK'
  <2> SUFFICES ASSUME NEW p \in Words, InUse(p)' PROVE ChunkRoles(p)'
    BY DEF ChunksOK
  <2>1. InUse(p) /\ ChunkRoles(p)
    BY <1>1, <1>8 DEF InUse, ParserInv, ChunksOK
  <2>2. Orphan => Orphan'
    BY <1>1, <1>8 DEF Orphan, InUse
  <2> QED BY <1>1, <1>8, <1>9, <2>1, <2>2, ChunkRolesKept
<1>11. HeadOK' /\ PrevOK' /\ ViewOK' /\ YieldsItsMidiUnlessHeadless'
  <2>1. Viewed' = Viewed
    BY <1>1 DEF Viewed
  <2> QED BY <1>1, <1>8, <1>9, <2>1, ParserKept DEF ParserInv
<1> QED BY <1>5, <1>6, <1>7, <1>10, <1>11 DEF ParserInv

LEMMA ReceiveRoles ==
  ASSUME IInv, ParserInv, WellFormedPackets, NEW packet \in Packets, Receive(packet)
  PROVE  ParserInv'
<1>1. PICK k \in 0..Len(packet) :
        (k >= FirstMin \/ k = Len(packet)) /\ PushFirst(packet, k, "Packet")
  BY DEF Receive
<1>2. packet \in Seq(Roles) /\ WellFormed(packet)
  BY PacketsAssumption DEF WellFormedPackets
<1>3. k < Len(packet) => k >= 2
  BY <1>1, <1>2, PacketsAssumption DEF WellFormedPackets
<1>4. \A i \in 1..Len(packet) : i > 1 => packet[i] # "header" /\ Follows(packet[i - 1], packet[i])
  BY <1>2 DEF WellFormed
<1>5. Len(packet) > 0 => packet[1] = "header"
  <2>1. Len(packet) \in Nat
    BY <1>2
  <2> QED BY <1>2, <2>1 DEF WellFormed
<1> QED BY <1>1, <1>2, <1>3, <1>4, <1>5, PushFirstRoles

LEMMA ReceiveMoreRoles ==
  ASSUME IInv, ParserInv, ReceiveMore
  PROVE  ParserInv'
<1>1. PICK k \in 1..Len(rest) : PushFirst(rest, k, "Continuation")
  BY DEF ReceiveMore
<1>2. rest # <<>> /\ rest \in Seq(Roles) /\ k \in 0..Len(rest) /\ k >= 1
  BY DEF ReceiveMore, IInv, RolesInv
<1>3. /\ roles # <<>> /\ roles[Len(roles)] # "header"
      /\ \A i \in 1..Len(rest) :
           /\ rest[i] # "header"
           /\ Follows(IF i = 1 THEN roles[Len(roles)] ELSE rest[i - 1], rest[i])
  BY <1>2 DEF ParserInv, RestOK
<1>4. \A i \in 1..Len(rest) : i > 1 => rest[i] # "header" /\ Follows(rest[i - 1], rest[i])
  BY <1>3
<1>5. rest[1] # "header" /\ Follows(roles[Len(roles)], rest[1])
  BY <1>2, <1>3
<1> QED BY <1>1, <1>2, <1>3, <1>4, <1>5, PushFirstRoles

LEMMA DropRestRoles ==
  ASSUME IInv, ParserInv, DropRest
  PROVE  ParserInv'
<1>1. /\ rest' = <<>> /\ UNCHANGED <<header, content, size, writeP, pushing, addSize, ppc, readP,
                     locSize, view, cpc, accepted, settled, wire, roles, read, prevWasTimestamp,
                     midi, headless>>
  BY DEF DropRest, ringVars, memory, producer, consumer, hist, parser
<1>2. Headers' = Headers /\ Viewed' = Viewed
  BY <1>1 DEF Headers, Viewed
<1>3. RolesOK' /\ RestOK' /\ PushOK'
  BY <1>1 DEF ParserInv, RolesOK, RestOK, PushOK
<1>4. ChunksOK'
  BY <1>1, <1>2 DEF ParserInv, ChunksOK, ChunkRoles, InUse, Orphan
<1>5. HeadOK' /\ PrevOK' /\ ViewOK' /\ YieldsItsMidiUnlessHeadless'
  BY <1>1, <1>2 DEF ParserInv, HeadOK, PrevOK, Past, ViewOK, YieldsItsMidiUnlessHeadless, YieldsItsMidi, Midi
<1> QED BY <1>3, <1>4, <1>5 DEF ParserInv

\* The view does not change while the parser looks at it.
LEMMA ViewStays ==
  ASSUME RInv, RInv', cpc = "take", UNCHANGED <<cpc, view, settled>>
  PROVE  Viewed' = Viewed
<1>1. (RInv /\ cpc = "take" => Viewed = [i \in 1..view.length |-> settled + i])'
  BY ViewIsNext, PTL
<1>2. Viewed = [i \in 1..view.length |-> settled + i]
  BY ViewIsNext
<1> QED BY <1>1, <1>2

\* push leaves the headers in use alone, also where pop has yet to write one.
LEMMA HeadersWritten ==
  ASSUME RInv, PushWrite, NEW q \in Words, Dist(readP, q) < size
  PROVE  Headers'[q] = Headers[q]
<1>1. header'[q] = header[q]
  BY WriteMemory
<1>2. header \in [Words -> Header \cup {NoHeader}] /\ header' \in [Words -> Header \cup {NoHeader}]
  BY PushWriteStep DEF RInv, RingTypeOK
<1>3. readP' = readP /\ cpc' = cpc
  BY DEF PushWrite, consumer
<1> QED BY <1>1, <1>2, <1>3 DEF Headers

\* What is in use after push has written is what was in use, or new.
LEMMA WrittenChunks ==
  ASSUME RInv, PushWrite, NEW p \in Words, InUse(p)'
  PROVE  \/ InUse(p) /\ Dist(readP, p) < size
         \/ p = writeP
         \/ Size2 > 0 /\ p = 0
<1>1. ppc = "write" /\ addSize = 0 /\ readP' = readP /\ size' = size /\ cpc' = cpc
  BY DEF PushWrite, consumer, RInv, StepInv
<1>2. PICK x \in Nat, y \in Nat, c \in Nat, u \in Nat, s \in Nat, e \in Nat, n \in Nat, m \in Nat :
        /\ x = readP /\ y = writeP /\ c = Capacity /\ u = size /\ s = Size1 /\ e = Size2
        /\ n = Space(s) /\ m = Space(e) /\ n >= 2 /\ m >= 2
        /\ x \in Words /\ y \in Words /\ x < c /\ y < c
  <2>1. readP \in Words /\ writeP \in Words /\ readP \in Nat /\ writeP \in Nat /\ size \in Nat
    BY NumbersOK DEF RInv
  <2>2. Size1 \in Nat /\ Size2 \in Nat
    BY <1>1, WriteFits
  <2>3. readP < Capacity /\ writeP < Capacity /\ Capacity \in Nat
    BY <2>1, WordOK, CapacityOK
  <2>4. PICK s \in Nat, e \in Nat : s = Size1 /\ e = Size2
    BY <2>2
  <2>5. PICK n \in Nat : n = Space(s) /\ n >= 2
    BY SpaceOK
  <2>6. PICK m \in Nat : m = Space(e) /\ m >= 2
    BY SpaceOK
  <2> QED BY <2>1, <2>3, <2>4, <2>5, <2>6
<1>3. /\ y + n <= c /\ u + n <= c /\ Dist(x, y) = u
      /\ e > 0 => y + n = c /\ u + n + m <= c /\ Dist(x, 0) = u + n
  BY <1>1, <1>2, WriteFits
<1>4. addSize' = n + (IF e > 0 THEN m ELSE 0)
  BY <1>2 DEF PushWrite, Space
<1>5. \A q \in Words : Dist(x, q) < u => Headers'[q] = Headers[q]
  BY <1>2, HeadersWritten
<1>6. Dist(x, p) \in Nat /\ Dist(x, p) < u + addSize' /\ Headers'[p] # NoHeader /\ p \in Nat
      /\ p < c
  <2>1. p \in Nat /\ p < Capacity
    BY WordOK, CapacityOK
  <2> QED BY <1>1, <1>2, <2>1, DistOK DEF InUse, Live
<1>7. CASE Dist(x, p) < u
  <2>1. InUse(p)
    BY <1>1, <1>2, <1>5, <1>6, <1>7 DEF InUse, Live
  <2> QED BY <1>2, <1>7, <2>1
<1>8. CASE Dist(x, p) >= u
  <2>1. header'[p] # NoHeader
    <3>1. p # x
      <4>1. Dist(x, x) = 0
        BY <1>2, DistOK, WordOK, CapacityOK
      <4>2. 2 <= u
        BY <1>2 DEF RInv, StepInv, HeaderSize
      <4> QED BY <1>2, <1>8, <4>1, <4>2
    <3> QED BY <1>1, <1>2, <1>6, <3>1 DEF Headers
  <2>2. ~(y < p /\ p < y + n)
    BY <1>2, <2>1, WriteMemory
  <2>3. e > 0 => ~(0 < p /\ p < 0 + m)
    BY <1>2, <2>1, WriteMemory
  <2>4. Dist(x, p) = (IF p >= x THEN p - x ELSE p - x + c)
    BY <1>2 DEF Dist
  <2>5. u = (IF y >= x THEN y - x ELSE y - x + c)
    BY <1>2, <1>3 DEF Dist
  <2>6. CASE e > 0
    <3>1. u + n = (IF 0 >= x THEN 0 - x ELSE 0 - x + c)
      BY <1>2, <1>3, <2>6 DEF Dist
    <3> QED BY <1>2, <1>3, <1>4, <1>6, <1>8, <2>2, <2>3, <2>4, <2>5, <2>6, <3>1
  <2>7. CASE ~(e > 0)
    BY <1>2, <1>3, <1>4, <1>6, <1>8, <2>2, <2>4, <2>5, <2>7
  <2> QED BY <2>6, <2>7
<1> QED BY <1>2, <1>6, <1>7, <1>8

\* push writes one chunk or two, and the types of both fit.
LEMMA PushWriteRoles ==
  ASSUME IInv, ParserInv, PushWrite, UNCHANGED <<roles, rest, parser>>
  PROVE  ParserInv'
<1>1. /\ ppc = "write" /\ ppc' = "release"
      /\ UNCHANGED <<size, pushing, readP, locSize, view, cpc, accepted, settled, wire,
                     roles, rest, read, prevWasTimestamp, midi, headless>>
  BY DEF PushWrite, consumer, hist, parser
<1>2. RInv /\ readP \in Words /\ accepted \in Nat /\ addSize = 0 /\ Written = 0
      /\ 2 <= size /\ size \in Nat
  BY <1>1, Numbers, CapacityOK DEF IInv, RInv, StepInv, Written, HeaderSize
<1>3. /\ Size1 \in Nat /\ Size2 \in Nat /\ Size1 + Size2 = pushing.length
      /\ writeP + Space(Size1) <= Capacity
      /\ Size2 > 0 => writeP + Space(Size1) = Capacity /\ Space(Size2) <= readP /\ readP < writeP
      /\ Dist(readP, writeP) = size
  BY <1>1, <1>2, WriteFits
<1>4. PICK w \in Words, k \in Nat, s \in Nat, e \in Nat :
        /\ w = writeP /\ k = accepted /\ s = Size1 /\ e = Size2
        /\ readP \in Nat
  BY <1>2, <1>3, NumbersOK DEF RInv
<1>5. PICK n \in Nat : n = Space(s) /\ n % 2 = 0 /\ s + 2 <= n
  BY SpaceOK
<1>6. PICK m \in Nat : m = Space(e) /\ e + 2 <= m
  BY SpaceOK
<1>7. \A q \in Words : Dist(readP, q) < size => Headers'[q] = Headers[q]
  BY <1>2, HeadersWritten
<1>8. readP # w /\ (e > 0 => readP # 0)
  BY <1>2, <1>3, <1>4, <1>6, DistOK, WordOK, CapacityOK
<1>9. Headers'[w] = [size |-> s, type |-> pushing.type] /\ (s > 0 => content'[w + 2] = k + 1)
  <2>1. header'[w] = [size |-> s, type |-> pushing.type]
    BY <1>2, <1>4, WriteMemory
  <2>2. Headers'[w] = header'[w]
    BY <1>1, <1>4, <1>8 DEF Headers
  <2>3. s > 0 => content'[w + 2 + 1 - 1] = k + 1
    BY <1>2, <1>4, WriteMemory DEF HeaderSize
  <2>4. w + 2 + 1 - 1 = w + 2
    BY WordOK
  <2> QED BY <1>4, <2>1, <2>2, <2>3, <2>4
<1>10. ASSUME e > 0
       PROVE  0 \in Words /\ Headers'[0] = [size |-> e, type |-> "Continuation"] /\ content'[2] = k + s + 1
  <2>1. header'[0] = [size |-> e, type |-> "Continuation"] /\ 0 \in Words
    BY <1>2, <1>4, <1>10, WriteMemory, WordOK, CapacityOK
  <2>2. Headers'[0] = header'[0]
    BY <1>1, <1>8, <1>10, <2>1 DEF Headers
  <2>3. content'[0 + 2 + 1 - 1] = k + s + 1
    BY <1>2, <1>4, <1>10, WriteMemory DEF HeaderSize
  <2> QED BY <2>1, <2>2, <2>3
<1>11. PushOK
  BY DEF ParserInv
<1>12. addSize' \in Nat /\ size < size + addSize'
  <2>1. addSize' = n + (IF e > 0 THEN m ELSE 0)
    BY <1>4, <1>5, <1>6 DEF PushWrite, Space
  <2> QED BY <1>2, <1>5, <1>6, <2>1
<1>13. ASSUME NEW p \in Words, InUse(p), Dist(readP, p) < size PROVE ChunkRoles(p)'
  <2>1. Headers'[p] = Headers[p]
    BY <1>7, <1>13
  <2>2. ASSUME Headers[p].size > 0 PROVE content'[p + 2] = content[p + 2]
    <3>1. PICK z \in Nat : z = Headers[p].size
      BY <1>13, <2>2, LiveBytes
    <3>2. p + 2 \in Offsets /\ Dist(readP, p + 2) = Dist(readP, p) + 2
          /\ Dist(readP, p) + Space(z) <= size
      BY <1>2, <1>13, <2>2, <3>1, LiveBytes
    <3>3. Dist(readP, p) \in Nat /\ Space(z) \in Nat /\ z + 2 <= Space(z)
      BY <1>2, <3>1, SpaceOK, DistOK, WordOK, CapacityOK
    <3>4. Dist(readP, p + 2) < size
      BY <1>2, <2>2, <3>1, <3>2, <3>3
    <3> QED BY <1>2, <3>2, <3>4, WriteMemory
  <2>3. ASSUME p = 0, Orphan PROVE Orphan'
    <3>1. Headers'[0].type = "Continuation" /\ readP' = readP /\ headless' = headless
      BY <1>1, <2>1, <2>3 DEF Orphan
    <3>2. CASE readP = 0 /\ headless
      BY <3>1, <3>2 DEF Orphan
    <3>3. CASE readP = Last /\ headless /\ Headers[Last].type = "None"
      <4>1. Headers'[Last] = Headers[Last]
        BY <1>2, <1>7, <3>3, DistOK, WordOK, CapacityOK
      <4> QED BY <3>1, <3>3, <4>1 DEF Orphan
    <3>4. CASE readP # 0 /\ InUse(Last) /\ Headers[Last] = [size |-> 0, type |-> "Packet"]
      <4>1. Last \in Words /\ Dist(readP, Last) < size /\ Headers[Last] # NoHeader
        BY <1>2, <3>4 DEF InUse, Live
      <4>2. Headers'[Last] = Headers[Last] /\ Dist(readP, Last) \in Nat
        BY <1>2, <1>7, <4>1, DistOK, WordOK, CapacityOK
      <4>3. InUse(Last)'
        <5>1. Dist(readP, Last) < size + addSize'
          BY <1>2, <1>5, <1>12, <4>1, <4>2
        <5> QED BY <1>1, <4>1, <4>2, <5>1 DEF InUse, Live
      <4> QED BY <3>1, <3>4, <4>2, <4>3 DEF Orphan
    <3> QED BY <2>3, <3>2, <3>3, <3>4 DEF Orphan
  <2> QED BY <1>1, <1>13, <2>1, <2>2, <2>3, ChunkRolesKept DEF ParserInv, ChunksOK
<1>14. ASSUME s > 0 PROVE PartOK(roles, k, s, pushing.type)
  <2>1. PartOK(roles, k, pushing.length, pushing.type)
    BY <1>1, <1>3, <1>4, <1>11, <1>14 DEF PushOK
  <2>2. \A i \in 2..s : i \in 2..pushing.length
    BY <1>3, <1>4
  <2> QED BY <2>1, <2>2 DEF PartOK
<1>15. ChunkRoles(w)'
  <2> SUFFICES ASSUME s > 0
               PROVE  PartOK(roles, k + 1 - 1, s, pushing.type)
    BY <1>1, <1>9 DEF ChunkRoles, HeaderSize
  <2>1. k + 1 - 1 = k
    OBVIOUS
  <2> QED BY <1>14, <2>1
<1>16. ASSUME e > 0 PROVE ChunkRoles(0)'
  <2> SUFFICES PartOK(roles, k + s, e, "Continuation") \/ Orphan'
    <3>1. k + s + 1 - 1 = k + s
      OBVIOUS
    <3> QED BY <1>1, <1>10, <1>16, <3>1 DEF ChunkRoles, HeaderSize
  <2>1. pushing.type \in {"Packet", "Continuation"} /\ pushing.length = s + e
        /\ PartOK(roles, k, s + e, pushing.type)
    <3>1. pushing.type \in Types
      BY <1>2 DEF RInv, RingTypeOK, Chunk
    <3> QED BY <1>1, <1>3, <1>4, <1>11, <1>16, <3>1 DEF PushOK, Types
  <2>2. \A i \in 2..(s + e) : roles[k + i] # "header"
    BY <2>1 DEF PartOK
  <2>3. CASE s > 0
    <3>1. s >= 2
      <4>1. s = Contig
        BY <1>4, <1>16 DEF Size1, Size2
      <4>2. s = Capacity - w - 2
        BY <1>4, <4>1 DEF Contig, HeaderSize
      <4> QED BY <2>3, <4>2, WordOK, CapacityOK
    <3>2. roles[k + s] # "header" /\ roles[k + s + 1] # "header"
      <4>1. s \in 2..(s + e) /\ s + 1 \in 2..(s + e) /\ k + (s + 1) = k + s + 1
        BY <1>16, <3>1
      <4> QED BY <2>2, <4>1
    <3>3. ASSUME NEW i \in 2..e PROVE roles[k + s + i] # "header"
      <4>1. s + i \in 2..(s + e) /\ k + (s + i) = k + s + i
        OBVIOUS
      <4> QED BY <2>2, <4>1
    <3> QED BY <2>3, <3>2, <3>3 DEF PartOK
  <2>4. CASE s = 0 /\ pushing.type = "Continuation"
    BY <2>1, <2>4
  <2>5. CASE s = 0 /\ pushing.type = "Packet"
    <3>1. w = Last
      <4>1. n = 2
        BY <1>5, <2>5 DEF Space, CeilH, HeaderSize
      <4> QED BY <1>3, <1>4, <1>5, <1>16, <4>1, WordOK, CapacityOK DEF Last, HeaderSize
    <3>2. Headers'[Last] = [size |-> 0, type |-> "Packet"]
      BY <1>9, <2>5, <3>1
    <3>3. InUse(Last)'
      <4>1. Dist(readP, Last) < size + addSize'
        <5>1. Dist(readP, Last) = size
          BY <1>3, <1>4, <3>1
        <5> QED BY <1>12, <5>1
      <4>2. Headers'[Last] # NoHeader
        BY <3>2 DEF NoHeader
      <4> QED BY <1>1, <3>1, <4>1, <4>2 DEF InUse, Live
    <3> QED BY <1>1, <1>8, <1>10, <1>16, <3>2, <3>3 DEF Orphan
  <2> QED BY <2>1, <2>3, <2>4, <2>5
<1>17. ChunksOK'
  <2> SUFFICES ASSUME NEW p \in Words, InUse(p)' PROVE ChunkRoles(p)'
    BY DEF ChunksOK
  <2>1. CASE InUse(p) /\ Dist(readP, p) < size
    BY <1>13, <2>1
  <2>2. CASE p = writeP
    BY <1>4, <1>15, <2>2
  <2>3. CASE Size2 > 0 /\ p = 0
    BY <1>4, <1>16, <2>3
  <2> QED BY <1>2, <2>1, <2>2, <2>3, WrittenChunks
<1>18. RolesOK' /\ RestOK' /\ PushOK'
  BY <1>1 DEF ParserInv, RolesOK, RestOK, PushOK
<1>19. Headers'[readP] = Headers[readP]
  BY <1>2, <1>7, DistOK, WordOK, CapacityOK
<1>20. HeadOK' /\ PrevOK' /\ ViewOK' /\ YieldsItsMidiUnlessHeadless'
  <2>1. cpc = "take" => Viewed' = Viewed
    BY <1>1, <1>2, PushWriteStep, ViewStays
  <2> QED BY <1>1, <1>19, <2>1, ParserKept DEF ParserInv
<1> QED BY <1>17, <1>18, <1>20 DEF ParserInv

\* A step that neither moves the chunks nor shows one to the parser.
LEMMA RolesKept ==
  ASSUME IInv, ParserInv, Headers' = Headers, size' + addSize' = size + addSize,
         UNCHANGED <<content, readP, settled, view, roles, rest, parser>>,
         \/ cpc' = cpc /\ Viewed' = Viewed
         \/ cpc \notin {"view", "take"} /\ cpc' \notin {"view", "take"},
         ppc' = "write" => UNCHANGED <<ppc, pushing, accepted>>
  PROVE  ParserInv'
<1>1. UNCHANGED <<read, prevWasTimestamp, midi, headless>>
  BY DEF parser
<1>2. RolesOK' /\ RestOK' /\ PushOK'
  BY DEF ParserInv, RolesOK, RestOK, PushOK
<1>3. ChunksOK'
  BY <1>1 DEF ParserInv, ChunksOK, ChunkRoles, InUse, Orphan
<1>4. HeadOK' /\ PrevOK' /\ ViewOK' /\ YieldsItsMidiUnlessHeadless'
  BY <1>1 DEF ParserInv, HeadOK, PrevOK, Past, ViewOK, YieldsItsMidiUnlessHeadless, YieldsItsMidi, Midi
<1> QED BY <1>2, <1>3, <1>4 DEF ParserInv

\* These steps do neither.
LEMMA QuietRoles ==
  ASSUME IInv, ParserInv, PushRelease \/ PopLoad \/ PopEmpty \/ (PopLast /\ Old.type = "None"),
         UNCHANGED <<roles, rest, parser>>
  PROVE  ParserInv'
<1>1. CASE PushRelease
  <2>1. /\ ppc' = "idle" /\ size' = size + addSize /\ addSize' = 0
        /\ UNCHANGED <<header, content, readP, settled, view, cpc>>
    BY <1>1 DEF PushRelease, memory, consumer
  <2>2. size' + addSize' = size + addSize /\ Headers' = Headers /\ Viewed' = Viewed
    BY <2>1, NumbersOK DEF IInv, RInv, Headers, Viewed
  <2> QED BY <2>1, <2>2, RolesKept
<1>2. CASE PopLoad
  <2>1. /\ cpc = "pop" /\ cpc' = "free"
        /\ UNCHANGED <<header, content, size, addSize, ppc, pushing, accepted, readP, settled, view>>
    BY <1>2 DEF PopLoad, memory, producer, hist
  <2> QED BY <2>1, RolesKept DEF Headers
<1>3. CASE PopEmpty
  <2>1. /\ cpc = "empty" /\ cpc' = "pop" /\ Headers' = Headers
        /\ UNCHANGED <<content, size, addSize, ppc, pushing, accepted, readP, settled, view>>
    BY <1>3 DEF PopEmpty, memory, producer, hist, Headers, Empty
  <2> QED BY <2>1, RolesKept
<1>4. CASE PopLast /\ Old.type = "None"
  <2>1. /\ cpc = "free" /\ cpc' = "pop"
        /\ UNCHANGED <<header, content, size, addSize, ppc, pushing, accepted, readP, settled, view>>
    BY <1>4 DEF PopLast, memory, producer, hist
  <2> QED BY <2>1, RolesKept DEF Headers
<1> QED BY <1>1, <1>2, <1>3, <1>4

\* What pop leaves of a chunk behind the one it frees: all of it.
LEMMA NotForgotten ==
  ASSUME IInv, cpc = "free", NEW n \in Nat, n = Space(header[readP].size), Forget(readP, n),
         NEW p \in Words, InUse(p), n <= Dist(readP, p)
  PROVE  /\ header'[p] = header[p]
         /\ header[p].size > 0 => content'[p + 2] = content[p + 2]
<1>1. PICK u \in 1..Capacity : u = size + addSize
  BY Numbers
<1>2. Headers = header /\ RingTypeOK /\ readP \in Words
  BY NumbersOK DEF Headers, IInv, RInv
<1>3. readP + n <= Capacity
  BY <1>2, FirstChunk DEF IInv
<1>4. Agree(header, content, 0, header', content', 0, readP, n, u)
  BY <1>2, <1>3, ForgetAgrees
<1>5. header'[p] = header[p]
  BY <1>1, <1>4 DEF Agree, InUse, Live
<1>6. ASSUME header[p].size > 0 PROVE content'[p + 2] = content[p + 2]
  <2>1. PICK z \in Nat : z = header[p].size
    BY <1>2, <1>6, LiveBytes
  <2>2. p + 2 \in Offsets /\ Dist(readP, p + 2) = Dist(readP, p) + 2
        /\ Dist(readP, p) + Space(z) <= u
    BY <1>1, <1>2, <1>6, <2>1, LiveBytes
  <2>3. Dist(readP, p) \in Nat /\ Space(z) \in Nat /\ z + 2 <= Space(z)
    BY <1>2, <2>1, SpaceOK, DistOK, WordOK, CapacityOK
  <2>4. n <= Dist(readP, p + 2) /\ Dist(readP, p + 2) < u
    BY <1>1, <1>6, <2>1, <2>2, <2>3
  <2> QED BY <1>4, <2>2, <2>4 DEF Agree
<1> QED BY <1>5, <1>6

\* There can be a header at the last offset, and that is not the first one.
LEMMA LastOK == Last \in Words /\ Last \in Nat /\ Last # 0 /\ Last + 2 = Capacity
<1>1. Last = Capacity - 2
  BY DEF Last, HeaderSize
<1> QED BY <1>1, CapacityOK, WordOK

\* An empty chunk at the end of the memory is behind the first one, or it is the first.
LEMMA LastBehind ==
  ASSUME RInv, cpc = "free", InUse(Last), readP # Last,
         NEW n \in Nat, n = Space(header[readP].size)
  PROVE  readP + n <= Last /\ Dist(readP, Last) = Last - readP /\ Last \in Words
<1>1. PICK b \in [Words -> Nat] : ChainWith(b)
  BY DEF RInv, ChainInv
<1>2. /\ Headers = header /\ readP \in Words /\ Dist(readP, readP) = 0 /\ 0 < size
      /\ Last \in Words /\ header[Last] # NoHeader
  <2>1. Headers = header /\ readP \in Words
    BY NumbersOK DEF RInv, Headers
  <2>2. Dist(readP, readP) = 0
    BY <2>1, DistOK, WordOK, CapacityOK
  <2>3. 0 < size
    BY NumbersOK DEF RInv, StepInv, HeaderSize
  <2> QED BY <2>1, <2>2, <2>3 DEF InUse, Live
<1>3. ChunkOK(header, readP, size, readP)
  BY <1>1, <1>2 DEF ChainWith, Chain, Live
<1>4. readP \in Nat /\ readP < Last
  BY <1>2, WordOK, CapacityOK DEF Last, HeaderSize
<1>5. ~(Last < readP + n)
  BY <1>2, <1>3, <1>4 DEF ChunkOK
<1> QED BY <1>2, <1>4, <1>5, WordOK, CapacityOK DEF Dist

\* Where pop goes when there is another chunk.
LEMMA PopNextMoves ==
  ASSUME RInv, PopNext, NEW n \in Nat, n = Space(header[readP].size)
  PROVE  /\ readP' = Wrap(readP + n) /\ size' = size - n /\ Forget(readP, n)
         /\ 2 <= n /\ n < size /\ readP + n <= Capacity
         /\ readP' \in Words /\ Dist(readP, readP') = n
<1>1. PICK z \in Nat : z = header[readP].size
  BY NumbersOK, HeadersOK DEF RInv
<1>2. n = 2 + CeilH(z) /\ CeilH(z) \in Nat /\ n % 2 = 0 /\ 2 <= n
  <2>1. n = 2 + CeilH(z)
    BY <1>1 DEF Space, HeaderSize
  <2>2. CeilH(z) \in Nat
    BY CeilOK
  <2>3. n % 2 = 0
    BY <1>1, SpaceOK
  <2> QED BY <2>1, <2>2, <2>3
<1>3. readP \in Words /\ readP \in Nat /\ size \in Nat /\ size <= Capacity
  BY NumbersOK, CapacityOK DEF RInv, RingTypeOK
<1>4. readP' = Wrap(readP + n) /\ size' = size - n /\ Forget(readP, n)
  <2>1. /\ readP' = Wrap(readP + 2 + CeilH(z)) /\ size' = size - (1 * 2 + CeilH(z))
        /\ Forget(readP, 2 + CeilH(z))
    BY <1>1 DEF PopNext, FreeOld, Old, HeaderSize
  <2>2. readP + 2 + CeilH(z) = readP + n /\ 1 * 2 + CeilH(z) = n
    BY <1>2, <1>3
  <2> QED BY <1>2, <2>1, <2>2
<1>5. n < size
  <2>1. size' >= 2
    BY PopNextStep DEF RInv, StepInv, HeaderSize
  <2> QED BY <1>3, <1>4, <2>1
<1>6. readP + n <= Capacity
  <2>1. Headers = header
    BY DEF Headers, PopNext, FreeOld
  <2> QED BY <2>1, FirstChunk
<1>7. readP' \in Words /\ Dist(readP, readP') = n
  <2>1. Dist(readP, readP) = 0
    BY <1>3, DistOK, WordOK, CapacityOK
  <2>2. Dist(readP, readP) + n < Capacity
    BY <1>3, <1>5, <2>1, CapacityOK
  <2>3. Wrap(readP + n) \in Words /\ Dist(readP, Wrap(readP + n)) = Dist(readP, readP) + n
    BY <1>2, <1>3, <1>6, <2>2, NextDist
  <2> QED BY <1>4, <2>1, <2>3
<1> QED BY <1>2, <1>4, <1>5, <1>6, <1>7

\* pop goes on to the next chunk: where that continues an empty one, the parser knows.
LEMMA PopNextRoles ==
  ASSUME IInv, ParserInv, PopNext, UNCHANGED <<roles, rest, parser>>
  PROVE  ParserInv'
<1>1. /\ cpc = "free" /\ cpc' = "view" /\ Headers = header /\ Headers' = header'
      /\ UNCHANGED <<addSize, ppc, pushing, accepted, settled, view, roles, rest, read,
                     prevWasTimestamp, midi, headless>>
  BY DEF PopNext, FreeOld, producer, hist, parser, Headers
<1>2. PICK n \in Nat : n = Space(header[readP].size)
  <2>1. header[readP].size \in Nat
    BY NumbersOK, HeadersOK DEF IInv, RInv
  <2> QED BY <2>1, SpaceOK
<1>3. /\ readP' = Wrap(readP + n) /\ size' = size - n /\ Forget(readP, n)
      /\ 2 <= n /\ n < size /\ readP + n <= Capacity
      /\ readP' \in Words /\ Dist(readP, readP') = n
  BY <1>2, PopNextMoves DEF IInv
<1>4. PICK u \in 1..Capacity : u = size + addSize /\ n < u /\ size' + addSize' = u - n
  <2>1. size + addSize \in 1..Capacity /\ size \in 1..Capacity /\ addSize \in Nat
    BY Numbers
  <2>2. n < size + addSize /\ size - n + addSize = size + addSize - n
    BY <1>3, <2>1, CapacityOK
  <2> QED BY <1>1, <1>3, <2>1, <2>2
<1>5. readP \in Words /\ readP \in Nat /\ Last \in Words /\ Last \in Nat /\ Last # 0
      /\ Dist(readP, readP) = 0
  <2>1. readP \in Words
    BY Numbers
  <2> QED BY <2>1, LastOK, DistOK, WordOK, CapacityOK
<1>6. ASSUME NEW p \in Words, InUse(p)'
      PROVE  /\ Dist(readP', p) \in Nat /\ Dist(readP, p) = Dist(readP', p) + n
             /\ Dist(readP, p) < u
  <2>1. PICK r \in Words : r = readP'
    BY <1>3
  <2>2. Dist(r, p) \in Nat /\ Dist(r, p) < u - n
    BY <1>4, <1>6, <2>1, DistOK, WordOK, CapacityOK DEF InUse, Live
  <2>3. Dist(readP, p) = Dist(r, p) + n
    BY <1>3, <1>4, <1>5, <2>1, <2>2, SuffixDist
  <2> QED BY <1>4, <2>1, <2>2, <2>3
<1>7. ASSUME NEW p \in Words, InUse(p)' PROVE InUse(p) /\ n <= Dist(readP, p)
  <2>1. Dist(readP, p) \in Nat /\ n <= Dist(readP, p) /\ Dist(readP, p) < u
    BY <1>6, <1>7
  <2>2. header'[p] = header[p]
    <3>1. Agree(header, content, 0, header', content', 0, readP, n, u)
      BY <1>3, <1>4, ForgetAgrees DEF IInv, RInv
    <3> QED BY <2>1, <3>1 DEF Agree
  <2> QED BY <1>1, <1>4, <1>7, <2>1, <2>2 DEF InUse, Live
<1>8. ASSUME InUse(0)', Orphan, 0 \in Words PROVE Orphan'
  <2>1. InUse(0) /\ n <= Dist(readP, 0) /\ readP # 0
    BY <1>3, <1>5, <1>7, <1>8
  <2>2. header'[0] = header[0]
    BY <1>1, <1>2, <1>3, <1>8, <2>1, NotForgotten
  <2>3. header'[0].type = "Continuation"
    BY <1>1, <1>8, <2>2 DEF Orphan
  <2>4. CASE readP = Last
    <3>1. headless
      <4>1. CASE headless /\ Headers[Last].type = "None"
        BY <4>1
      <4>2. CASE Headers[Last] = [size |-> 0, type |-> "Packet"]
        BY <1>1, <2>4, <4>2 DEF ParserInv, HeadOK
      <4> QED BY <1>8, <2>1, <4>1, <4>2 DEF Orphan
    <3>2. readP' = 0
      <4>1. n = 2
        BY <1>3, <1>5, <2>4, CapacityOK DEF Last, HeaderSize
      <4> QED BY <1>3, <2>4, <4>1, CapacityOK DEF Wrap, Last, HeaderSize
    <3> QED BY <1>1, <2>3, <3>1, <3>2 DEF Orphan
  <2>5. CASE readP # Last
    <3>1. InUse(Last) /\ header[Last] = [size |-> 0, type |-> "Packet"]
      BY <1>1, <1>8, <2>1, <2>5 DEF Orphan
    <3>2. readP + n <= Last /\ Dist(readP, Last) = Last - readP
      BY <1>1, <1>2, <2>5, <3>1, LastBehind DEF IInv
    <3>3. readP' = readP + n
      BY <1>3, <1>5, <3>2, CapacityOK DEF Wrap, Last, HeaderSize
    <3>4. n <= Dist(readP, Last) /\ Dist(readP', Last) = Dist(readP, Last) - n
      BY <1>3, <1>5, <3>2, <3>3 DEF Dist
    <3>5. header'[Last] = header[Last]
      BY <1>1, <1>2, <1>3, <1>5, <3>1, <3>4, NotForgotten
    <3>6. InUse(Last)'
      <4>1. Dist(readP, Last) < u
        BY <1>4, <3>1 DEF InUse, Live
      <4>2. Dist(readP', Last) < u - n
        BY <1>4, <1>5, <3>2, <3>4, <4>1
      <4> QED BY <1>1, <1>4, <1>5, <3>1, <3>5, <4>2 DEF InUse, Live
    <3>7. readP' # 0
      BY <1>3, <1>5, <3>3
    <3> QED BY <1>1, <2>3, <3>1, <3>5, <3>6, <3>7 DEF Orphan
  <2> QED BY <2>4, <2>5
<1>9. ChunksOK'
  <2> SUFFICES ASSUME NEW p \in Words, InUse(p)' PROVE ChunkRoles(p)'
    BY DEF ChunksOK
  <2>1. InUse(p) /\ n <= Dist(readP, p)
    BY <1>7
  <2>2. header'[p] = header[p] /\ (header[p].size > 0 => content'[p + 2] = content[p + 2])
    BY <1>1, <1>2, <1>3, <2>1, NotForgotten
  <2>3. p = 0 /\ Orphan => Orphan'
    BY <1>8
  <2> QED BY <1>1, <2>1, <2>2, <2>3, ChunkRolesKept DEF ParserInv, ChunksOK
<1>10. RolesOK' /\ RestOK' /\ PushOK'
  BY <1>1 DEF ParserInv, RolesOK, RestOK, PushOK
<1>11. HeadOK' /\ PrevOK' /\ ViewOK' /\ YieldsItsMidiUnlessHeadless'
  BY <1>1 DEF ParserInv, HeadOK, PrevOK, Past, ViewOK, YieldsItsMidiUnlessHeadless, YieldsItsMidi
<1> QED BY <1>9, <1>10, <1>11 DEF ParserInv

\* Where pop goes when there is none: the header it keeps takes the last two bytes of
\* the chunk.
LEMMA PopLastMoves ==
  ASSUME RInv, PopLast, Old.type # "None", NEW n \in Nat, n = Space(header[readP].size)
  PROVE  /\ readP' = readP + (n - 2) /\ size' = size - (n - 2) /\ Forget(readP, n)
         /\ 2 <= n /\ n <= size /\ readP + n <= Capacity
         /\ readP' \in Words /\ Dist(readP, readP') = n - 2
         /\ Headers' = [header' EXCEPT ![readP'] = Empty]
<1>1. PICK z \in Nat : z = header[readP].size
  BY NumbersOK, HeadersOK DEF RInv
<1>2. n = 2 + CeilH(z) /\ CeilH(z) \in Nat
  <2>1. n = 2 + CeilH(z)
    BY <1>1 DEF Space, HeaderSize
  <2> QED BY <2>1, CeilOK
<1>3. readP \in Words /\ readP \in Nat /\ size \in Nat
  BY NumbersOK DEF RInv
<1>4. /\ readP' = readP + (n - 2) /\ size' = size - (n - 2) /\ Forget(readP, n)
      /\ cpc = "free" /\ cpc' = "empty"
  <2>1. /\ readP' = readP + CeilH(z) /\ size' = size - CeilH(z) /\ Forget(readP, 2 + CeilH(z))
        /\ cpc = "free" /\ cpc' = "empty"
    BY <1>1 DEF PopLast, Old, HeaderSize
  <2> QED BY <1>2, <2>1
<1>5. n <= size /\ readP + n <= Capacity
  <2>1. Headers = header
    BY <1>4 DEF Headers
  <2> QED BY <2>1, FirstChunk
<1>6. readP' \in Words
  BY PopLastStep DEF RInv, RingTypeOK
<1>7. Dist(readP, readP') = n - 2
  BY <1>2, <1>3, <1>4 DEF Dist
<1>8. Headers' = [header' EXCEPT ![readP'] = Empty]
  BY <1>4 DEF Headers
<1> QED BY <1>2, <1>4, <1>5, <1>6, <1>7, <1>8

\* pop leaves an empty header behind the last chunk.
LEMMA PopLastRoles ==
  ASSUME IInv, ParserInv, PopLast, Old.type # "None", UNCHANGED <<roles, rest, parser>>
  PROVE  ParserInv'
<1>1. /\ cpc = "free" /\ cpc' = "empty" /\ Headers = header
      /\ UNCHANGED <<addSize, ppc, pushing, accepted, settled, view, roles, rest, read,
                     prevWasTimestamp, midi, headless>>
  BY DEF PopLast, producer, hist, parser, Headers
<1>2. PICK n \in Nat : n = Space(header[readP].size)
  <2>1. header[readP].size \in Nat
    BY NumbersOK, HeadersOK DEF IInv, RInv
  <2> QED BY <2>1, SpaceOK
<1>3. /\ readP' = readP + (n - 2) /\ size' = size - (n - 2) /\ Forget(readP, n)
      /\ 2 <= n /\ n <= size /\ readP + n <= Capacity
      /\ readP' \in Words /\ Dist(readP, readP') = n - 2
      /\ Headers' = [header' EXCEPT ![readP'] = Empty]
  BY <1>2, PopLastMoves DEF IInv
<1>4. PICK u \in 1..Capacity : u = size + addSize /\ n <= u /\ size' + addSize' = u - (n - 2)
  <2>1. size + addSize \in 1..Capacity /\ size \in 1..Capacity /\ addSize \in Nat
    BY Numbers
  <2>2. n <= size + addSize /\ size - (n - 2) + addSize = size + addSize - (n - 2)
    BY <1>3, <2>1, CapacityOK
  <2> QED BY <1>1, <1>3, <2>1, <2>2
<1>5. readP \in Words /\ readP \in Nat /\ Dist(readP, readP) = 0
  <2>1. readP \in Words
    BY Numbers
  <2> QED BY <2>1, DistOK, WordOK, CapacityOK
<1>6. /\ header \in [Words -> Header \cup {NoHeader}] /\ header' \in [Words -> Header \cup {NoHeader}]
      /\ Headers'[readP'] = Empty
      /\ \A q \in Words : q # readP' => Headers'[q] = header'[q]
  <2>1. header \in [Words -> Header \cup {NoHeader}] /\ header' \in [Words -> Header \cup {NoHeader}]
    BY PopLastStep DEF IInv, RInv, RingTypeOK
  <2> QED BY <1>3, <2>1
<1>7. ASSUME NEW p \in Words, InUse(p)', p # readP'
      PROVE  InUse(p) /\ n <= Dist(readP, p) /\ Headers'[p] = header'[p]
  <2>1. PICK r \in Words : r = readP'
    BY <1>3
  <2>2. Dist(r, p) \in Nat /\ Dist(r, p) < u - (n - 2) /\ Headers'[p] # NoHeader
    BY <1>4, <1>7, <2>1, DistOK, WordOK, CapacityOK DEF InUse, Live
  <2>3. Dist(readP, p) = Dist(r, p) + (n - 2)
    <3>1. PICK m \in Nat : m = n - 2 /\ m < u
      BY <1>3, <1>4
    <3> QED BY <1>3, <1>4, <1>5, <2>1, <2>2, <3>1, SuffixDist
  <2>4. Dist(r, p) >= 2
    <3>1. Dist(r, p) # 0
      BY <1>7, <2>1, SameDist, DistOK, WordOK, CapacityOK
    <3>2. Dist(r, p) % 2 = 0
      BY <2>1, DistEven
    <3> QED BY <2>2, <3>1, <3>2
  <2>5. n <= Dist(readP, p) /\ Dist(readP, p) < u
    BY <1>3, <1>4, <2>2, <2>3, <2>4
  <2>6. header'[p] = header[p]
    <3>1. Agree(header, content, 0, header', content', 0, readP, n, u)
      BY <1>3, <1>4, ForgetAgrees DEF IInv, RInv
    <3> QED BY <2>5, <3>1 DEF Agree
  <2>7. Headers'[p] = header'[p]
    BY <1>6, <1>7
  <2> QED BY <1>1, <1>4, <1>7, <2>2, <2>5, <2>6, <2>7 DEF InUse, Live
<1>8. ASSUME InUse(0)', Orphan, 0 \in Words, 0 # readP' PROVE Orphan'
  <2>1. InUse(0) /\ n <= Dist(readP, 0) /\ readP # 0 /\ Headers'[0] = header'[0]
    BY <1>3, <1>5, <1>7, <1>8
  <2>2. header'[0] = header[0]
    BY <1>1, <1>2, <1>3, <1>8, <2>1, NotForgotten
  <2>3. Headers'[0].type = "Continuation"
    BY <1>1, <1>8, <2>1, <2>2 DEF Orphan
  <2>4. InUse(Last) /\ header[Last] = [size |-> 0, type |-> "Packet"]
    BY <1>1, <1>8, <2>1 DEF Orphan, Old
  <2>5. CASE readP = Last
    <3>1. headless
      BY <1>1, <2>4, <2>5 DEF ParserInv, HeadOK
    <3>2. readP' = Last
      <4>1. n = 2
        BY <1>3, <2>5, LastOK, CapacityOK
      <4> QED BY <1>3, <2>5, <4>1, LastOK
    <3> QED BY <1>1, <1>6, <2>3, <3>1, <3>2 DEF Orphan, Empty
  <2>6. CASE readP # Last
    <3>1. readP + n <= Last /\ Dist(readP, Last) = Last - readP
      BY <1>1, <1>2, <2>4, <2>6, LastBehind DEF IInv
    <3>2. readP' # 0 /\ readP' < Last
      BY <1>3, <1>5, <2>1, <3>1, LastOK
    <3>3. n <= Dist(readP, Last) /\ Dist(readP', Last) = Dist(readP, Last) - (n - 2)
      BY <1>3, <1>5, <3>1, <3>2, LastOK DEF Dist
    <3>4. header'[Last] = header[Last] /\ Headers'[Last] = header'[Last]
      BY <1>1, <1>2, <1>3, <1>6, <2>4, <3>2, <3>3, LastOK, NotForgotten
    <3>5. InUse(Last)'
      <4>1. Dist(readP, Last) < u
        BY <1>4, <2>4 DEF InUse, Live
      <4>2. Dist(readP', Last) < u - (n - 2)
        BY <1>4, <1>5, <3>1, <3>3, <4>1, LastOK
      <4> QED BY <1>1, <1>4, <2>4, <3>4, <4>2, LastOK DEF InUse, Live
    <3> QED BY <1>1, <2>3, <2>4, <3>2, <3>4, <3>5 DEF Orphan
  <2> QED BY <2>5, <2>6
<1>9. ChunksOK'
  <2> SUFFICES ASSUME NEW p \in Words, InUse(p)' PROVE ChunkRoles(p)'
    BY DEF ChunksOK
  <2>1. CASE p = readP'
    BY <1>6, <2>1 DEF ChunkRoles, Empty
  <2>2. CASE p # readP'
    <3>1. InUse(p) /\ n <= Dist(readP, p) /\ Headers'[p] = header'[p]
      BY <1>7, <2>2
    <3>2. header'[p] = header[p] /\ (header[p].size > 0 => content'[p + 2] = content[p + 2])
      BY <1>1, <1>2, <1>3, <3>1, NotForgotten
    <3>3. p = 0 /\ Orphan => Orphan'
      BY <1>8, <2>2
    <3> QED BY <1>1, <3>1, <3>2, <3>3, ChunkRolesKept DEF ParserInv, ChunksOK
  <2> QED BY <2>1, <2>2
<1>10. RolesOK' /\ RestOK' /\ PushOK'
  BY <1>1 DEF ParserInv, RolesOK, RestOK, PushOK
<1>11. HeadOK' /\ PrevOK' /\ ViewOK' /\ YieldsItsMidiUnlessHeadless'
  BY <1>1, <1>6 DEF ParserInv, HeadOK, PrevOK, Past, ViewOK, YieldsItsMidiUnlessHeadless,
                    YieldsItsMidi, Empty
<1> QED BY <1>9, <1>10, <1>11 DEF ParserInv

\* The chunk that pop returns begins a packet or continues one, as its type says, but for
\* one whose packet the parser knows to be headless.
LEMMA FirstPart ==
  ASSUME IInv, ParserInv, cpc \in {"view", "take"}, header[readP].size > 0
  PROVE  /\ settled + header[readP].size <= Len(roles)
         /\ header[readP].size \in Nat
         /\ \/ PartOK(roles, settled, header[readP].size, header[readP].type)
            \/ headless /\ header[readP].type = "Continuation"
<1>1. Headers = header /\ readP \in Words
  BY Numbers DEF Headers
<1>2. InUse(readP)
  <2>1. Dist(readP, readP) = 0
    BY <1>1, DistOK, WordOK, CapacityOK
  <2>2. Headers[readP] # NoHeader
    BY FirstChunk DEF IInv
  <2> QED BY <1>1, <2>1, <2>2, Numbers, CapacityOK DEF InUse, Live
<1>3. content[readP + 2] = settled + 1 /\ header[readP].size \in Nat
      /\ content[readP + 2] - 1 + header[readP].size <= accepted + Written
  BY <1>1, <1>2, LiveBytes
<1>4. settled + 1 - 1 = settled
  BY Numbers
<1>5. settled + header[readP].size <= Len(roles)
  <2>1. PICK t \in Nat, l \in Nat : t = accepted + Written /\ l = Len(roles) /\ t <= l
    <3>1. accepted + Written \in Nat /\ Len(roles) \in Nat /\ accepted + Written <= Len(roles)
      BY Numbers
    <3> QED BY <3>1
  <2>2. PICK a \in Nat, z \in Nat : a = settled /\ z = header[readP].size
    <3>1. settled \in Nat
      BY Numbers
    <3> QED BY <1>3, <3>1
  <2>3. (a + 1) - 1 + z <= t
    BY <1>3, <2>1, <2>2
  <2> QED BY <2>1, <2>2, <2>3
<1>6. ChunkRoles(readP)
  BY <1>1, <1>2 DEF ParserInv, ChunksOK
<1>7. PartOK(roles, settled, header[readP].size, header[readP].type) \/ (readP = 0 /\ Orphan)
  <2>1. content[readP + HeaderSize] - 1 = settled
    <3>1. settled \in Nat
      BY Numbers
    <3> QED BY <1>3, <3>1 DEF HeaderSize
  <2>2. Headers[readP] = header[readP]
    BY <1>1
  <2> QED BY <1>6, <2>1, <2>2 DEF ChunkRoles
<1>8. ASSUME readP = 0, Orphan PROVE headless /\ header[readP].type = "Continuation"
  BY <1>1, <1>8, LastOK DEF Orphan
<1> QED BY <1>3, <1>5, <1>7, <1>8

\* The constructor of the parser skips header and timestamp.
LEMMA NextChunkRoles ==
  ASSUME IInv, ParserInv, NextChunk
  PROVE  ParserInv'
<1>1. /\ cpc = "view" /\ cpc' = "take" /\ Headers = header /\ Headers' = header
      /\ UNCHANGED <<header, content, readP, size, addSize, ppc, pushing, accepted, settled,
                     roles, rest>>
      /\ view'.type = header[readP].type /\ midi' = {}
  BY DEF NextChunk, PopView, memory, producer, hist, Headers, Old
<1>2. PICK z \in Nat, a \in Nat :
        /\ z = view'.length /\ z = header[readP].size /\ a = settled
        /\ Viewed' = [i \in 1..z |-> a + i]
  BY NextView, Numbers DEF NextChunk, IInv
<1>3. PICK v : v = Viewed' /\ Len(v) = z /\ \A i \in 1..z : v[i] = a + i
  BY <1>2
<1>4. z > 0 => /\ a + z <= Len(roles)
               /\ \/ PartOK(roles, a, z, view'.type)
                  \/ headless /\ view'.type = "Continuation"
  BY <1>1, <1>2, FirstPart
<1>5. RolesOK' /\ RestOK' /\ PushOK'
  BY <1>1 DEF ParserInv, RolesOK, RestOK, PushOK
<1>6. CASE view'.type # "Packet"
  <2>1. read' = 0 /\ UNCHANGED <<prevWasTimestamp, headless>>
    BY <1>6 DEF NextChunk, Extend
  <2>2. ChunksOK'
    BY <1>1, <2>1 DEF ParserInv, ChunksOK, ChunkRoles, InUse, Orphan
  <2>3. read = 0
    BY <1>1 DEF ParserInv, ViewOK
  <2>4. HeadOK' /\ PrevOK' /\ ViewOK'
    BY <1>1, <1>6, <2>1, <2>3 DEF ParserInv, HeadOK, PrevOK, Past, ViewOK
  <2>5. YieldsItsMidiUnlessHeadless'
    <3>1. Midi' = {}
      BY <2>1 DEF Midi
    <3> QED BY <1>1, <3>1 DEF YieldsItsMidiUnlessHeadless, YieldsItsMidi
  <2> QED BY <1>5, <2>2, <2>4, <2>5 DEF ParserInv
<1>7. CASE view'.type = "Packet"
  <2>1. read' = Skipped(v) /\ prevWasTimestamp' = TRUE /\ headless' = (z = 0)
    BY <1>2, <1>3, <1>7 DEF NextChunk, Construct
  <2>2. ASSUME z > 0
        PROVE  /\ roles'[a + 1] = "header" /\ a + z <= Len(roles)
               /\ \A i \in 2..z : roles'[a + i] # "header"
    BY <1>1, <1>4, <1>7, <2>2 DEF PartOK
  <2>3. Orphan => Orphan'
    <3>1. (readP = 0 \/ readP = Last) => Headers[readP].type = "Packet"
      BY <1>1, <1>7
    <3>2. InUse(Last) => InUse(Last)'
      BY <1>1 DEF InUse
    <3> QED BY <1>1, <3>1, <3>2 DEF Orphan
  <2>4. ChunksOK'
    <3> SUFFICES ASSUME NEW p \in Words, InUse(p)' PROVE ChunkRoles(p)'
      BY DEF ChunksOK
    <3>1. InUse(p)
      BY <1>1 DEF InUse
    <3> QED BY <1>1, <2>3, <3>1, ChunkRolesKept DEF ParserInv, ChunksOK
  <2>5. HeadOK'
    BY <1>1, <1>2, <2>1 DEF HeadOK
  <2>6. z > 0 => read' >= 1
    BY <1>2, <1>3, <2>1 DEF Skipped
  <2>7. z > 0 /\ read' = 1 => z = 1 \/ roles'[a + 2] = "data"
    <3>1. SUFFICES ASSUME z >= 2, read' = 1 PROVE roles'[a + 2] = "data"
      BY <1>2
    <3>2. v[1] = a + 1 /\ v[2] = a + 2
      BY <1>3, <3>1
    <3>3. ~IsData(a + 1)
      BY <1>1, <2>2, <3>1 DEF IsData
    <3>4. IsData(a + 2)
      BY <1>2, <1>3, <2>1, <3>1, <3>2, <3>3 DEF Skipped
    <3> QED BY <1>1, <3>4 DEF IsData
  <2>8. \/ read' = 0 /\ z = 0
        \/ read' = 1 /\ z >= 1
        \/ read' = 2 /\ z >= 2 /\ roles'[a + 2] = "timestamp"
    <3>1. CASE z < 2
      <4>1. read' = z
        BY <1>3, <2>1, <3>1 DEF Skipped
      <4> QED BY <1>2, <3>1, <4>1
    <3>2. CASE z >= 2
      <4>1. v[1] = a + 1 /\ v[2] = a + 2
        BY <1>3, <3>2
      <4>2. ~IsData(a + 1)
        BY <1>1, <2>2, <3>2 DEF IsData
      <4>3. CASE IsData(a + 2)
        <5>1. read' = 1
          BY <1>2, <1>3, <2>1, <3>2, <4>1, <4>2, <4>3 DEF Skipped
        <5> QED BY <3>2, <5>1
      <4>4. CASE ~IsData(a + 2)
        <5>1. read' = 2
          BY <1>2, <1>3, <2>1, <3>2, <4>1, <4>2, <4>4 DEF Skipped
        <5>2. a + 2 \in 1..Len(roles) /\ roles[a + 2] # "header" /\ roles[a + 1] = "header"
          <6>1. roles[a + 1] = "header" /\ a + z <= Len(roles) /\ roles[a + 2] # "header"
            BY <1>1, <2>2, <3>2
          <6>2. Len(roles) \in Nat
            BY Numbers
          <6> QED BY <3>2, <6>1, <6>2
        <5>3. Follows("header", roles[a + 2])
          <6>1. Follows(roles[(a + 2) - 1], roles[a + 2])
            BY <5>2 DEF ParserInv, RolesOK
          <6>2. (a + 2) - 1 = a + 1
            OBVIOUS
          <6> QED BY <5>2, <6>1, <6>2
        <5>4. roles[a + 2] \in Roles
          BY <5>2 DEF IInv, RolesInv
        <5> QED BY <1>1, <3>2, <4>4, <5>1, <5>2, <5>3, <5>4 DEF Follows, Roles, IsData
      <4> QED BY <4>3, <4>4
    <3> QED BY <1>2, <3>1, <3>2
  <2>9. PrevOK'
    <3>1. z > 0 => roles'[a + read'] \in {"timestamp", "header"}
      BY <1>2, <2>2, <2>8
    <3>2. Past' = a + read'
      BY <1>1, <1>2 DEF Past
    <3>3. headless' \/ z > 0
      <4>1. z = 0 => headless'
        BY <2>1
      <4> QED BY <1>2, <4>1
    <3> QED BY <2>1, <3>1, <3>2, <3>3 DEF PrevOK
  <2>10. ViewOK'
    BY <1>1, <1>2, <2>6, <2>7 DEF ViewOK
  <2>11. YieldsItsMidiUnlessHeadless'
    <3>1. ASSUME NEW i \in 1..read'
          PROVE  Viewed'[i] = a + i /\ roles'[a + i] \in {"header", "timestamp"}
      <4>1. z > 0 /\ i \in 1..z
        BY <1>2, <2>8
      <4>2. Viewed'[i] = a + i
        BY <1>2, <4>1
      <4>3. i = 1 \/ (i = 2 /\ roles'[a + 2] = "timestamp")
        BY <1>2, <2>8
      <4> QED BY <2>2, <4>1, <4>2, <4>3
    <3>2. Midi' = {}
      BY <3>1 DEF Midi
    <3> QED BY <1>1, <3>2 DEF YieldsItsMidiUnlessHeadless, YieldsItsMidi
  <2> QED BY <1>5, <2>4, <2>5, <2>9, <2>10, <2>11 DEF ParserInv
<1> QED BY <1>6, <1>7

\* pull tells timestamps from status bytes.
LEMMA PullRoles ==
  ASSUME IInv, ParserInv, Pull
  PROVE  ParserInv'
<1>1. /\ cpc = "take" /\ read < view.length /\ read' = read + 1
      /\ UNCHANGED <<header, content, size, writeP, addSize, pushing, ppc, readP, view, cpc,
                     accepted, settled, roles, rest, headless>>
  BY DEF Pull, ringVars, memory, producer, consumer, hist
<1>2. PICK a \in Nat, r \in Nat, z \in Nat :
        /\ a = settled /\ r = read /\ z = view.length /\ r < z /\ a + z <= Len(roles)
        /\ Viewed = [i \in 1..z |-> a + i] /\ Viewed[r + 1] = a + r + 1
        /\ z = header[readP].size /\ view.type = header[readP].type
  <2>1. /\ settled \in Nat /\ read \in Nat /\ view.length \in Nat
        /\ Viewed[read + 1] = settled + read + 1
        /\ settled + view.length <= Len(roles)
    <3>1. accepted \in Nat /\ Len(roles) \in Nat
      BY Numbers
    <3> QED BY <1>1, <3>1, PulledByte
  <2>2. Viewed = [i \in 1..view.length |-> settled + i]
    BY <1>1, ViewIsNext DEF IInv
  <2>3. view.length = header[readP].size /\ view.type = header[readP].type
    BY <1>1 DEF IInv, RInv, StepInv, ParserInv, ViewOK, Headers
  <2> QED BY <1>1, <2>1, <2>2, <2>3
<1>3. Headers' = Headers /\ Headers = header /\ Viewed' = Viewed
  BY <1>1 DEF Headers, Viewed
<1>4. RolesOK' /\ RestOK' /\ PushOK'
  BY <1>1 DEF ParserInv, RolesOK, RestOK, PushOK
<1>5. ChunksOK' /\ HeadOK'
  BY <1>1, <1>3 DEF ParserInv, ChunksOK, ChunkRoles, InUse, Orphan, HeadOK
<1>6. view.type = "Packet" => r >= 1 /\ (r = 1 => z = 1 \/ roles[a + 2] = "data") /\ ~headless
  BY <1>1, <1>2, <1>3 DEF ParserInv, ViewOK, HeadOK
<1>7. ViewOK'
  BY <1>1, <1>2, <1>3, <1>6 DEF ParserInv, ViewOK
<1>8. CASE headless
  <2>1. view.type # "Packet"
    BY <1>6, <1>8
  <2> QED BY <1>1, <1>4, <1>5, <1>7, <1>8, <2>1
          DEF ParserInv, PrevOK, YieldsItsMidiUnlessHeadless
<1>9. CASE ~headless
  <2>1. /\ view.type \in {"Packet", "Continuation"}
        /\ PartOK(roles, a, z, view.type)
    <3>1. PartOK(roles, a, z, view.type)
      BY <1>1, <1>2, <1>9, FirstPart
    <3>2. view.type \in Types
      BY DEF IInv, RInv, RingTypeOK
    <3> QED BY <3>1, <3>2 DEF PartOK, Types
  <2>2. \A i \in 2..z : roles[a + i] # "header"
    BY <2>1 DEF PartOK
  <2>3. PICK n \in Nat : n = a + r + 1 /\ n \in 1..Len(roles) /\ n = Viewed[r + 1]
    <3>1. PICK n \in Nat : n = a + r + 1
      BY <1>2
    <3>2. Len(roles) \in Nat
      BY Numbers
    <3>3. n \in 1..Len(roles)
      BY <1>2, <3>1, <3>2
    <3> QED BY <1>2, <3>1, <3>3
  <2>4. roles[n] # "header"
    <3>1. CASE r = 0
      <4>1. view.type = "Continuation"
        BY <1>6, <2>1, <3>1
      <4> QED BY <1>2, <2>1, <2>3, <3>1, <4>1 DEF PartOK
    <3>2. CASE r # 0
      <4>1. r + 1 \in 2..z /\ a + (r + 1) = n
        BY <1>2, <2>3, <3>2
      <4> QED BY <2>2, <4>1
    <3> QED BY <3>1, <3>2
  <2>5. n > 1 /\ Follows(roles[n - 1], roles[n]) /\ n - 1 = a + r
    BY <1>2, <2>3, <2>4 DEF ParserInv, RolesOK
  <2>6. prevWasTimestamp <=> roles[a + r] \in {"timestamp", "header"}
    BY <1>2, <1>9, <2>3, <2>5 DEF ParserInv, PrevOK, Past
  <2>7. roles[a + r] = "header" => roles[n] = "data"
    <3> SUFFICES ASSUME roles[a + r] = "header" PROVE roles[n] = "data"
      OBVIOUS
    <3>1. r < 2
      BY <1>2, <2>2
    <3>2. view.type = "Packet"
      <4> SUFFICES ASSUME view.type = "Continuation" PROVE FALSE
        BY <2>1
      <4>1. roles[a] # "header" /\ roles[a + 1] # "header"
        BY <2>1 DEF PartOK
      <4>2. r = 0 \/ r = 1
        BY <1>2, <3>1
      <4> QED BY <1>2, <4>1, <4>2
    <3>3. r = 1 /\ n = a + 2
      BY <1>2, <1>6, <2>3, <3>1, <3>2
    <3> QED BY <1>2, <1>6, <3>2, <3>3
  <2>8. roles[n] \in Roles
    BY <2>3 DEF IInv, RolesInv
  <2>9. midi = Midi
    BY <1>1, <1>9 DEF ParserInv, YieldsItsMidiUnlessHeadless, YieldsItsMidi
  <2>10. Midi' = Midi \cup (IF roles[n] \in {"status", "data"} THEN {n} ELSE {})
    <3>1. {Viewed[i] : i \in 1..(r + 1)} = {Viewed[i] : i \in 1..r} \cup {n}
      <4>1. 1..(r + 1) = (1..r) \cup {r + 1}
        BY <1>2
      <4> QED BY <2>3, <4>1
    <3>2. PICK A : A = {Viewed[i] : i \in 1..r}
      OBVIOUS
    <3>3. Midi = {x \in A : roles[x] \in {"status", "data"}}
      BY <1>2, <3>2 DEF Midi
    <3>4. Midi' = {x \in A \cup {n} : roles[x] \in {"status", "data"}}
      BY <1>1, <1>2, <1>3, <3>1, <3>2 DEF Midi
    <3> QED BY <3>3, <3>4
  <2>11. Past' = n
    BY <1>1, <1>2, <2>3 DEF Past
  <2>12. /\ IsData(n) \/ prevWasTimestamp => midi' = midi \cup {n} /\ prevWasTimestamp' = FALSE
         /\ ~IsData(n) /\ ~prevWasTimestamp => midi' = midi /\ prevWasTimestamp' = TRUE
    BY <1>2, <2>3 DEF Pull
  <2>13. CASE roles[n] = "data"
    <3>1. midi' = midi \cup {n} /\ prevWasTimestamp' = FALSE
      BY <2>12, <2>13 DEF IsData
    <3> QED BY <1>1, <1>4, <1>5, <1>7, <2>9, <2>10, <2>11, <2>13, <3>1
            DEF ParserInv, PrevOK, YieldsItsMidiUnlessHeadless, YieldsItsMidi
  <2>14. CASE roles[n] = "status"
    <3>1. prevWasTimestamp
      BY <2>5, <2>6, <2>14 DEF Follows
    <3>2. midi' = midi \cup {n} /\ prevWasTimestamp' = FALSE
      BY <2>12, <3>1
    <3> QED BY <1>1, <1>4, <1>5, <1>7, <2>9, <2>10, <2>11, <2>14, <3>2
            DEF ParserInv, PrevOK, YieldsItsMidiUnlessHeadless, YieldsItsMidi
  <2>15. CASE roles[n] = "timestamp"
    <3>1. ~prevWasTimestamp
      BY <2>5, <2>6, <2>7, <2>15 DEF Follows
    <3>2. midi' = midi /\ prevWasTimestamp' = TRUE
      BY <2>12, <2>15, <3>1 DEF IsData
    <3> QED BY <1>1, <1>4, <1>5, <1>7, <2>9, <2>10, <2>11, <2>15, <3>2
            DEF ParserInv, PrevOK, YieldsItsMidiUnlessHeadless, YieldsItsMidi
  <2> QED BY <2>4, <2>8, <2>13, <2>14, <2>15 DEF Roles
<1> QED BY <1>8, <1>9

\* The parser remembers the last byte of a chunk for the next one.
LEMMA EndChunkRoles ==
  ASSUME IInv, ParserInv, EndChunk
  PROVE  ParserInv'
<1>1. /\ cpc = "take" /\ cpc' = "pop" /\ read = view.length /\ read' = 0
      /\ settled' = settled + view.length /\ view' = NoView
      /\ UNCHANGED <<header, content, size, addSize, pushing, ppc, readP, accepted,
                     roles, rest, prevWasTimestamp, headless>>
  BY DEF EndChunk, Take, memory, producer
<1>2. Headers' = Headers
  BY <1>1 DEF Headers
<1>3. RolesOK' /\ RestOK' /\ PushOK'
  BY <1>1 DEF ParserInv, RolesOK, RestOK, PushOK
<1>4. ChunksOK' /\ HeadOK'
  BY <1>1, <1>2 DEF ParserInv, ChunksOK, ChunkRoles, InUse, Orphan, HeadOK
<1>5. Past' = Past
  BY <1>1, Numbers DEF Past
<1>6. PrevOK' /\ ViewOK' /\ YieldsItsMidiUnlessHeadless'
  BY <1>1, <1>5 DEF ParserInv, PrevOK, ViewOK, YieldsItsMidiUnlessHeadless, YieldsItsMidi
<1> QED BY <1>3, <1>4, <1>6 DEF ParserInv

LEMMA RolesStep ==
  ASSUME IInv, ParserInv, WellFormedPackets, [Next]_vars
  PROVE  ParserInv'
<1>1. ASSUME Ring PROVE ParserInv'
  <2>1. UNCHANGED <<roles, rest, parser>>
    BY <1>1 DEF Ring
  <2>2. CASE PushWrite
    BY <2>1, <2>2, PushWriteRoles
  <2>3. CASE PopNext
    BY <2>1, <2>3, PopNextRoles
  <2>4. CASE PopLast /\ Old.type # "None"
    BY <2>1, <2>4, PopLastRoles
  <2>5. CASE PushRelease \/ PopLoad \/ PopEmpty \/ (PopLast /\ Old.type = "None")
    BY <2>1, <2>5, QuietRoles
  <2> QED BY <1>1, <2>2, <2>3, <2>4, <2>5 DEF Ring, PushStep, PopStep
<1>2. ASSUME UNCHANGED vars PROVE ParserInv'
  <2>1. Headers' = Headers /\ Viewed' = Viewed
    BY <1>2 DEF Headers, Viewed, vars, ringVars, memory, consumer
  <2> QED BY <1>2, <2>1, RolesKept DEF vars, ringVars, memory, producer, consumer, hist
<1> QED BY <1>1, <1>2, ReceiveRoles, ReceiveMoreRoles, DropRestRoles, NextChunkRoles, PullRoles,
           EndChunkRoles DEF Next

LEMMA InitRoles == Init => ParserInv
<1> SUFFICES ASSUME Init PROVE ParserInv
  OBVIOUS
<1>1. /\ roles = <<>> /\ rest = <<>> /\ read = 0 /\ headless = FALSE /\ settled = 0
      /\ ppc = "idle" /\ cpc = "pop" /\ readP = 0
      /\ header = [p \in Words |-> IF p = 0 THEN [size |-> 0, type |-> "None"] ELSE NoHeader]
  BY DEF Init, RingInit
<1>2. Headers = header /\ \A p \in Words : header[p].size = 0
  BY <1>1 DEF Headers, NoHeader
<1>3. header[0].type = "None"
  <2>1. 0 \in Words
    BY WordOK, CapacityOK
  <2> QED BY <1>1, <2>1
<1>4. Len(roles) = 0
  BY <1>1
<1>5. RolesOK /\ RestOK /\ PushOK
  BY <1>1, <1>4 DEF RolesOK, RestOK, PushOK
<1>6. ChunksOK /\ HeadOK
  BY <1>1, <1>2, <1>3 DEF ChunksOK, ChunkRoles, HeadOK
<1>7. PrevOK /\ ViewOK /\ YieldsItsMidiUnlessHeadless
  BY <1>1 DEF PrevOK, Past, ViewOK, YieldsItsMidiUnlessHeadless, YieldsItsMidi
<1> QED BY <1>5, <1>6, <1>7 DEF ParserInv

\* Every chunk yields exactly the MIDI bytes in it, wherever the Bluetooth stack or the
\* ring has split the packets and whatever was dropped, for every capacity of the ring
\* and all packets that keep to the format, unless the packet begins with an empty chunk.
THEOREM ParserCorrect == WellFormedPackets /\ Spec => []YieldsItsMidiUnlessHeadless
<1> SUFFICES ASSUME WellFormedPackets PROVE Spec => []YieldsItsMidiUnlessHeadless
  OBVIOUS
<1>1. Init => IInv /\ ParserInv
  BY InitInv, InitRoles
<1>2. IInv /\ ParserInv /\ [Next]_vars => (IInv /\ ParserInv)'
  BY IInvStep, RolesStep
<1>3. ParserInv => YieldsItsMidiUnlessHeadless
  BY DEF ParserInv
<1> QED BY <1>1, <1>2, <1>3, PTL DEF Spec
===============================================================================
