------------------------------ MODULE BLERingBuf ------------------------------
(***************************************************************************)
(* The ring buffer between the Bluetooth stack and the main loop           *)
(* (BLERingBuf.hpp), used by one producer, which pushes packets or chunks  *)
(* of packets, and one consumer, which pops chunks and looks at the one it *)
(* popped last without copying it.                                         *)
(*                                                                         *)
(* The two share only `size`, an atomic counter of the bytes in use; each  *)
(* has its own index.  Every access to `size` is a step, and so is the     *)
(* work on the memory between two accesses.                                *)
(*                                                                         *)
(* The bytes of the data are numbered 1, 2, ... in the order in which the  *)
(* producer pushes them.  The memory is modelled by two functions: header  *)
(* of the even offsets, where a header may be stored, and content of all   *)
(* offsets, the number of the data byte there.  What has been freed is     *)
(* forgotten: nobody may rely on it.                                       *)
(***************************************************************************)
EXTENDS Integers, Sequences

CONSTANTS
  Capacity,    \* size of the memory in bytes
  Lengths,     \* sizes of the packets and chunks the Bluetooth stack pushes
  PushTypes,   \* types it pushes them with
  MaxBytes     \* bound: number of data bytes pushed

HeaderSize == 2
Offsets == 0..(Capacity - 1)
Words   == {p \in Offsets : p % HeaderSize = 0}
Types   == {"None", "Packet", "Continuation"}
Header  == [size : 0..Capacity, type : Types]

\* The offset holds data, not a header.
NoHeader == [size |-> 0, type |-> "data"]
Chunk    == [length : Nat, type : Types]
NoView   == [start |-> 0, length |-> 0, type |-> "None"]
Nothing  == [length |-> 0, type |-> "None"]

\* push asserts write_p < capacity from the start, and the size in a header has
\* 14 bits.
ASSUME ConstantsAssumption ==
  /\ Capacity \in Nat /\ Capacity % HeaderSize = 0
  /\ HeaderSize < Capacity /\ Capacity <= 16384
  /\ Lengths \subseteq Nat /\ PushTypes \subseteq Types
  /\ MaxBytes \in Nat

VARIABLES
  header,      \* header[p]: what is stored at the even offset p, or NoHeader
  content,     \* content[p]: the data byte at offset p, 0 in a header
  size,        \* bytes in use, the chunk the consumer is looking at included
  writeP,      \* write_p, the producer's
  pushing,     \* the chunk being pushed
  addSize,     \* add_size, what push is about to add to size
  ppc,         \* next step of push, "idle" outside
  readP,       \* read_p, the consumer's: the header of the chunk popped last
  locSize,     \* loc_size of pop
  view,        \* data of pop: where the chunk popped last starts, its length
  cpc,         \* next step of pop, "pop" outside, "take" with a chunk to look at
  accepted, settled, wire   \* history, see MIDIFifo: pushed, looked at

memory   == <<header, content>>
producer == <<writeP, pushing, addSize, ppc>>
consumer == <<readP, locSize, view, cpc>>
hist     == <<accepted, settled, wire>>
ringVars == <<memory, size, producer, consumer, hist>>

RingInit ==
  /\ header = [p \in Words |-> IF p = 0 THEN [size |-> 0, type |-> "None"] ELSE NoHeader]
  /\ content = [p \in Offsets |-> 0]
  /\ size = HeaderSize
  /\ writeP = HeaderSize /\ addSize = 0 /\ ppc = "idle"
  /\ pushing = Nothing
  /\ readP = 0 /\ locSize = 0 /\ cpc = "pop"
  /\ view = NoView
  /\ accepted = 0 /\ settled = 0 /\ wire = <<>>

-------------------------------------------------------------------------------
(***************************************************************************)
(* push                                                                    *)
(***************************************************************************)
CeilH(i) == ((i + HeaderSize - 1) \div HeaderSize) * HeaderSize

Wrap(p) == IF p = Capacity THEN 0 ELSE p

\* Contiguous size remaining in front of the end, without a header.
Contig == Capacity - writeP - HeaderSize

\* Mutant: the second header of a chunk that is split is forgotten.
FitsOneHeader(length) == size + length + HeaderSize <= Capacity

\* There is space for the chunk, and for a second header if it must be split.
Fits(length) ==
  /\ size + length + HeaderSize <= Capacity
  /\ length > Contig => size + length + 2 * HeaderSize <= Capacity

\* The chunk fits; otherwise push returns false and changes nothing.
PushLoad(length, type) ==
  /\ ppc = "idle"
  /\ accepted + length <= MaxBytes
  /\ Fits(length)
  /\ pushing' = [length |-> length, type |-> type]
  /\ ppc' = "write"
  /\ UNCHANGED <<memory, size, writeP, addSize, consumer, hist>>

Size1 == IF Contig <= pushing.length THEN Contig ELSE pushing.length
Size2 == pushing.length - Size1

\* Where the data goes: behind the header at write_p, and what does not fit
\* there behind a second header at the beginning of the memory.
Start1 == writeP + HeaderSize
End1   == Wrap(Start1 + CeilH(Size1))
Start2 == End1 + HeaderSize

\* The offset p belongs to the part of the given start and length.
In(p, start, length) == start <= p /\ p < start + length

Data1(p) == In(p, Start1, Size1)
Data2(p) == Size2 > 0 /\ In(p, Start2, Size2)

\* Copy headers and data into the memory.
PushWrite ==
  /\ ppc = "write"
  /\ header' = [p \in Words |->
       IF p = writeP THEN [size |-> Size1, type |-> pushing.type]
       ELSE IF Size2 > 0 /\ p = End1 THEN [size |-> Size2, type |-> "Continuation"]
       ELSE IF \E q \in p..(p + HeaderSize - 1) : Data1(q) \/ Data2(q) THEN NoHeader
       ELSE header[p]]
  /\ content' = [p \in Offsets |->
       IF Data1(p) THEN accepted + 1 + p - Start1
       ELSE IF Data2(p) THEN accepted + Size1 + 1 + p - Start2
       ELSE content[p]]
  /\ writeP' = IF Size2 > 0 THEN Start2 + CeilH(Size2) ELSE End1
  /\ addSize' = HeaderSize + CeilH(Size1)
                 + (IF Size2 > 0 THEN HeaderSize + CeilH(Size2) ELSE 0)
  /\ ppc' = "release"
  /\ UNCHANGED <<size, pushing, consumer, hist>>

\* size.add_release(add_size)
PushRelease ==
  /\ ppc = "release"
  /\ size' = size + addSize
  /\ accepted' = accepted + pushing.length
  /\ addSize' = 0 /\ pushing' = Nothing
  /\ ppc' = "idle"
  /\ UNCHANGED <<memory, writeP, consumer, settled, wire>>

-------------------------------------------------------------------------------
(***************************************************************************)
(* pop                                                                     *)
(***************************************************************************)
PopLoad ==
  /\ cpc = "pop"
  /\ locSize' = size
  /\ cpc' = "free"
  /\ UNCHANGED <<memory, size, producer, readP, view, hist>>

\* The header that pop reads (see ReadsHeaders: it is one).
Old == header[readP]

\* Mutant: a chunk of one word is taken for nothing.
OnlyOldNearly == locSize - HeaderSize <= CeilH(Old.size) + 2 * HeaderSize

\* The chunk popped last was the only thing in the buffer, see `size`.
OnlyOld == locSize - HeaderSize = CeilH(Old.size)

Forget(start, length) ==
  /\ header' = [p \in Words |-> IF In(p, start, length) THEN NoHeader ELSE header[p]]
  /\ content' = [p \in Offsets |-> IF In(p, start, length) THEN 0 ELSE content[p]]

\* Mutant: the last chunk stays until the next one is there.
PopLastKeeps ==
  /\ cpc = "free"
  /\ OnlyOld
  /\ cpc' = "pop"
  /\ locSize' = 0
  /\ UNCHANGED <<memory, size, producer, readP, view, hist>>

\* Nothing is left: keep the space of one header, and write an empty one there.
PopLast ==
  /\ cpc = "free"
  /\ OnlyOld
  /\ IF Old.type = "None"
       THEN cpc' = "pop" /\ UNCHANGED <<memory, readP, size>>
       ELSE /\ readP' = readP + CeilH(Old.size)
            /\ size' = size - CeilH(Old.size)
            /\ Forget(readP, HeaderSize + CeilH(Old.size))
            /\ cpc' = "empty"
  /\ locSize' = 0
  /\ UNCHANGED <<producer, view, hist>>

PopEmpty ==
  /\ cpc = "empty"
  /\ header' = [header EXCEPT ![readP] = [size |-> 0, type |-> "None"]]
  /\ cpc' = "pop"
  /\ UNCHANGED <<content, size, producer, readP, locSize, view, hist>>

\* Free the old chunk with so many headers.
FreeOld(headers) ==
  /\ cpc = "free"
  /\ ~OnlyOld
  /\ readP' = Wrap(readP + HeaderSize + CeilH(Old.size))
  /\ size' = size - (headers * HeaderSize + CeilH(Old.size))
  /\ Forget(readP, HeaderSize + CeilH(Old.size))
  /\ locSize' = 0
  /\ cpc' = "view"
  /\ UNCHANGED <<producer, view, hist>>

\* Mutant: the header of the next chunk is freed along with the old chunk.
PopNextTwoHeaders == FreeOld(2)

\* The old chunk is freed with its header.
PopNext == FreeOld(1)

\* Return a view to the next chunk.
PopView ==
  /\ cpc = "view"
  /\ view' = [start |-> readP + HeaderSize, length |-> Old.size, type |-> Old.type]
  /\ cpc' = "take"
  /\ UNCHANGED <<memory, size, producer, readP, locSize, hist>>

\* The bytes the consumer sees through its view.
Viewed == [i \in 1..view.length |-> content[view.start + i - 1]]

\* The consumer looks at the chunk and comes back for the next.
Take ==
  /\ cpc = "take"
  /\ wire' = wire \o Viewed
  /\ settled' = settled + view.length
  /\ view' = NoView
  /\ cpc' = "pop"
  /\ UNCHANGED <<memory, size, producer, readP, locSize, accepted>>

-------------------------------------------------------------------------------
PushStep == PushWrite \/ PushRelease
PopStep  == PopLoad \/ PopLast \/ PopEmpty \/ PopNext

RingNext ==
  \/ \E length \in Lengths, type \in PushTypes : PushLoad(length, type)
  \/ PushStep
  \/ PopStep \/ PopView \/ Take

RingSpec == RingInit /\ [][RingNext]_ringVars

-------------------------------------------------------------------------------
(***************************************************************************)
(* Properties                                                              *)
(***************************************************************************)
\* Every variable has its type; both indices stay inside the memory.
RingTypeOK ==
  /\ header \in [Words -> Header \cup {NoHeader}]
  /\ content \in [Offsets -> 0..MaxBytes]
  /\ size \in 0..Capacity
  /\ writeP \in Words /\ readP \in Words
  /\ pushing \in Chunk
  /\ addSize \in 0..Capacity /\ locSize \in 0..Capacity
  /\ ppc \in {"idle", "write", "release"}
  /\ cpc \in {"pop", "free", "empty", "view", "take"}
  /\ view \in [start : 0..Capacity, length : 0..Capacity, type : Types]
  /\ accepted \in 0..MaxBytes /\ settled \in 0..MaxBytes /\ wire \in Seq(Nat)

\* pop never takes data for a header, whatever the producer is writing.
ReadsHeaders == cpc \in {"free", "view"} => header[readP] # NoHeader

\* What is in use according to the counter, and what push is about to add to
\* it, is what lies between the two indices.
Between == IF writeP > readP THEN writeP - readP ELSE writeP - readP + Capacity
SizeIsDistance == size + (IF ppc = "release" THEN addSize ELSE 0) = Between

\* "The view remains valid until the next call to pop": its bytes are the next
\* ones in line as long as the consumer may look at them.
ViewValid ==
  cpc = "take" => Viewed = [i \in 1..view.length |-> settled + i]

\* The variables have their types, no data is taken for a header, the counter is
\* the distance between the indices, and a view is valid as long as it is used.
RingSound == RingTypeOK /\ ReadsHeaders /\ SizeIsDistance /\ ViewValid

\* The bytes come out in the order in which they went in, each once, and never
\* more of them are in the ring than fit beside a header.
Fifo == INSTANCE MIDIFifo WITH Batch <- Capacity, Capacity <- Capacity - HeaderSize
FifoSpec == Fifo!Spec /\ [][Len(wire') = settled']_wire

\* A consumer that keeps popping sees every byte that was accepted: it catches up
\* with a producer whenever that pauses, and in the model it pushes finitely much.
EveryByteRead == []<>(settled = accepted)

\* "The actual maximum data size may be up to 6 bytes less": a chunk of that size
\* is not refused for ever, because a consumer that keeps popping gives back all
\* the space but one header.
MaximumFits == []<>(ppc = "idle" => Fits(Capacity - 6))
===============================================================================
