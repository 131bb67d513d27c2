------------------------------- MODULE Framing -------------------------------
(***************************************************************************)
(* The bridge's frames, an 8-byte length and a payload, in a byte stream   *)
(* that arrives in chunks of any size: the incremental FrameReader of      *)
(* src/src/transport/framing.ts and the PooledFrameBuffer of               *)
(* src/native/MastercamMcp.Protocol/Framing.cs, given the same stream.     *)
(*                                                                         *)
(* A byte is its place in the stream.  Sizes are scaled down.              *)
(***************************************************************************)
EXTENDS Integers, FiniteSetsExt, SequencesExt

CONSTANTS
    FrameHeaderSize, MaxFrameSize,
    PayloadSizes,     \* of the frames that are written
    ChunkSize,        \* of the reads
    InitialCapacity,  \* of the pooled buffer
    RentSize,         \* ArrayPool.Rent: the size of the array for one asked for
    MaxFrames

LargestBuffer == MaxFrameSize + FrameHeaderSize

\* The pool rents what was asked for or more.
ASSUME FramingAssumption ==
    /\ FrameHeaderSize \in Nat \ {0} /\ {MaxFrameSize, ChunkSize, MaxFrames} \cup PayloadSizes \subseteq Nat
    /\ InitialCapacity \in 0..LargestBuffer
    /\ RentSize \in [0..LargestBuffer -> Nat] /\ \A n \in 0..LargestBuffer : RentSize[n] >= n

VARIABLES
    stream,   \* where each frame that was written ends
    received, \* bytes that have arrived
    reader,   \* FrameReader, and the frames it has handed out
    pool      \* PooledFrameBuffer, and the frames read from it

framing == <<stream, received, reader, pool>>

\* Frame i is the bytes after End(i - 1) up to End(i).
End(i) == IF i = 0 THEN 0 ELSE stream[i]
Length(i) == End(i) - End(i - 1) - FrameHeaderSize
Sent == End(Len(stream))
Bytes(from, n) == [k \in 1..n |-> from + k]
Payload(i) == Bytes(End(i - 1) + FrameHeaderSize, Length(i))

\* The length that a header says, told by its first byte.
LengthIn(b) == Length(CHOOSE i \in DOMAIN stream : End(i - 1) < b /\ b <= End(i))
-----------------------------------------------------------------------------
\* FrameReader.push, one byte at a time.
NewReader == [header |-> <<>>, payload |-> <<>>, expected |-> -1, frames |-> <<>>, status |-> "open"]
HandOut(r, payload) == [r EXCEPT !.frames = Append(@, payload), !.payload = <<>>, !.expected = -1]

KeepHeader(r, b) == \* mutant: headerBytes is not set back
    [r EXCEPT !.expected = LengthIn(r.header[1]), !.header = <<b>>]
HeaderDone(r, b) == [r EXCEPT !.expected = LengthIn(Append(r.header, b)[1]), !.header = <<>>]

TakeByte(r, b) ==
    IF r.status = "broken" THEN r
    ELSE IF r.expected >= 0
    THEN LET full == Append(r.payload, b)
         IN  IF Len(full) = r.expected THEN HandOut(r, full) ELSE [r EXCEPT !.payload = full]
    ELSE IF Len(r.header) + 1 < FrameHeaderSize THEN [r EXCEPT !.header = Append(@, b)]
    ELSE LET next == HeaderDone(r, b)
         IN  IF next.expected > MaxFrameSize THEN [NewReader EXCEPT !.frames = r.frames, !.status = "broken"]
             ELSE IF next.expected = 0 THEN HandOut(next, <<>>) ELSE next

\* A push that throws loses the frames it had found before.
Taken(r, chunk) ==
    LET after[k \in 0..Len(chunk)] == IF k = 0 THEN r ELSE TakeByte(after[k - 1], chunk[k])
    IN  after
push(r, chunk) ==
    LET after == Taken(r, chunk)[Len(chunk)]
    IN  IF after.status = "broken" THEN [after EXCEPT !.frames = r.frames] ELSE after
-----------------------------------------------------------------------------
\* Buffer.BlockCopy, and an array of the pool.
BlockCopy(src, from, dst, to, n) ==
    [i \in DOMAIN dst |-> IF i \in to..(to + n - 1) THEN src[from + i - to] ELSE dst[i]]
Empty(n) == [i \in 0..(n - 1) |-> 0]
Size(p) == Cardinality(DOMAIN p.buffer)

NewPool == [buffer |-> Empty(RentSize[Max({InitialCapacity, FrameHeaderSize})]), start |-> 0, end |-> 0,
            frames |-> <<>>, status |-> "open"]

ToFront(p) ==
    [p EXCEPT !.buffer = BlockCopy(@, p.start, @, 0, p.end - p.start), !.start = 0, !.end = p.end - p.start]

\* EnsureWritable: room at the end, room after a move to the front, or a larger
\* buffer, doubled up to a frame of the maximal size.
Doubled(size, n) ==
    LET times[e \in 0..n] == IF e = 0 THEN size ELSE 2 * times[e - 1]
    IN  times
Grown(p, required) ==
    LET sizes == Doubled(Size(p), required)
        doubled == Min({sizes[e] : e \in 0..required} \ 0..(required - 1))
        nextSize == IF doubled > LargestBuffer THEN LargestBuffer ELSE doubled
    IN  IF nextSize < required THEN [p EXCEPT !.status = "broken"]
        ELSE [p EXCEPT !.buffer = BlockCopy(@, p.start, Empty(RentSize[nextSize]), 0, p.end - p.start),
                       !.start = 0, !.end = p.end - p.start]

EnsureWritable(p, count) ==
    IF Size(p) - p.end >= count THEN p
    ELSE LET q == IF p.start > 0 THEN ToFront(p) ELSE p
         IN  IF Size(q) - q.end >= count THEN q ELSE Grown(q, q.end + count)

AppendChunk(p, chunk) ==
    LET q == EnsureWritable(p, Len(chunk))
    IN  IF q.status = "broken" THEN q
        ELSE [q EXCEPT !.buffer = [i \in DOMAIN @ |-> IF i \in q.end..(q.end + Len(chunk) - 1)
                                                      THEN chunk[i - q.end + 1] ELSE @[i]],
                       !.end = @ + Len(chunk)]

CompactIfUseful(p) ==
    IF p.start = p.end THEN [p EXCEPT !.start = 0, !.end = 0]
    ELSE IF p.start < Size(p) \div 2 THEN p ELSE ToFront(p)

PooledLength(p) == LengthIn(p.buffer[p.start])
Buffered(p) == p.end - p.start
TooLong(p) == Buffered(p) >= FrameHeaderSize /\ PooledLength(p) > MaxFrameSize
HasFrame(p) == Buffered(p) >= FrameHeaderSize /\ ~TooLong(p)
               /\ Buffered(p) >= FrameHeaderSize + PooledLength(p)

PooledFrame(p) == [i \in 1..PooledLength(p) |-> p.buffer[p.start + FrameHeaderSize + i - 1]]
TryReadUtf8Frame(p) ==
    IF TooLong(p) THEN [p EXCEPT !.status = "broken"]
    ELSE CompactIfUseful([p EXCEPT !.frames = Append(@, PooledFrame(p)),
                                   !.start = @ + FrameHeaderSize + PooledLength(p)])
-----------------------------------------------------------------------------
FramingInit ==
    stream = <<>> /\ received = 0 /\ reader = NewReader /\ pool = NewPool

CanRead == pool.status = "open" /\ (HasFrame(pool) \/ TooLong(pool))

\* encodeFrame, EncodeFrame: a header and a payload.
Write(n) ==
    /\ Len(stream) < MaxFrames
    /\ stream' = Append(stream, Sent + FrameHeaderSize + n)
    /\ UNCHANGED <<received, reader, pool>>

\* A chunk arrives; the add-in takes the next one when no whole frame is left.
Arrives(n) ==
    /\ received + n <= Sent /\ ~CanRead
    /\ received' = received + n
    /\ reader' = push(reader, Bytes(received, n))
    /\ pool' = IF pool.status = "broken" THEN pool ELSE AppendChunk(pool, Bytes(received, n))
    /\ UNCHANGED stream

ReadFrame ==
    /\ CanRead
    /\ pool' = TryReadUtf8Frame(pool)
    /\ UNCHANGED <<stream, received, reader>>

FramingNext == (\E n \in PayloadSizes : Write(n)) \/ (\E n \in 1..ChunkSize : Arrives(n)) \/ ReadFrame
-----------------------------------------------------------------------------
Payloads == [i \in DOMAIN stream |-> Payload(i)]
Oversized == \E i \in DOMAIN stream : Length(i) > MaxFrameSize
Whole(n) == Cardinality({i \in DOMAIN stream : End(i) <= n})  \* frames within the first n bytes

\* However the stream is cut, both decoders hand out the frames that were sent,
\* whole and in their order, as soon as they are complete, and refuse only one
\* that is too long; the pooled buffer also gives up when a chunk reaches past a
\* frame of nearly the maximal size.
FramesSurviveChunking ==
    /\ IsPrefix(reader.frames, Payloads) /\ IsPrefix(pool.frames, Payloads)
    /\ reader.status = "open" => Len(reader.frames) = Whole(received)
    /\ pool.status = "open" /\ ~CanRead => Len(pool.frames) = Whole(received)
    /\ reader.status = "broken" => Oversized
    /\ pool.status = "broken" => Oversized \/ \E i \in DOMAIN stream : Length(i) + ChunkSize > MaxFrameSize + 1
=============================================================================
