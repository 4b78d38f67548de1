--------------------------- MODULE Transport_proofs ---------------------------
(***************************************************************************)
(* Proofs about Transport, for any connections, calls, sizes of messages   *)
(* and sizes of frames: the types; that at most one connection outlives    *)
(* Stop; that the server gives Enqueue the messages as they were written;  *)
(* and that a synchronous call takes the answer to its own request.  For   *)
(* the last two, the frames of a message are described one by one, a       *)
(* stream is the frames between the place of its reader and that of its    *)
(* writer, and one turn of the loop over the buffer moves the former to    *)
(* the next place.                                                         *)
(***************************************************************************)
EXTENDS Transport, TLAPS, FiniteSetTheorems, SequenceTheorems, WellFoundedInduction

-----------------------------------------------------------------------------
(* What the caller writes: a non-empty sequence of frames, which are        *)
(* sequences of cells.                                                      *)

Cells == [kind : {"frame", "part", "byte"}, a : Nat, b : Nat]

\* A message cut into chunks of F cells makes at least one, the last one begins inside
\* of the message, and the others end there.
LEMMA Chunks ==
    ASSUME NEW F \in Nat \ {0}, NEW size \in Nat \ {0}
    PROVE  LET n == (size + F - 1) \div F IN
           /\ n \in Nat \ {0}
           /\ \A i \in 1..n : (i - 1) * F \in Nat /\ (i - 1) * F < size
           /\ \A i \in 1..n : i # n => i * F < size
           /\ n * F >= size
<1>. DEFINE n == (size + F - 1) \div F
<1>1. n \in Int /\ n * F <= size + F - 1 /\ size + F - 1 < n * F + F
  OBVIOUS
<1>. HIDE DEF n
<1>2. n > 0
  <2>. SUFFICES ASSUME n <= 0 PROVE FALSE
    BY <1>1
  <2>1. n * F <= 0
    BY <1>1
  <2>. QED  BY <1>1, <2>1
<1>3. n * F >= size
  BY <1>1
<1>4. ASSUME NEW i \in 1..n PROVE (i - 1) * F \in Nat /\ (i - 1) * F < size
  <2>1. (n - i) * F >= 0 /\ (i - 1) * F >= 0 /\ (i - 1) * F \in Int
    BY <1>1
  <2>2. (n - i) * F = n * F - i * F /\ (i - 1) * F = i * F - F
    BY <1>1
  <2>. QED  BY <1>1, <2>1, <2>2
<1>5. ASSUME NEW i \in 1..n, i # n PROVE i * F < size
  <2>1. (n - i - 1) * F >= 0
    BY <1>1, <1>5
  <2>2. (n - i - 1) * F = n * F - i * F - F
    BY <1>1
  <2>. QED  BY <1>1, <2>1, <2>2
<1>. QED  BY <1>1, <1>2, <1>3, <1>4, <1>5 DEF n

\* The cells of a concatenation.
LEMMA Concat ==
    ASSUME NEW S, NEW s \in Seq(S), NEW t \in Seq(S)
    PROVE  /\ Len(s) \in Nat /\ Len(t) \in Nat
           /\ s \o t \in Seq(S) /\ Len(s \o t) = Len(s) + Len(t)
           /\ \A x \in 1..Len(s) : (s \o t)[x] = s[x]
           /\ \A x \in 1..Len(t) : (s \o t)[Len(s) + x] = t[x]
<1>1. Len(s) \in Nat /\ Len(t) \in Nat
  BY LenProperties
<1>2. /\ s \o t \in Seq(S) /\ Len(s \o t) = Len(s) + Len(t)
      /\ \A i \in 1..Len(s) + Len(t) : (s \o t)[i] = IF i <= Len(s) THEN s[i] ELSE t[i - Len(s)]
  BY ConcatProperties
<1>3. ASSUME NEW x \in 1..Len(t) PROVE (s \o t)[Len(s) + x] = t[x]
  <2>1. Len(s) + x \in 1..Len(s) + Len(t) /\ ~(Len(s) + x <= Len(s)) /\ Len(s) + x - Len(s) = x
    BY <1>1
  <2>. QED  BY <1>2, <2>1
<1>. QED  BY <1>1, <1>2, <1>3

\* A frame is its header and its payload.
LEMMA FrameBuilt ==
    ASSUME NEW type \in Nat, NEW payload \in Seq(Cells)
    PROVE  LET f == BuildFrame(type, payload) IN
           /\ f \in Seq(Cells) /\ Len(f) = Len(payload) + 1
           /\ f[1] = Cell("frame", type, Len(payload))
           /\ \A x \in 1..Len(payload) : f[x + 1] = payload[x]
<1>1. Len(payload) \in Nat
  BY LenProperties
<1>2. Cell("frame", type, Len(payload)) \in Cells
  BY <1>1 DEF Cell, Cells
<1>. DEFINE h == <<Cell("frame", type, Len(payload))>>
<1>3. h \in Seq(Cells) /\ Len(h) = 1 /\ h[1] = Cell("frame", type, Len(payload))
  BY <1>2
<1>. HIDE DEF h
<1>4. /\ h \o payload \in Seq(Cells) /\ Len(h \o payload) = Len(h) + Len(payload)
      /\ \A x \in 1..Len(h) : (h \o payload)[x] = h[x]
      /\ \A x \in 1..Len(payload) : (h \o payload)[Len(h) + x] = payload[x]
  <2>1. h \in Seq(Cells)
    BY <1>3
  <2>. QED  BY <2>1, Concat
<1>5. BuildFrame(type, payload) = h \o payload
  BY DEF BuildFrame, h
<1>. QED  BY <1>1, <1>3, <1>4, <1>5

\* The payload of a fragment is its place in the message and its chunk.
LEMMA FragmentBuilt ==
    ASSUME NEW total \in Nat, NEW offset \in Nat, NEW chunk \in Seq(Cells)
    PROVE  LET p == BuildFragmentPayload(total, offset, chunk) IN
           /\ p \in Seq(Cells) /\ Len(p) = Len(chunk) + 1
           /\ p[1] = Cell("part", total, offset)
           /\ \A x \in 1..Len(chunk) : p[x + 1] = chunk[x]
<1>1. Len(chunk) \in Nat
  BY LenProperties
<1>2. Cell("part", total, offset) \in Cells
  BY DEF Cell, Cells
<1>. DEFINE h == <<Cell("part", total, offset)>>
<1>3. h \in Seq(Cells) /\ Len(h) = 1 /\ h[1] = Cell("part", total, offset)
  BY <1>2
<1>. HIDE DEF h
<1>4. /\ h \o chunk \in Seq(Cells) /\ Len(h \o chunk) = Len(h) + Len(chunk)
      /\ \A x \in 1..Len(h) : (h \o chunk)[x] = h[x]
      /\ \A x \in 1..Len(chunk) : (h \o chunk)[Len(h) + x] = chunk[x]
  <2>1. h \in Seq(Cells)
    BY <1>3
  <2>. QED  BY <2>1, Concat
<1>5. BuildFragmentPayload(total, offset, chunk) = h \o chunk
  BY DEF BuildFragmentPayload, h
<1>. QED  BY <1>1, <1>3, <1>4, <1>5

\* The cells of a message.
LEMMA ContentCells ==
    ASSUME NEW m \in Nat, NEW size \in Nat
    PROVE  /\ Content(m, size) \in Seq(Cells) /\ Len(Content(m, size)) = size
           /\ \A x \in 1..size : Content(m, size)[x] = Cell("byte", m, x)
<1>1. \A x \in 1..size : Cell("byte", m, x) \in Cells
  BY DEF Cell, Cells
<1>2. Content(m, size) \in [1..size -> Cells]
  BY <1>1 DEF Content
<1>. QED  BY <1>2 DEF Content

\* What FramesOf makes of a message: how many frames there are, and how many cells of
\* the message and from where the i-th carries.
FrameCount(size) ==
    IF size <= FragmentChunkSize THEN 1
    ELSE (size + FragmentChunkSize - 1) \div FragmentChunkSize

Offset(i) == (i - 1) * FragmentChunkSize

ChunkLen(size, i) == Least(Offset(i) + FragmentChunkSize, size) - Offset(i)

\* A message that fits goes in one frame, whole.
LEMMA WholeFrame ==
    ASSUME NEW m \in Nat, NEW size \in Nat \ {0}, size <= FragmentChunkSize
    PROVE  LET f == FramesOf(Content(m, size))[1] IN
           /\ FramesOf(Content(m, size)) = <<f>>
           /\ f \in Seq(Cells) /\ Len(f) = size + 1
           /\ f[1] = Cell("frame", MsgData, size)
           /\ \A x \in 1..size : f[x + 1] = Content(m, size)[x]
<1>. DEFINE data == Content(m, size)
<1>1. data \in Seq(Cells) /\ Len(data) = size
  BY ContentCells
<1>. HIDE DEF data
<1>2. FramesOf(data) = <<BuildFrame(MsgData, data)>>
  BY <1>1 DEF FramesOf
<1>3. MsgData \in Nat
  BY DEF MsgData
<1>. DEFINE f == BuildFrame(MsgData, data)
<1>4. /\ f \in Seq(Cells) /\ Len(f) = Len(data) + 1
      /\ f[1] = Cell("frame", MsgData, Len(data))
      /\ \A x \in 1..Len(data) : f[x + 1] = data[x]
  BY <1>1, <1>3, FrameBuilt
<1>. HIDE DEF f
<1>5. FramesOf(data) = <<f>> /\ FramesOf(data)[1] = f
  BY <1>2 DEF f
<1>. QED  BY <1>1, <1>4, <1>5 DEF data

\* The chunks cover the message: each is within it, not empty, and the last ends with it.
LEMMA ChunkBounds ==
    ASSUME NEW size \in Nat \ {0}, size > FragmentChunkSize
    PROVE  /\ FrameCount(size) \in Nat \ {0}
           /\ \A i \in 1..FrameCount(size) :
                /\ Offset(i) \in Nat /\ Offset(i) < size
                /\ ChunkLen(size, i) \in Nat \ {0} /\ ChunkLen(size, i) <= FragmentChunkSize
                /\ Offset(i) + ChunkLen(size, i) <= size
                /\ IF i = FrameCount(size) THEN Offset(i) + ChunkLen(size, i) = size
                   ELSE Offset(i + 1) = Offset(i) + ChunkLen(size, i)
           /\ Offset(1) = 0
<1>. DEFINE F == FragmentChunkSize
            n == FrameCount(size)
<1>1. F \in Nat \ {0}
  BY FrameAssumption
<1>2. /\ n \in Nat \ {0}
      /\ \A i \in 1..n : (i - 1) * F \in Nat /\ (i - 1) * F < size
      /\ \A i \in 1..n : i # n => i * F < size
      /\ n * F >= size
  BY <1>1, Chunks DEF FrameCount
<1>3. \A i \in 1..n : Offset(i) \in Nat /\ Offset(i) < size /\ Offset(i) + F = i * F
  BY <1>1, <1>2 DEF Offset
<1>4. \A i \in 1..n : Offset(i + 1) = Offset(i) + F
  BY <1>1, <1>2 DEF Offset
<1>5. Offset(1) = 0
  BY <1>1 DEF Offset
<1>6. ASSUME NEW i \in 1..n
      PROVE  /\ ChunkLen(size, i) \in Nat \ {0} /\ ChunkLen(size, i) <= F
             /\ Offset(i) + ChunkLen(size, i) <= size
             /\ IF i = n THEN Offset(i) + ChunkLen(size, i) = size
                ELSE Offset(i + 1) = Offset(i) + ChunkLen(size, i)
  <2>1. Offset(i) \in Nat /\ Offset(i) < size /\ (i # n => Offset(i) + F < size)
        /\ (i = n => Offset(i) + F >= size)
    BY <1>2, <1>3
  <2>. QED  BY <1>1, <1>4, <2>1 DEF ChunkLen, Least
<1>. QED  BY <1>2, <1>3, <1>5, <1>6

\* A longer message goes in fragments, each with its offset and its chunk.
LEMMA FragmentFrames ==
    ASSUME NEW m \in Nat, NEW size \in Nat \ {0}, size > FragmentChunkSize
    PROVE  /\ FramesOf(Content(m, size)) \in Seq(Seq(Cells))
           /\ Len(FramesOf(Content(m, size))) = FrameCount(size)
           /\ \A i \in 1..FrameCount(size) :
                LET f == FramesOf(Content(m, size))[i] IN
                /\ f \in Seq(Cells) /\ Len(f) = ChunkLen(size, i) + 2
                /\ f[1] = Cell("frame", MsgDataFragment, ChunkLen(size, i) + 1)
                /\ f[2] = Cell("part", size, Offset(i))
                /\ \A x \in 1..ChunkLen(size, i) : f[x + 2] = Content(m, size)[Offset(i) + x]
<1>. DEFINE data == Content(m, size)
            n == FrameCount(size)
            chunk(i) == SubSeq(data, Offset(i) + 1, Least(Offset(i) + FragmentChunkSize, size))
            frame(i) == BuildFrame(MsgDataFragment, BuildFragmentPayload(size, Offset(i), chunk(i)))
<1>1. data \in Seq(Cells) /\ Len(data) = size /\ \A x \in 1..size : data[x] \in Cells
  BY ContentCells, ElementOfSeq
<1>2. FramesOf(data) = [i \in 1..n |-> frame(i)]
  <2>. HIDE DEF data
  <2>1. ~(Len(data) <= FragmentChunkSize) /\ ~(size <= FragmentChunkSize)
    BY <1>1, FrameAssumption
  <2>. QED  BY <1>1, <2>1 DEF FramesOf, FrameCount, Offset
<1>3. ASSUME NEW i \in 1..n
      PROVE  /\ chunk(i) \in Seq(Cells) /\ Len(chunk(i)) = ChunkLen(size, i)
             /\ \A x \in 1..ChunkLen(size, i) : chunk(i)[x] = data[Offset(i) + x]
  <2>1. /\ Offset(i) \in Nat /\ ChunkLen(size, i) \in Nat \ {0}
        /\ Offset(i) + ChunkLen(size, i) <= size
        /\ Least(Offset(i) + FragmentChunkSize, size) = Offset(i) + ChunkLen(size, i)
    BY ChunkBounds, FrameAssumption DEF ChunkLen, Least
  <2>. DEFINE lo == Offset(i) + 1
              hi == Least(Offset(i) + FragmentChunkSize, size)
  <2>2. lo \in Int /\ hi \in Int /\ (\A x \in lo..hi : data[x] \in Cells)
        /\ lo <= hi /\ hi - lo + 1 = ChunkLen(size, i)
    BY <1>1, <2>1
  <2>3. /\ SubSeq(data, lo, hi) \in Seq(Cells)
        /\ Len(SubSeq(data, lo, hi)) = hi - lo + 1
        /\ \A x \in 1..(hi - lo + 1) : SubSeq(data, lo, hi)[x] = data[lo + x - 1]
    BY <2>2, SubSeqProperties
  <2>. QED  BY <2>1, <2>2, <2>3
<1>4. ASSUME NEW i \in 1..n
      PROVE  /\ frame(i) \in Seq(Cells) /\ Len(frame(i)) = ChunkLen(size, i) + 2
             /\ frame(i)[1] = Cell("frame", MsgDataFragment, ChunkLen(size, i) + 1)
             /\ frame(i)[2] = Cell("part", size, Offset(i))
             /\ \A x \in 1..ChunkLen(size, i) : frame(i)[x + 2] = data[Offset(i) + x]
  <2>. DEFINE p == BuildFragmentPayload(size, Offset(i), chunk(i))
  <2>1. Offset(i) \in Nat /\ ChunkLen(size, i) \in Nat \ {0} /\ MsgDataFragment \in Nat
    BY ChunkBounds DEF MsgDataFragment
  <2>. DEFINE ch == chunk(i)
  <2>6. ch \in Seq(Cells) /\ Len(ch) = ChunkLen(size, i)
    BY <1>3
  <2>. HIDE DEF ch
  <2>. DEFINE q == BuildFragmentPayload(size, Offset(i), ch)
  <2>7. /\ q \in Seq(Cells) /\ Len(q) = Len(ch) + 1
        /\ q[1] = Cell("part", size, Offset(i))
        /\ \A x \in 1..Len(ch) : q[x + 1] = ch[x]
    BY <2>6, <2>1, FragmentBuilt, ZenonT(60)
  <2>2. /\ p \in Seq(Cells) /\ Len(p) = ChunkLen(size, i) + 1
        /\ p[1] = Cell("part", size, Offset(i))
        /\ \A x \in 1..ChunkLen(size, i) : p[x + 1] = chunk(i)[x]
    BY <2>6, <2>7 DEF ch
  <2>. HIDE DEF p
  <2>. DEFINE f == BuildFrame(MsgDataFragment, p)
  <2>3. /\ f \in Seq(Cells) /\ Len(f) = Len(p) + 1
        /\ f[1] = Cell("frame", MsgDataFragment, Len(p))
        /\ \A x \in 1..Len(p) : f[x + 1] = p[x]
    BY <2>1, <2>2, FrameBuilt
  <2>4. frame(i) = BuildFrame(MsgDataFragment, p)
    BY DEF p
  <2>. HIDE DEF frame, chunk
  <2>5. \A x \in 1..ChunkLen(size, i) : frame(i)[x + 2] = chunk(i)[x]
    <3>. TAKE x \in 1..ChunkLen(size, i)
    <3>1. x + 1 \in 1..Len(p) /\ (x + 1) + 1 = x + 2
      BY <2>1, <2>2
    <3>. QED  BY <2>2, <2>3, <2>4, <3>1
  <2>. QED  BY <1>3, <2>1, <2>2, <2>3, <2>4, <2>5
<1>. HIDE DEF frame, chunk
<1>5. n \in Nat /\ FramesOf(data) \in [1..n -> Seq(Cells)]
  BY <1>2, <1>4, ChunkBounds
<1>. QED  BY <1>2, <1>4, <1>5

\* Only the empty sequence has no length.
LEMMA EmptyIffShort ==
    ASSUME NEW S, NEW s \in Seq(S)
    PROVE  Len(s) \in Nat /\ (s = <<>> <=> Len(s) = 0)
BY EmptySeq, LenProperties

\* A sequence is over when its last element has been taken.
LEMMA Taken ==
    ASSUME NEW S, NEW s \in Seq(S), s # <<>>
    PROVE  /\ Head(s) \in S /\ Head(s) = s[1]
           /\ Tail(s) \in Seq(S) /\ Len(Tail(s)) = Len(s) - 1 /\ Len(s) \in Nat \ {0}
           /\ Tail(s) = <<>> <=> Len(s) = 1
           /\ \A i \in 1..(Len(s) - 1) : Tail(s)[i] = s[i + 1]
<1>. DEFINE t == Tail(s)
<1>1. /\ t \in Seq(S) /\ Len(t) = Len(s) - 1 /\ \A i \in 1..Len(t) : t[i] = s[i + 1]
      /\ Head(s) \in S
  BY HeadTailProperties
<1>2. Len(s) \in Nat \ {0} /\ Head(s) = s[1]
  BY EmptySeq
<1>. HIDE DEF t
<1>3. t = <<>> <=> Len(t) = 0
  BY <1>1, EmptyIffShort
<1>4. t = <<>> <=> Len(s) = 1
  BY <1>1, <1>2, <1>3
<1>. QED  BY <1>1, <1>2, <1>4 DEF t

\* What a caller writes is one frame or more, none of them empty.
LEMMA MessageFrames ==
    ASSUME NEW m \in Nat, NEW size \in Nat \ {0}
    PROVE  LET frames == FramesOf(Content(m, size)) IN
           /\ frames \in Seq(Seq(Cells)) /\ frames # <<>>
           /\ \A i \in 1..Len(frames) : frames[i] \in Seq(Cells) /\ frames[i] # <<>>
<1>. DEFINE frames == FramesOf(Content(m, size))
<1>1. CASE size <= FragmentChunkSize
  <2>. DEFINE f == frames[1]
  <2>1. frames = <<f>> /\ f \in Seq(Cells) /\ Len(f) = size + 1
    BY <1>1, WholeFrame
  <2>. HIDE DEF f
  <2>2. Len(<<f>>) = 1 /\ <<f>> \in Seq(Seq(Cells)) /\ <<f>>[1] = f /\ f # <<>> /\ <<f>> # <<>>
    BY <2>1, EmptyIffShort
  <2>3. \A i \in 1..Len(<<f>>) : <<f>>[i] \in Seq(Cells) /\ <<f>>[i] # <<>>
    BY <2>1, <2>2
  <2>. QED  BY <2>1, <2>2, <2>3
<1>2. CASE ~(size <= FragmentChunkSize)
  <2>1. size > FragmentChunkSize
    BY <1>2, FrameAssumption
  <2>2. /\ frames \in Seq(Seq(Cells)) /\ Len(frames) = FrameCount(size)
        /\ \A i \in 1..FrameCount(size) :
              frames[i] \in Seq(Cells) /\ Len(frames[i]) = ChunkLen(size, i) + 2
    BY <2>1, FragmentFrames
  <2>3. /\ FrameCount(size) \in Nat \ {0}
        /\ \A i \in 1..FrameCount(size) : ChunkLen(size, i) \in Nat
    BY <2>1, ChunkBounds
  <2>. HIDE DEF frames
  <2>4. \A i \in 1..Len(frames) : frames[i] \in Seq(Cells) /\ frames[i] # <<>>
    BY <2>2, <2>3
  <2>. QED  BY <2>2, <2>3, <2>4 DEF frames
<1>. QED  BY <1>1, <1>2

-----------------------------------------------------------------------------
(* The types.  A caller that is writing or reading is at one of its calls.  *)

CallerTypes ==
    /\ copen \in [Conns -> BOOLEAN]
    /\ todo \in [Conns -> Seq(Seq(Cells))]
    /\ done \in [Conns -> Nat]
    /\ \A c \in Conns : cpc[c] \in {"write", "read", "frames"} => done[c] < Len(Calls[c])

TypeInv ==
    /\ TypeOK
    /\ CallerTypes
    /\ acc # "off" => running \/ spc # "idle"

\* The message of a call that is not over.
LEMMA MessageType ==
    ASSUME NEW c \in Conns, done[c] \in Nat, done[c] < Len(Calls[c])
    PROVE  Message(c) \in Messages /\ done[c] + 1 \in 1..Len(Calls[c])
<1>1. Calls[c] \in Seq(Messages) /\ Len(Calls[c]) \in Nat
  BY TransportAssumption, LenProperties
<1>2. done[c] + 1 \in 1..Len(Calls[c])
  BY <1>1
<1>. QED  BY <1>1, <1>2, ElementOfSeq DEF Message

\* A call that ends is counted, and was one of the calls.
LEMMA CallCounted ==
    ASSUME NEW c \in Conns, NEW n \in Nat, done \in [Conns -> Nat], done[c] < n,
           done' = done \/ done' = [done EXCEPT ![c] = @ + 1]
    PROVE  done' \in [Conns -> Nat] /\ done'[c] \in 0..n
<1>1. CASE done' = done
  BY <1>1
<1>2. CASE done' = [done EXCEPT ![c] = @ + 1]
  BY <1>2
<1>. QED  BY <1>1, <1>2

\* At first nothing runs.
LEMMA InitTypeInv == Init => TypeInv
<1>. SUFFICES ASSUME Init PROVE TypeInv
  OBVIOUS
<1>1. \A c \in Conns : Len(Calls[c]) \in Nat
  BY TransportAssumption, LenProperties
<1>2. todo \in [Conns -> Seq(Seq(Cells))] /\ done \in [Conns -> Nat] /\ copen \in [Conns -> BOOLEAN]
  BY DEF Init
<1>3. /\ \A c \in Conns : done[c] \in 0..Len(Calls[c])
      /\ \A c \in Conns : todo[c] # <<>> <=> cpc[c] = "write"
      /\ \A c \in Conns : copen[c] <=> cpc[c] \notin {"new", "closed"}
  BY <1>1 DEF Init
<1>4. /\ answers \in [Messages -> Messages \union {0}]
      /\ job \in [Messages -> {"none", "queued", "dropped", "found", "handled", "failed"}]
      /\ sopen \in [Conns -> BOOLEAN]
      /\ clients \subseteq {c \in Conns : hpc[c] # "none"}
      /\ hpc \in [Conns -> {"none", "top", "read", "frames", "close", "closing", "gone"}]
      /\ cpc \in [Conns -> {"new", "idle", "write", "read", "frames", "closed"}]
  BY DEF Init
<1>5. TypeOK
  BY <1>3, <1>4 DEF Init, TypeOK
<1>. QED  BY <1>2, <1>5 DEF Init, TypeInv, CallerTypes

\* A step of a caller keeps the types.
LEMMA CallerTypeInv ==
    ASSUME TypeInv, NEW c \in Conns, CallerStep(c)
    PROVE  TypeInv'
<1>. USE DEF TypeInv, TypeOK, CallerTypes, listenVars, handlerVars, wireVars
<1>1. Calls[c] \in Seq(Messages) /\ Len(Calls[c]) \in Nat
  BY TransportAssumption, LenProperties
<1>2. CASE Dial(c)
  BY <1>2 DEF Dial
<1>3. CASE BeginCall(c)
  <2>1. Message(c) \in Messages
    BY <1>3, MessageType DEF BeginCall
  <2>2. todo'[c] \in Seq(Seq(Cells)) /\ todo'[c] # <<>>
    <3>1. Message(c) \in Nat /\ Size[Message(c)] \in Nat \ {0}
      BY <2>1, TransportAssumption
    <3>. QED  BY <1>3, <3>1, MessageFrames, ZenonT(60) DEF BeginCall
  <2>3. todo' \in [Conns -> Seq(Seq(Cells))]
    BY <1>3, <2>2 DEF BeginCall
  <2>. QED  BY <1>3, <2>2, <2>3 DEF BeginCall
<1>4. CASE WriteFrame(c)
  <2>1. todo[c] \in Seq(Seq(Cells)) /\ todo[c] # <<>>
    BY <1>4 DEF WriteFrame
  <2>2. /\ Tail(todo[c]) \in Seq(Seq(Cells)) /\ Len(todo[c]) \in Nat \ {0}
        /\ Tail(todo[c]) = <<>> <=> Len(todo[c]) = 1
    BY <2>1, Taken
  <2>3. todo' \in [Conns -> Seq(Seq(Cells))] /\ todo'[c] = Tail(todo[c])
    BY <1>4, <2>2 DEF WriteFrame
  <2>4. UNCHANGED <<listenVars, handlerVars, job, copen, answers>> /\ cpc[c] = "write"
        /\ cpc \in [Conns -> {"new", "idle", "write", "read", "frames", "closed"}]
        /\ done \in [Conns -> Nat]
    BY <1>4 DEF WriteFrame
  <2>6. \/ Len(todo[c]) > 1 /\ cpc' = cpc /\ done' = done
        \/ Len(todo[c]) = 1 /\ cpc' = [cpc EXCEPT ![c] = "read"] /\ done' = done
        \/ Len(todo[c]) = 1 /\ cpc' = [cpc EXCEPT ![c] = "idle"]
           /\ done' = [done EXCEPT ![c] = @ + 1]
    BY <1>4 DEF WriteFrame
  <2>5. done' \in [Conns -> Nat] /\ done'[c] \in 0..Len(Calls[c])
    <3>1. done' = done \/ done' = [done EXCEPT ![c] = @ + 1]
      BY <1>4 DEF WriteFrame
    <3>2. done[c] \in Nat /\ done[c] < Len(Calls[c])
      BY <1>4 DEF WriteFrame
    <3>. QED  BY <1>1, <3>1, <3>2, CallCounted
  <2>. HIDE DEF TypeInv, TypeOK, CallerTypes
  <2>7. todo'[c] # <<>> <=> cpc'[c] = "write"
    <3>1. todo'[c] # <<>> <=> Len(todo[c]) # 1
      BY <2>2, <2>3
    <3>2. cpc'[c] = "write" <=> Len(todo[c]) # 1
      <4>1. CASE Len(todo[c]) = 1
        <5>1. cpc' = [cpc EXCEPT ![c] = "read"] \/ cpc' = [cpc EXCEPT ![c] = "idle"]
          BY <2>6, <4>1
        <5>. QED  BY <2>4, <4>1, <5>1
      <4>2. CASE Len(todo[c]) # 1
        <5>1. cpc' = cpc
          BY <2>6, <4>2
        <5>. QED  BY <2>4, <4>2, <5>1
      <4>. QED  BY <4>1, <4>2
    <3>. QED  BY <3>1, <3>2
  <2>8. /\ cpc' \in [Conns -> {"new", "idle", "write", "read", "frames", "closed"}]
        /\ \A d \in Conns : cpc'[d] \notin {"new", "closed"} <=> cpc[d] \notin {"new", "closed"}
        /\ cpc'[c] \in {"write", "read", "frames"} => done'[c] = done[c]
        /\ \A d \in Conns : d # c => cpc'[d] = cpc[d] /\ done'[d] = done[d]
    BY <2>4, <2>6
  <2>9. \A d \in Conns : d # c => todo'[d] = todo[d]
    BY <1>4 DEF WriteFrame
  <2>10. TypeOK'
    <3>1. \A d \in Conns : done'[d] \in 0..Len(Calls[d])
      BY <2>5, <2>8 DEF TypeInv, TypeOK
    <3>2. \A d \in Conns : copen'[d] <=> cpc'[d] \notin {"new", "closed"}
      BY <2>4, <2>8 DEF TypeInv, TypeOK
    <3>3. \A d \in Conns : todo'[d] # <<>> <=> cpc'[d] = "write"
      <4>1. \A d \in Conns : todo[d] # <<>> <=> cpc[d] = "write"
        BY DEF TypeInv, TypeOK
      <4>. QED  BY <4>1, <2>7, <2>8, <2>9
    <3>. QED  BY <2>4, <2>8, <3>1, <3>2, <3>3 DEF TypeInv, TypeOK
  <2>11. CallerTypes'
    BY <2>3, <2>4, <2>5, <2>8 DEF TypeInv, TypeOK, CallerTypes
  <2>. QED  BY <2>4, <2>10, <2>11 DEF TypeInv
<1>5. CASE WriteFails(c) \/ CloseIdle(c) \/ ReadFails(c) \/ ReadRefused(c)
  <2>1. HangUp(c) /\ UNCHANGED <<listenVars, handlerVars, job>>
    BY <1>5 DEF WriteFails, CloseIdle, ReadFails, ReadRefused
  <2>. QED  BY <2>1 DEF HangUp
<1>6. CASE ReadSome(c)
  BY <1>6 DEF ReadSome
<1>7. CASE ReadFrame(c)
  BY <1>7 DEF ReadFrame
<1>8. CASE ReadAnswer(c)
  <2>1. answers' \in [Messages -> Messages \union {0}]
    <3>1. \/ answers' = answers
          \/ \E m \in Messages : answers' = [answers EXCEPT ![Message(c)] = m]
      BY <1>8 DEF ReadAnswer
    <3>. QED  BY <3>1
  <2>2. done' \in [Conns -> Nat] /\ done'[c] \in 0..Len(Calls[c])
    <3>1. done' = done \/ done' = [done EXCEPT ![c] = @ + 1]
      BY <1>8 DEF ReadAnswer
    <3>2. done[c] \in Nat /\ done[c] < Len(Calls[c])
      BY <1>8 DEF ReadAnswer
    <3>. QED  BY <1>1, <3>1, <3>2, CallCounted
  <2>3. cpc' \in [Conns -> {"new", "idle", "write", "read", "frames", "closed"}]
    BY <1>8, ZenonT(60) DEF ReadAnswer
  <2>4. cpc'[c] \in {"idle", "read"} /\ (cpc'[c] = "read" => done'[c] = done[c])
    BY <1>8 DEF ReadAnswer
  <2>5. \A d \in Conns : d # c => done'[d] = done[d] /\ cpc'[d] = cpc[d]
    BY <1>8 DEF ReadAnswer
  <2>6. UNCHANGED <<listenVars, handlerVars, job, copen, todo>> /\ cpc[c] = "frames"
    BY <1>8 DEF ReadAnswer
  <2>. QED  BY <2>1, <2>2, <2>3, <2>4, <2>5, <2>6, ZenonT(60)
<1>. QED  BY <1>2, <1>3, <1>4, <1>5, <1>6, <1>7, <1>8 DEF CallerStep

\* So do the others' steps.
LEMMA OtherTypeInv ==
    ASSUME TypeInv,
           \/ Start \/ AcceptCheck \/ Accept \/ AcceptFails \/ Register
           \/ StopBegin \/ StopListener \/ StopSweep
           \/ \E c \in Conns : HandlerStep(c)
           \/ \E m \in Messages : RunJob(m) \/ SendToClient(m)
           \/ UNCHANGED vars
    PROVE  TypeInv'
<1>. USE DEF TypeInv, TypeOK, CallerTypes, vars, listenVars, handlerVars, callerVars, wireVars
<1>1. CASE Start
  BY <1>1 DEF Start
<1>8. CASE AcceptCheck
  BY <1>8 DEF AcceptCheck
<1>9. CASE AcceptFails
  BY <1>9 DEF AcceptFails
<1>7. CASE Accept
  <2>1. PICK d \in backlog : accConn' = d /\ backlog' = backlog \ {d}
    BY <1>7 DEF Accept
  <2>2. d \in Conns /\ d # NoConn
    BY <2>1, TransportAssumption
  <2>3. acc = "accept" /\ acc' = "got" /\ UNCHANGED <<running, listening, spc, handlerVars, job, callerVars, wireVars>>
    BY <1>7 DEF Accept
  <2>. QED  BY <2>1, <2>2, <2>3
<1>2. CASE Register
  <2>1. accConn \in Conns /\ acc = "got"
    BY <1>2 DEF Register
  <2>2. /\ hpc' = [hpc EXCEPT ![accConn] = "top"] /\ clients' = clients \union {accConn}
        /\ accConn' = NoConn /\ acc' = "top"
        /\ UNCHANGED <<running, listening, spc, backlog, sopen, job, callerVars>>
    BY <1>2 DEF Register
  <2>. QED  BY <2>1, <2>2
<1>3. CASE StopBegin
  BY <1>3 DEF StopBegin
<1>10. CASE StopListener
  BY <1>10 DEF StopListener
<1>11. CASE StopSweep
  BY <1>11 DEF StopSweep
<1>4. ASSUME NEW c \in Conns, HandlerStep(c) PROVE TypeInv'
  <2>1. CASE HandlerFrame(c)
    <3>1. hpc' \in [Conns -> {"none", "top", "read", "frames", "close", "closing", "gone"}]
      BY <2>1 DEF HandlerFrame
    <3>2. hpc[c] = "frames" /\ hpc'[c] # "none" /\ \A d \in Conns : d # c => hpc'[d] = hpc[d]
      BY <2>1 DEF HandlerFrame
    <3>3. job' \in [Messages -> {"none", "queued", "dropped", "found", "handled", "failed"}]
      BY <2>1 DEF HandlerFrame
    <3>4. UNCHANGED <<listenVars, clients, sopen, callerVars, wireVars>>
      BY <2>1 DEF HandlerFrame
    <3>. QED  BY <3>1, <3>2, <3>3, <3>4
  <2>2. CASE HandlerCheck(c)
    <3>1. hpc[c] = "top" /\ UNCHANGED <<listenVars, clients, sopen, job, callerVars>>
          /\ \E p \in {"read", "gone"} : hpc' = [hpc EXCEPT ![c] = p]
      BY <2>2 DEF HandlerCheck, Leave
    <3>. QED  BY <3>1
  <2>3. CASE HandlerRead(c)
    <3>1. hpc[c] = "read" /\ hpc' = [hpc EXCEPT ![c] = "frames"]
          /\ UNCHANGED <<listenVars, clients, sopen, job, callerVars>>
      BY <2>3 DEF HandlerRead
    <3>. QED  BY <3>1
  <2>6. CASE HandlerReadFails(c)
    BY <2>6 DEF HandlerReadFails
  <2>4. CASE HandlerUnregister(c)
    BY <2>4, ZenonT(60) DEF HandlerUnregister, Leave
  <2>5. CASE HandlerClose(c)
    BY <2>5 DEF HandlerClose, Leave
  <2>. QED  BY <1>4, <2>1, <2>2, <2>3, <2>4, <2>5, <2>6 DEF HandlerStep
<1>5. ASSUME NEW m \in Messages, RunJob(m) \/ SendToClient(m)
      PROVE  TypeInv'
  <2>1. job' \in [Messages -> {"none", "queued", "dropped", "found", "handled", "failed"}]
    <3>1. \E k \in {"handled", "found", "failed"} : job' = [job EXCEPT ![m] = k]
      BY <1>5 DEF RunJob, SendToClient
    <3>. QED  BY <3>1
  <2>2. UNCHANGED <<listenVars, handlerVars, callerVars>>
    BY <1>5 DEF RunJob, SendToClient
  <2>. QED  BY <2>1, <2>2
<1>6. CASE UNCHANGED vars
  BY <1>6
<1>. QED  BY <1>1, <1>2, <1>3, <1>4, <1>5, <1>6, <1>7, <1>8, <1>9, <1>10, <1>11

\* Every step.
LEMMA TypeStep == TypeInv /\ [Next]_vars => TypeInv'
BY CallerTypeInv, OtherTypeInv DEF Next

\* Every variable keeps its type: a caller has frames to write exactly while it is
\* writing, and the server's map holds connections that have a handler.
THEOREM TypeCorrect == Spec => []TypeOK
<1>. TypeInv => TypeOK
  BY DEF TypeInv
<1>. QED  BY InitTypeInv, TypeStep, PTL DEF Spec

-----------------------------------------------------------------------------
(* Stop.  The server's end of a connection is open only where somebody      *)
(* holds it: the kernel, acceptLoop, the map, or closeClient on its way to  *)
(* close it; and after Stop has returned the first is out of the question,  *)
(* and the map has no more than acceptLoop has added since.                 *)

Holder(c) ==
    /\ cpc[c] = "new" => c \notin backlog /\ c # accConn /\ hpc[c] = "none" /\ ~sopen[c]
    /\ c \in backlog => hpc[c] = "none" /\ c # accConn
    /\ sopen[c] => c \in backlog \/ c \in clients \/ c = accConn \/ hpc[c] = "closing"

StopInv ==
    /\ running => spc = "idle"
    /\ spc \in {"sweep", "done"} => ~listening /\ backlog = {}
    /\ accConn # NoConn => hpc[accConn] = "none"
    /\ \A c \in Conns : Holder(c)
    /\ spc = "done" => \A c, d \in clients \union ({accConn} \ {NoConn}) : c = d

LEMMA InitStopInv == Init => StopInv
BY TransportAssumption DEF Init, StopInv, Holder

\* The steps of a caller: a connection that is dialled waits for Accept.
LEMMA CallerStopInv ==
    ASSUME TypeInv, StopInv, NEW c \in Conns, CallerStep(c)
    PROVE  StopInv'
<1>1. /\ accConn \in Conns \union {NoConn} /\ clients \subseteq Conns
      /\ sopen \in [Conns -> BOOLEAN]
      /\ cpc \in [Conns -> {"new", "idle", "write", "read", "frames", "closed"}]
  BY DEF TypeInv, TypeOK
<1>2. CASE Dial(c)
  <2>1. Holder(c)'
    BY <1>1, <1>2 DEF Dial, StopInv, Holder
  <2>2. ASSUME NEW d \in Conns, d # c PROVE Holder(d)'
    BY <1>1, <1>2, <2>2 DEF Dial, StopInv, Holder
  <2>3. spc \notin {"sweep", "done"} /\ UNCHANGED <<running, listening, spc, accConn, clients, hpc>>
    BY <1>2 DEF Dial, StopInv
  <2>. QED  BY <2>1, <2>2, <2>3 DEF StopInv
<1>3. CASE ~Dial(c)
  <2>1. /\ UNCHANGED <<listenVars, clients, hpc, sopen>> /\ cpc[c] # "new" /\ cpc'[c] # "new"
        /\ \A d \in Conns : d # c => cpc'[d] = cpc[d]
    <3>1. CASE BeginCall(c)
      BY <1>1, <3>1 DEF BeginCall, handlerVars
    <3>2. CASE WriteFrame(c)
      BY <1>1, <3>2 DEF WriteFrame, handlerVars
    <3>3. CASE WriteFails(c) \/ CloseIdle(c) \/ ReadFails(c) \/ ReadRefused(c)
      BY <1>1, <3>3 DEF WriteFails, CloseIdle, ReadFails, ReadRefused, HangUp, handlerVars
    <3>4. CASE ReadSome(c)
      BY <1>1, <3>4 DEF ReadSome, handlerVars
    <3>5. CASE ReadFrame(c)
      BY <1>1, <3>5 DEF ReadFrame, handlerVars
    <3>6. CASE ReadAnswer(c)
      BY <1>1, <3>6 DEF ReadAnswer, handlerVars
    <3>. QED  BY <1>3, <3>1, <3>2, <3>3, <3>4, <3>5, <3>6 DEF CallerStep
  <2>2. ASSUME NEW d \in Conns PROVE Holder(d)'
    BY <2>1 DEF StopInv, Holder, listenVars
  <2>. QED  BY <2>1, <2>2 DEF StopInv, listenVars
<1>. QED  BY <1>2, <1>3

\* Those of acceptLoop: what it accepts it enters into the map.
LEMMA AcceptStopInv ==
    ASSUME TypeInv, StopInv, Start \/ AcceptCheck \/ Accept \/ AcceptFails \/ Register
    PROVE  StopInv'
<1>1. /\ accConn \in Conns \union {NoConn} /\ clients \subseteq Conns /\ backlog \subseteq Conns
      /\ acc = "got" <=> accConn # NoConn
      /\ hpc \in [Conns -> {"none", "top", "read", "frames", "close", "closing", "gone"}]
  BY DEF TypeInv, TypeOK
<1>2. CASE Start
  BY <1>2 DEF Start, StopInv, Holder, handlerVars, callerVars
<1>3. CASE AcceptCheck
  BY <1>3 DEF AcceptCheck, StopInv, Holder, handlerVars, callerVars
<1>4. CASE AcceptFails
  BY <1>4 DEF AcceptFails, StopInv, Holder, handlerVars, callerVars
<1>5. CASE Accept
  <2>1. PICK e \in backlog : accConn' = e /\ backlog' = backlog \ {e}
    BY <1>5 DEF Accept
  <2>2. /\ UNCHANGED <<running, listening, spc, clients, hpc, sopen, cpc>>
        /\ accConn = NoConn /\ e \in Conns /\ e # NoConn
    BY <1>1, <1>5, <2>1, TransportAssumption DEF Accept, handlerVars, callerVars
  <2>3. ASSUME NEW d \in Conns PROVE Holder(d)'
    <3>1. Holder(d) /\ Holder(e) /\ d # NoConn
      BY <2>2, TransportAssumption DEF StopInv
    <3>2. d = e => Holder(d)'
      BY <2>1, <2>2, <3>1 DEF Holder
    <3>3. d # e => (d \in backlog' <=> d \in backlog) /\ d # accConn' /\ d # accConn
      BY <2>1, <2>2, <3>1
    <3>4. d # e => Holder(d)'
      BY <2>2, <3>1, <3>3 DEF Holder
    <3>. QED  BY <3>2, <3>4
  <2>4. spc \notin {"sweep", "done"} /\ hpc[e] = "none"
    BY <2>1, <2>2 DEF StopInv, Holder
  <2>. QED  BY <2>1, <2>2, <2>3, <2>4 DEF StopInv
<1>6. CASE Register
  <2>1. /\ UNCHANGED <<running, listening, spc, backlog, sopen, cpc>>
        /\ accConn \in Conns /\ accConn' = NoConn /\ clients' = clients \union {accConn}
        /\ hpc' = [hpc EXCEPT ![accConn] = "top"]
    BY <1>1, <1>6 DEF Register, callerVars
  <2>2. ASSUME NEW d \in Conns PROVE Holder(d)'
    <3>1. CASE d = accConn
      BY <1>1, <2>1, <3>1, TransportAssumption DEF StopInv, Holder
    <3>2. CASE d # accConn
      <4>1. hpc'[d] = hpc[d] /\ (d \in clients' <=> d \in clients) /\ Holder(d) /\ d # NoConn
        BY <1>1, <2>1, <3>2, TransportAssumption DEF StopInv
      <4>. QED  BY <2>1, <3>2, <4>1 DEF Holder
    <3>. QED  BY <3>1, <3>2
  <2>3. clients' \union ({accConn'} \ {NoConn}) \subseteq clients \union ({accConn} \ {NoConn})
    BY <2>1, TransportAssumption
  <2>. QED  BY <2>1, <2>2, <2>3 DEF StopInv
<1>. QED  BY <1>2, <1>3, <1>4, <1>5, <1>6

\* Those of a handler: it leaves the map only to close the connection, unless Stop
\* has closed it.
LEMMA HandlerStopInv ==
    ASSUME TypeInv, StopInv, NEW c \in Conns, HandlerStep(c)
    PROVE  StopInv'
<1>1. /\ accConn \in Conns \union {NoConn} /\ clients \subseteq Conns
      /\ sopen \in [Conns -> BOOLEAN]
      /\ hpc \in [Conns -> {"none", "top", "read", "frames", "close", "closing", "gone"}]
      /\ \A d \in Conns : Holder(d)
      /\ accConn # NoConn => hpc[accConn] = "none"
  BY DEF TypeInv, TypeOK, StopInv
<1>2. /\ UNCHANGED <<listenVars, cpc>> /\ clients' \subseteq clients /\ hpc[c] # "none"
      /\ \A d \in Conns : d # c => (hpc'[d] = hpc[d] /\ (d \in clients' <=> d \in clients)
                                    /\ sopen'[d] = sopen[d])
  <2>1. CASE HandlerCheck(c)
    BY <1>1, <2>1 DEF HandlerCheck, Leave, callerVars
  <2>2. CASE HandlerRead(c)
    BY <1>1, <2>2 DEF HandlerRead, callerVars
  <2>3. CASE HandlerReadFails(c)
    BY <1>1, <2>3 DEF HandlerReadFails, callerVars
  <2>4. CASE HandlerFrame(c)
    BY <1>1, <2>4 DEF HandlerFrame, callerVars
  <2>5. CASE HandlerUnregister(c)
    BY <1>1, <2>5 DEF HandlerUnregister, Leave, callerVars
  <2>6. CASE HandlerClose(c)
    BY <1>1, <2>6 DEF HandlerClose, Leave, callerVars
  <2>. QED  BY <2>1, <2>2, <2>3, <2>4, <2>5, <2>6 DEF HandlerStep
<1>3. sopen'[c] => sopen[c] /\ (c \in clients' \/ hpc'[c] = "closing")
  <2>1. sopen[c] => c \in clients \/ hpc[c] = "closing"
    BY <1>1, <1>2, TransportAssumption DEF Holder
  <2>2. CASE HandlerCheck(c)
    BY <2>1, <2>2 DEF HandlerCheck
  <2>3. CASE HandlerRead(c)
    BY <2>1, <2>3 DEF HandlerRead
  <2>4. CASE HandlerReadFails(c)
    BY <2>1, <2>4 DEF HandlerReadFails
  <2>5. CASE HandlerFrame(c)
    BY <2>1, <2>5 DEF HandlerFrame
  <2>6. CASE HandlerUnregister(c)
    BY <1>1, <2>1, <2>6 DEF HandlerUnregister
  <2>7. CASE HandlerClose(c)
    BY <1>1, <2>7 DEF HandlerClose
  <2>. QED  BY <2>2, <2>3, <2>4, <2>5, <2>6, <2>7 DEF HandlerStep
<1>4. Holder(c)'
  BY <1>1, <1>2, <1>3 DEF Holder, listenVars
<1>5. ASSUME NEW d \in Conns, d # c PROVE Holder(d)'
  BY <1>1, <1>2, <1>5 DEF Holder, listenVars
<1>6. accConn' # NoConn => hpc'[accConn'] = "none"
  BY <1>1, <1>2 DEF listenVars
<1>. QED  BY <1>2, <1>4, <1>5, <1>6 DEF StopInv, listenVars

\* Those of Stop, and of the callbacks.
LEMMA StopStopInv ==
    ASSUME TypeInv, StopInv,
           \/ StopBegin \/ StopListener \/ StopSweep
           \/ \E m \in Messages : RunJob(m) \/ SendToClient(m)
           \/ UNCHANGED vars
    PROVE  StopInv'
<1>1. accConn \in Conns \union {NoConn} /\ sopen \in [Conns -> BOOLEAN]
  BY DEF TypeInv, TypeOK
<1>2. CASE StopBegin
  BY <1>2 DEF StopBegin, StopInv, Holder, handlerVars, callerVars
<1>3. CASE StopListener
  <2>1. ASSUME NEW d \in Conns PROVE Holder(d)'
    BY <1>3 DEF StopListener, StopInv, Holder, callerVars
  <2>. QED  BY <1>3, <2>1 DEF StopListener, StopInv, callerVars
<1>4. CASE StopSweep
  <2>1. ASSUME NEW d \in Conns PROVE Holder(d)'
    BY <1>4 DEF StopSweep, StopInv, Holder, callerVars
  <2>. QED  BY <1>4, <2>1 DEF StopSweep, StopInv, callerVars
<1>5. ASSUME NEW m \in Messages, RunJob(m) \/ SendToClient(m)
      PROVE  StopInv'
  <2>1. UNCHANGED <<listenVars, handlerVars, callerVars>>
    BY <1>5 DEF RunJob, SendToClient
  <2>. QED  BY <2>1 DEF StopInv, Holder, listenVars, handlerVars, callerVars
<1>6. CASE UNCHANGED vars
  BY <1>6 DEF StopInv, Holder, vars, listenVars, handlerVars, callerVars
<1>. QED  BY <1>2, <1>3, <1>4, <1>5, <1>6

\* Every step.
LEMMA StopStep == TypeInv /\ StopInv /\ [Next]_vars => StopInv'
BY CallerStopInv, AcceptStopInv, HandlerStopInv, StopStopInv DEF Next

\* "Close all client connections" (ipc_server.go:34): once Stop has returned, at most one
\* connection is left that no goroutine is about to close, the one that acceptLoop held
\* between Accept and its entry in the map.
THEOREM OneMayOutliveStopHolds == Spec => []OneMayOutliveStop
<1>1. TypeInv /\ StopInv => OneMayOutliveStop
  <2>. SUFFICES ASSUME TypeInv, StopInv, spc = "done"
                PROVE  Cardinality({c \in Conns : sopen[c] /\ hpc[c] # "closing"}) <= 1
    BY DEF OneMayOutliveStop
  <2>. DEFINE Left == {c \in Conns : sopen[c] /\ hpc[c] # "closing"}
  <2>1. \A c \in Left : c \in clients \union ({accConn} \ {NoConn})
    BY TransportAssumption DEF StopInv, Holder
  <2>2. \A c, d \in Left : c = d
    BY <2>1 DEF StopInv
  <2>3. CASE Left = {}
    BY <2>3, FS_EmptySet
  <2>4. CASE Left # {}
    <3>1. PICK c \in Left : Left = {c}
      BY <2>2, <2>4
    <3>2. Cardinality({c}) = 1
      BY FS_Singleton
    <3>. QED  BY <3>1, <3>2
  <2>. QED  BY <2>3, <2>4
<1>. QED  BY InitTypeInv, InitStopInv, TypeStep, StopStep, <1>1, PTL DEF Spec

-----------------------------------------------------------------------------
(* One direction of a connection, for the list of messages that are written *)
(* there.  A place is a message of the list and one of its frames; what has *)
(* been written and not been consumed leads from the place of the reader to *)
(* that of the writer, and may end with a part of the frame there.          *)

Mail == Seq([message : Nat, size : Nat \ {0}])

Frame(mail, k, i) == FramesOf(Content(mail[k].message, mail[k].size))[i]

Count(mail, k) == Len(FramesOf(Content(mail[k].message, mail[k].size)))

IsPlace(mail, k, i) == k \in 1..Len(mail) /\ i \in 1..Count(mail, k)

NextCall(mail, k, i) == IF i = Count(mail, k) THEN k + 1 ELSE k

NextFrame(mail, k, i) == IF i = Count(mail, k) THEN 1 ELSE i + 1

\* The j-th of n frames is at the place <<call[j], frame[j]>> and starts at start[j].
Route(mail, n, call, frame, start) ==
    /\ n \in Nat \ {0}
    /\ \A j \in 1..n : call[j] \in Nat /\ frame[j] \in Nat /\ start[j] \in Nat
    /\ \A j \in 1..(n - 1) :
          /\ IsPlace(mail, call[j], frame[j])
          /\ call[j + 1] = NextCall(mail, call[j], frame[j])
          /\ frame[j + 1] = NextFrame(mail, call[j], frame[j])
          /\ start[j + 1] = start[j] + Len(Frame(mail, call[j], frame[j]))
    /\ \A j \in 1..n : start[j] <= start[n] /\ call[j] <= call[n]

\* The stream s is what is left of a route from the h-th frame on, and e cells of the
\* frame it ends at.
Covers(mail, s, n, h, call, frame, start, e) ==
    /\ h \in 1..n
    /\ e \in Nat
    /\ e > 0 => IsPlace(mail, call[n], frame[n]) /\ e < Len(Frame(mail, call[n], frame[n]))
    /\ Len(s) = start[n] - start[h] + e
    /\ \A j \in h..n : \A x \in 1..Len(s) :
          LET y == x - (start[j] - start[h]) IN
          y >= 1 /\ y <= Len(Frame(mail, call[j], frame[j])) => s[x] = Frame(mail, call[j], frame[j])[y]

\* The stream s leads from <<k, i>> to e cells into the frame at <<kk, ii>>.
Leads(mail, s, k, i, kk, ii, e) ==
    \E n, h, call, frame, start :
        /\ Route(mail, n, call, frame, start) /\ Covers(mail, s, n, h, call, frame, start, e)
        /\ call[h] = k /\ frame[h] = i /\ call[n] = kk /\ frame[n] = ii

\* The frame at a place, and its header.
LEMMA FrameAtPlace ==
    ASSUME NEW mail \in Mail, NEW k, NEW i, IsPlace(mail, k, i)
    PROVE  /\ mail[k].message \in Nat /\ mail[k].size \in Nat \ {0} /\ k \in Nat \ {0} /\ i \in Nat \ {0}
           /\ Count(mail, k) \in Nat \ {0}
           /\ Frame(mail, k, i) \in Seq(Cells) /\ Len(Frame(mail, k, i)) \in Nat \ {0}
<1>1. mail \in Seq([message : Nat, size : Nat \ {0}]) /\ Len(mail) \in Nat
  BY LenProperties DEF Mail
<1>2. k \in 1..Len(mail) /\ k \in Nat \ {0}
  BY <1>1 DEF IsPlace
<1>. DEFINE letter == mail[k]
<1>. HIDE DEF letter
<1>3. letter \in [message : Nat, size : Nat \ {0}]
  BY <1>1, <1>2, ElementOfSeq DEF letter
<1>4. mail[k].message \in Nat /\ mail[k].size \in Nat \ {0}
  BY <1>3 DEF letter
<1>. DEFINE frames == FramesOf(Content(mail[k].message, mail[k].size))
<1>5. /\ frames \in Seq(Seq(Cells)) /\ frames # <<>>
      /\ \A j \in 1..Len(frames) : frames[j] \in Seq(Cells) /\ frames[j] # <<>>
  BY <1>4, MessageFrames
<1>6. Count(mail, k) = Len(frames) /\ Frame(mail, k, i) = frames[i]
  BY DEF Count, Frame
<1>. HIDE DEF frames
<1>7. Len(frames) \in Nat \ {0}
  BY <1>5, EmptySeq
<1>8. i \in 1..Len(frames)
  BY <1>6 DEF IsPlace
<1>9. Frame(mail, k, i) \in Seq(Cells) /\ Frame(mail, k, i) # <<>>
  BY <1>5, <1>6, <1>8
<1>. QED  BY <1>2, <1>6, <1>7, <1>8, <1>9, <1>4, EmptySeq

\* Before anything is written the stream is empty.
LEMMA EmptyStream ==
    ASSUME NEW mail \in Mail
    PROVE  Leads(mail, <<>>, 1, 1, 1, 1, 0)
<1>. DEFINE one == [j \in 1..1 |-> 1]
            zero == [j \in 1..1 |-> 0]
<1>1. Route(mail, 1, one, one, zero)
  BY DEF Route
<1>2. Covers(mail, <<>>, 1, 1, one, one, zero, 0)
  BY DEF Covers
<1>3. one[1] = 1
  OBVIOUS
<1>. HIDE DEF one, zero
<1>. QED  BY <1>1, <1>2, <1>3 DEF Leads

\* Where a frame of a route ends, in numbers.
LEMMA RouteSteps ==
    ASSUME NEW mail \in Mail, NEW n, NEW call, NEW frame, NEW start, Route(mail, n, call, frame, start)
    PROVE  /\ n \in Nat \ {0}
           /\ \A j \in 1..n : start[j] \in Nat /\ start[j] <= start[n]
           /\ \A j \in 1..n : j # n =>
                 /\ j + 1 \in 1..n /\ IsPlace(mail, call[j], frame[j])
                 /\ Len(Frame(mail, call[j], frame[j])) \in Nat \ {0}
                 /\ start[j + 1] = start[j] + Len(Frame(mail, call[j], frame[j]))
                 /\ start[j] + Len(Frame(mail, call[j], frame[j])) <= start[n]
<1>1. /\ n \in Nat \ {0}
      /\ \A j \in 1..n : start[j] \in Nat /\ start[j] <= start[n]
  BY DEF Route
<1>2. ASSUME NEW j \in 1..n, j # n
      PROVE  /\ j + 1 \in 1..n /\ IsPlace(mail, call[j], frame[j])
             /\ Len(Frame(mail, call[j], frame[j])) \in Nat \ {0}
             /\ start[j + 1] = start[j] + Len(Frame(mail, call[j], frame[j]))
             /\ start[j] + Len(Frame(mail, call[j], frame[j])) <= start[n]
  <2>1. j \in 1..(n - 1) /\ j + 1 \in 1..n
    BY <1>1, <1>2
  <2>2. IsPlace(mail, call[j], frame[j]) /\ start[j + 1] = start[j] + Len(Frame(mail, call[j], frame[j]))
    BY <2>1 DEF Route
  <2>3. start[j + 1] <= start[n]
    BY <1>1, <2>1
  <2>. QED  BY <2>1, <2>2, <2>3, FrameAtPlace
<1>. QED  BY <1>1, <1>2

\* One more frame at the end of a route.
LEMMA RouteExtended ==
    ASSUME NEW mail \in Mail, NEW n, NEW call, NEW frame, NEW start,
           Route(mail, n, call, frame, start), IsPlace(mail, call[n], frame[n])
    PROVE  \E call2, frame2, start2 :
             /\ Route(mail, n + 1, call2, frame2, start2)
             /\ \A j \in 1..n : call2[j] = call[j] /\ frame2[j] = frame[j] /\ start2[j] = start[j]
             /\ call2[n + 1] = NextCall(mail, call[n], frame[n])
             /\ frame2[n + 1] = NextFrame(mail, call[n], frame[n])
             /\ start2[n + 1] = start[n] + Len(Frame(mail, call[n], frame[n]))
<1>1. /\ n \in Nat \ {0}
      /\ \A j \in 1..n : call[j] \in Nat /\ frame[j] \in Nat /\ start[j] \in Nat
      /\ \A j \in 1..n : start[j] <= start[n] /\ call[j] <= call[n]
  BY DEF Route
<1>2. Len(Frame(mail, call[n], frame[n])) \in Nat
  BY FrameAtPlace
<1>. DEFINE len == Len(Frame(mail, call[n], frame[n]))
            nc == NextCall(mail, call[n], frame[n])
            nf == NextFrame(mail, call[n], frame[n])
            call2 == [j \in 1..(n + 1) |-> IF j <= n THEN call[j] ELSE nc]
            frame2 == [j \in 1..(n + 1) |-> IF j <= n THEN frame[j] ELSE nf]
            start2 == [j \in 1..(n + 1) |-> IF j <= n THEN start[j] ELSE start[n] + len]
<1>3. n \in 1..n /\ n + 1 \in 1..(n + 1) /\ ~(n + 1 <= n)
      /\ \A j \in 1..n : j \in 1..(n + 1) /\ j <= n
  BY <1>1
<1>. HIDE DEF len, nc, nf
<1>4. /\ \A j \in 1..n : call2[j] = call[j] /\ frame2[j] = frame[j] /\ start2[j] = start[j]
      /\ call2[n + 1] = nc /\ frame2[n + 1] = nf /\ start2[n + 1] = start[n] + len
  BY <1>3
<1>. HIDE DEF call2, frame2, start2
<1>5. nc \in Nat /\ nf \in Nat /\ start[n] \in Nat /\ len \in Nat /\ call[n] \in Nat /\ call[n] <= nc
  BY <1>1, <1>2, <1>3 DEF nc, nf, len, NextCall, NextFrame
<1>6. \A j \in 1..(n + 1) : call2[j] \in Nat /\ frame2[j] \in Nat /\ start2[j] \in Nat
                            /\ start2[j] <= start2[n + 1] /\ call2[j] <= call2[n + 1]
  <2>. TAKE j \in 1..(n + 1)
  <2>1. j = n + 1 \/ j \in 1..n
    BY <1>1
  <2>. QED  BY <1>1, <1>4, <1>5, <2>1
<1>7. ASSUME NEW j \in 1..n
      PROVE  /\ IsPlace(mail, call2[j], frame2[j])
             /\ call2[j + 1] = NextCall(mail, call2[j], frame2[j])
             /\ frame2[j + 1] = NextFrame(mail, call2[j], frame2[j])
             /\ start2[j + 1] = start2[j] + Len(Frame(mail, call2[j], frame2[j]))
  <2>1. CASE j = n
    BY <1>4, <2>1 DEF nc, nf, len
  <2>2. CASE j # n
    <3>1. j \in 1..(n - 1) /\ j + 1 \in 1..n
      BY <1>1, <2>2
    <3>2. /\ IsPlace(mail, call[j], frame[j])
          /\ call[j + 1] = NextCall(mail, call[j], frame[j])
          /\ frame[j + 1] = NextFrame(mail, call[j], frame[j])
          /\ start[j + 1] = start[j] + Len(Frame(mail, call[j], frame[j]))
      BY <3>1 DEF Route
    <3>. QED  BY <1>4, <3>1, <3>2
  <2>. QED  BY <2>1, <2>2
<1>8. Route(mail, n + 1, call2, frame2, start2)
  <2>1. n + 1 \in Nat \ {0} /\ (n + 1) - 1 = n
    BY <1>1
  <2>. QED  BY <1>6, <1>7, <2>1 DEF Route
<1>. QED  BY <1>4, <1>8 DEF nc, nf, len

\* The reader is not ahead of the writer.
LEMMA ReaderBehind ==
    ASSUME NEW mail \in Mail, NEW s, NEW k, NEW i, NEW kk, NEW ii, NEW e, Leads(mail, s, k, i, kk, ii, e)
    PROVE  k \in Nat /\ i \in Nat /\ kk \in Nat /\ ii \in Nat /\ k <= kk
<1>1. PICK n, h, call, frame, start :
        /\ Route(mail, n, call, frame, start) /\ Covers(mail, s, n, h, call, frame, start, e)
        /\ call[h] = k /\ frame[h] = i /\ call[n] = kk /\ frame[n] = ii
  BY DEF Leads
<1>2. h \in 1..n /\ n \in Nat \ {0}
  BY <1>1 DEF Covers, Route
<1>. QED  BY <1>1, <1>2 DEF Route

\* A frame that is written leads one place on.
LEMMA WholeWritten ==
    ASSUME NEW mail \in Mail, NEW s \in Seq(Cells), NEW k, NEW i, NEW kk, NEW ii,
           Leads(mail, s, k, i, kk, ii, 0), IsPlace(mail, kk, ii)
    PROVE  Leads(mail, s \o Frame(mail, kk, ii), k, i, NextCall(mail, kk, ii), NextFrame(mail, kk, ii), 0)
<1>1. PICK n, h, call, frame, start :
        /\ Route(mail, n, call, frame, start) /\ Covers(mail, s, n, h, call, frame, start, 0)
        /\ call[h] = k /\ frame[h] = i /\ call[n] = kk /\ frame[n] = ii
  BY DEF Leads
<1>. DEFINE f == Frame(mail, kk, ii)
            t == s \o f
<1>2. PICK call2, frame2, start2 :
        /\ Route(mail, n + 1, call2, frame2, start2)
        /\ \A j \in 1..n : call2[j] = call[j] /\ frame2[j] = frame[j] /\ start2[j] = start[j]
        /\ call2[n + 1] = NextCall(mail, kk, ii) /\ frame2[n + 1] = NextFrame(mail, kk, ii)
        /\ start2[n + 1] = start[n] + Len(f)
  BY <1>1, RouteExtended
<1>. HIDE DEF f, t
<1>3. f \in Seq(Cells) /\ Len(f) \in Nat
  BY FrameAtPlace DEF f
<1>4. /\ Len(t) = Len(s) + Len(f) /\ Len(s) \in Nat
      /\ \A x \in 1..Len(s) : t[x] = s[x]
      /\ \A x \in 1..Len(f) : t[Len(s) + x] = f[x]
  BY <1>3, Concat DEF t
<1>5. n \in Nat \ {0} /\ h \in 1..n /\ Len(s) = start[n] - start[h]
      /\ start[n] \in Nat /\ start[h] \in Nat
  <2>1. n \in Nat \ {0} /\ \A j \in 1..n : start[j] \in Nat
    BY <1>1, RouteSteps
  <2>2. h \in 1..n /\ Len(s) = start[n] - start[h] + 0
    BY <1>1 DEF Covers
  <2>. QED  BY <2>1, <2>2
<1>6. Len(t) = start2[n + 1] - start2[h] + 0 /\ start2[h] = start[h] /\ h \in 1..(n + 1)
  BY <1>2, <1>3, <1>4, <1>5
<1>7. ASSUME NEW j \in h..(n + 1), NEW x \in 1..Len(t),
              x - (start2[j] - start2[h]) >= 1,
              x - (start2[j] - start2[h]) <= Len(Frame(mail, call2[j], frame2[j]))
      PROVE  t[x] = Frame(mail, call2[j], frame2[j])[x - (start2[j] - start2[h])]
  <2>1. j # n + 1
    <3>1. start2[n + 1] \in Nat /\ start2[h] \in Nat
      BY <1>2, <1>3, <1>5, <1>6
    <3>2. Len(t) = start2[n + 1] - start2[h]
      BY <1>6, <3>1
    <3>. SUFFICES ASSUME j = n + 1 PROVE FALSE
      OBVIOUS
    <3>3. x - (start2[n + 1] - start2[h]) >= 1
      BY <1>7
    <3>. QED  BY <3>1, <3>2, <3>3
  <2>2. j \in h..n /\ j \in 1..n
    BY <1>5, <2>1
  <2>3. start2[j] = start[j] /\ call2[j] = call[j] /\ frame2[j] = frame[j]
    BY <1>2, <2>2
  <2>4. start[j] \in Nat
    BY <1>1, <2>2, RouteSteps
  <2>5. CASE x <= Len(s)
    <3>1. x \in 1..Len(s) /\ t[x] = s[x]
      BY <1>4, <2>5
    <3>2. s[x] = Frame(mail, call[j], frame[j])[x - (start[j] - start[h])]
      BY <1>1, <1>6, <1>7, <2>2, <2>3, <3>1 DEF Covers
    <3>. QED  BY <1>6, <2>3, <3>1, <3>2
  <2>6. CASE x > Len(s)
    <3>1. j = n
      <4>. SUFFICES ASSUME j # n PROVE FALSE
        OBVIOUS
      <4>1. Len(Frame(mail, call[j], frame[j])) \in Nat
            /\ start[j] + Len(Frame(mail, call[j], frame[j])) <= start[n]
        BY <1>1, <2>2, RouteSteps
      <4>2. x - (start[j] - start[h]) <= Len(Frame(mail, call[j], frame[j]))
        BY <1>6, <1>7, <2>3
      <4>3. /\ x \in Int /\ x > start[n] - start[h]
            /\ start[j] \in Nat /\ start[n] \in Nat /\ start[h] \in Nat
        BY <1>5, <2>4, <2>6
      <4>. QED  BY <4>1, <4>2, <4>3
    <3>2. x - Len(s) \in 1..Len(f) /\ Len(s) + (x - Len(s)) = x
      BY <1>3, <1>4, <2>6
    <3>3. t[x] = f[x - Len(s)]
      BY <1>4, <3>2
    <3>4. x - (start2[j] - start2[h]) = x - Len(s)
      BY <1>5, <1>6, <2>3, <3>1
    <3>. QED  BY <1>1, <2>3, <3>1, <3>3, <3>4 DEF f
  <2>. QED  BY <1>4, <2>5, <2>6
<1>8. Covers(mail, t, n + 1, h, call2, frame2, start2, 0)
  BY <1>6, <1>7 DEF Covers
<1>9. call2[h] = k /\ frame2[h] = i
  BY <1>1, <1>2, <1>5
<1>. QED  BY <1>2, <1>8, <1>9 DEF Leads, t, f

\* A write that fails leaves a part of the frame.
LEMMA PartWritten ==
    ASSUME NEW mail \in Mail, NEW s \in Seq(Cells), NEW k, NEW i, NEW kk, NEW ii,
           Leads(mail, s, k, i, kk, ii, 0), IsPlace(mail, kk, ii),
           NEW e \in Nat, e < Len(Frame(mail, kk, ii))
    PROVE  Leads(mail, s \o SubSeq(Frame(mail, kk, ii), 1, e), k, i, kk, ii, e)
<1>1. PICK n, h, call, frame, start :
        /\ Route(mail, n, call, frame, start) /\ Covers(mail, s, n, h, call, frame, start, 0)
        /\ call[h] = k /\ frame[h] = i /\ call[n] = kk /\ frame[n] = ii
  BY DEF Leads
<1>. DEFINE f == Frame(mail, kk, ii)
            g == SubSeq(f, 1, e)
            t == s \o g
<1>. HIDE DEF f, g, t
<1>2. f \in Seq(Cells) /\ Len(f) \in Nat /\ e < Len(f)
  BY FrameAtPlace DEF f
<1>3. g \in Seq(Cells) /\ Len(g) = e /\ \A x \in 1..e : g[x] = f[x]
  <2>1. \A x \in 1..e : f[x] \in Cells
    BY <1>2, ElementOfSeq
  <2>2. /\ g \in Seq(Cells) /\ Len(g) = IF 1 <= e THEN e - 1 + 1 ELSE 0
        /\ \A x \in 1..(e - 1 + 1) : g[x] = f[1 + x - 1]
    BY <2>1, SubSeqProperties DEF g
  <2>. QED  BY <2>2
<1>4. /\ Len(t) = Len(s) + e /\ Len(s) \in Nat
      /\ \A x \in 1..Len(s) : t[x] = s[x]
      /\ \A x \in 1..e : t[Len(s) + x] = f[x]
  <2>1. /\ Len(t) = Len(s) + Len(g) /\ Len(s) \in Nat
        /\ \A x \in 1..Len(s) : t[x] = s[x]
        /\ \A x \in 1..Len(g) : t[Len(s) + x] = g[x]
    <3>1. g \in Seq(Cells)
      BY <1>3
    <3>. QED  BY <3>1, Concat DEF t
  <2>. QED  BY <1>3, <2>1
<1>5. n \in Nat \ {0} /\ h \in 1..n /\ Len(s) = start[n] - start[h]
      /\ start[n] \in Nat /\ start[h] \in Nat
  <2>1. n \in Nat \ {0} /\ \A j \in 1..n : start[j] \in Nat
    BY <1>1, RouteSteps
  <2>2. h \in 1..n /\ Len(s) = start[n] - start[h] + 0
    BY <1>1 DEF Covers
  <2>. QED  BY <2>1, <2>2
<1>6. Len(t) = start[n] - start[h] + e
  BY <1>4, <1>5
<1>7. ASSUME NEW j \in h..n, NEW x \in 1..Len(t),
              x - (start[j] - start[h]) >= 1,
              x - (start[j] - start[h]) <= Len(Frame(mail, call[j], frame[j]))
      PROVE  t[x] = Frame(mail, call[j], frame[j])[x - (start[j] - start[h])]
  <2>1. j \in 1..n
    BY <1>5
  <2>2. start[j] \in Nat
    BY <1>1, <2>1, RouteSteps
  <2>3. CASE x <= Len(s)
    <3>1. x \in 1..Len(s) /\ t[x] = s[x]
      BY <1>4, <2>3
    <3>2. s[x] = Frame(mail, call[j], frame[j])[x - (start[j] - start[h])]
      BY <1>1, <1>7, <3>1 DEF Covers
    <3>. QED  BY <3>1, <3>2
  <2>4. CASE x > Len(s)
    <3>1. j = n
      <4>. SUFFICES ASSUME j # n PROVE FALSE
        OBVIOUS
      <4>1. Len(Frame(mail, call[j], frame[j])) \in Nat
            /\ start[j] + Len(Frame(mail, call[j], frame[j])) <= start[n]
        BY <1>1, <2>1, RouteSteps
      <4>2. x - (start[j] - start[h]) <= Len(Frame(mail, call[j], frame[j]))
        BY <1>7
      <4>3. /\ x \in Int /\ x > start[n] - start[h]
            /\ start[j] \in Nat /\ start[n] \in Nat /\ start[h] \in Nat
        BY <1>5, <2>2, <2>4
      <4>. DEFINE a == start[j]
                  b == start[h]
                  z == start[n]
                  len == Len(Frame(mail, call[j], frame[j]))
      <4>. HIDE DEF a, b, z, len
      <4>4. /\ len \in Nat /\ a \in Nat /\ z \in Nat /\ b \in Nat /\ x \in Int
            /\ a + len <= z /\ x - (a - b) <= len /\ x > z - b
        BY <4>1, <4>2, <4>3 DEF a, b, z, len
      <4>. HIDE DEF t
      <4>. QED  BY <4>4
    <3>2. x - Len(s) \in 1..e /\ Len(s) + (x - Len(s)) = x
      BY <1>4, <2>4
    <3>3. t[x] = f[x - Len(s)]
      BY <1>4, <3>2
    <3>4. x - (start[j] - start[h]) = x - Len(s)
      BY <1>5, <3>1
    <3>. QED  BY <1>1, <3>1, <3>3, <3>4 DEF f
  <2>. QED  BY <1>4, <2>3, <2>4
<1>8. Covers(mail, t, n, h, call, frame, start, e)
  <2>1. h \in 1..n /\ IsPlace(mail, call[n], frame[n]) /\ e < Len(Frame(mail, call[n], frame[n]))
    BY <1>1, <1>5
  <2>. QED  BY <1>6, <1>7, <2>1 DEF Covers
<1>. QED  BY <1>1, <1>8 DEF Leads, t, f, g

\* A stream begins with the frame at its place, or with a part of it; behind a whole
\* frame it goes on at the next place.
LEMMA FrontOfStream ==
    ASSUME NEW mail \in Mail, NEW s \in Seq(Cells), s # <<>>, NEW k, NEW i, NEW kk, NEW ii, NEW e,
           Leads(mail, s, k, i, kk, ii, e)
    PROVE  LET f == Frame(mail, k, i) IN
           /\ IsPlace(mail, k, i)
           /\ \A x \in 1..Len(s) : x <= Len(f) => s[x] = f[x]
           /\ Len(s) >= Len(f) =>
                Leads(mail, SubSeq(s, Len(f) + 1, Len(s)), NextCall(mail, k, i), NextFrame(mail, k, i), kk, ii, e)
<1>1. PICK n, h, call, frame, start :
        /\ Route(mail, n, call, frame, start) /\ Covers(mail, s, n, h, call, frame, start, e)
        /\ call[h] = k /\ frame[h] = i /\ call[n] = kk /\ frame[n] = ii
  BY DEF Leads
<1>. DEFINE f == Frame(mail, k, i)
<1>2. /\ n \in Nat \ {0} /\ h \in 1..n /\ e \in Nat
      /\ start[n] \in Nat /\ start[h] \in Nat
      /\ Len(s) = start[n] - start[h] + e
      /\ e > 0 => IsPlace(mail, kk, ii) /\ e < Len(Frame(mail, kk, ii))
  <2>1. n \in Nat \ {0} /\ \A j \in 1..n : start[j] \in Nat
    BY <1>1, RouteSteps
  <2>2. h \in 1..n /\ e \in Nat /\ Len(s) = start[n] - start[h] + e
        /\ (e > 0 => IsPlace(mail, kk, ii) /\ e < Len(Frame(mail, kk, ii)))
    BY <1>1 DEF Covers
  <2>. QED  BY <2>1, <2>2
<1>3. Len(s) \in Nat \ {0}
  BY EmptySeq
<1>4. IsPlace(mail, k, i)
  <2>1. CASE h = n
    BY <1>1, <1>2, <1>3, <2>1
  <2>2. CASE h # n
    BY <1>1, <1>2, <2>2, RouteSteps
  <2>. QED  BY <2>1, <2>2
<1>5. f \in Seq(Cells) /\ Len(f) \in Nat \ {0}
  BY <1>4, FrameAtPlace
<1>6. ASSUME NEW x \in 1..Len(s), x <= Len(f) PROVE s[x] = f[x]
  <2>1. x - (start[h] - start[h]) = x /\ x >= 1 /\ h \in h..n
    BY <1>2
  <2>. QED  BY <1>1, <1>6, <2>1 DEF Covers
<1>7. ASSUME Len(s) >= Len(f)
      PROVE  Leads(mail, SubSeq(s, Len(f) + 1, Len(s)), NextCall(mail, k, i), NextFrame(mail, k, i), kk, ii, e)
  <2>1. h # n
    BY <1>1, <1>2, <1>5, <1>7
  <2>2. /\ h + 1 \in 1..n /\ start[h + 1] = start[h] + Len(f)
        /\ start[h + 1] <= start[n] /\ start[h + 1] \in Nat
    <3>1. h + 1 \in 1..n /\ start[h + 1] = start[h] + Len(Frame(mail, call[h], frame[h]))
      <4>1. \A j \in 1..n : j # n =>
               j + 1 \in 1..n /\ start[j + 1] = start[j] + Len(Frame(mail, call[j], frame[j]))
        BY <1>1, RouteSteps
      <4>2. h \in 1..n /\ h # n
        BY <1>2, <2>1
      <4>. QED  BY <4>1, <4>2
    <3>2. start[h + 1] <= start[n] /\ start[h + 1] \in Nat
      BY <1>1, <3>1, RouteSteps
    <3>. QED  BY <1>1, <3>1, <3>2
  <2>3. call[h + 1] = NextCall(mail, k, i) /\ frame[h + 1] = NextFrame(mail, k, i)
    <3>1. h \in 1..(n - 1)
      BY <1>2, <2>1
    <3>. QED  BY <1>1, <3>1 DEF Route
  <2>. DEFINE t == SubSeq(s, Len(f) + 1, Len(s))
  <2>4. Len(t) = Len(s) - Len(f) /\ \A x \in 1..Len(t) : t[x] = s[x + Len(f)]
    <3>1. \A x \in (Len(f) + 1)..Len(s) : s[x] \in Cells
      BY <1>5, ElementOfSeq
    <3>. HIDE DEF f
    <3>2. /\ Len(t) = IF Len(f) + 1 <= Len(s) THEN Len(s) - (Len(f) + 1) + 1 ELSE 0
          /\ \A x \in 1..(Len(s) - (Len(f) + 1) + 1) : t[x] = s[Len(f) + 1 + x - 1]
      BY <1>3, <1>5, <3>1, SubSeqProperties
    <3>3. Len(t) = Len(s) - Len(f) /\ Len(s) - (Len(f) + 1) + 1 = Len(s) - Len(f)
      BY <1>3, <1>5, <1>7, <3>2
    <3>4. \A x \in 1..Len(t) : Len(f) + 1 + x - 1 = x + Len(f)
      BY <1>5
    <3>. QED  BY <3>2, <3>3, <3>4
  <2>. HIDE DEF f, t
  <2>5. Len(t) = start[n] - start[h + 1] + e
    <3>1. Len(f) \in Nat /\ e \in Nat /\ start[n] \in Nat /\ start[h] \in Nat
      BY <1>2, <1>5
    <3>2. Len(s) = start[n] - start[h] + e
      BY <1>2
    <3>3. start[h + 1] = start[h] + Len(f) /\ Len(t) = Len(s) - Len(f)
      BY <2>2, <2>4
    <3>. QED  BY <3>1, <3>2, <3>3
  <2>6. ASSUME NEW j \in (h + 1)..n, NEW x \in 1..Len(t),
                x - (start[j] - start[h + 1]) >= 1,
                x - (start[j] - start[h + 1]) <= Len(Frame(mail, call[j], frame[j]))
        PROVE  t[x] = Frame(mail, call[j], frame[j])[x - (start[j] - start[h + 1])]
    <3>1. j \in h..n /\ j \in 1..n
      BY <1>2
    <3>2. start[j] \in Nat
      BY <1>1, <3>1, RouteSteps
    <3>3. x + Len(f) \in 1..Len(s)
          /\ (x + Len(f)) - (start[j] - start[h]) = x - (start[j] - start[h + 1])
      <4>1. Len(f) \in Nat /\ start[h] \in Nat /\ Len(s) \in Nat
        BY <1>2, <1>3, <1>5
      <4>2. start[h + 1] = start[h] + Len(f) /\ Len(t) = Len(s) - Len(f)
        BY <2>2, <2>4
      <4>. QED  BY <3>2, <4>1, <4>2
    <3>4. s[x + Len(f)] = Frame(mail, call[j], frame[j])[(x + Len(f)) - (start[j] - start[h])]
      BY <1>1, <2>6, <3>1, <3>3 DEF Covers
    <3>. QED  BY <2>4, <3>3, <3>4
  <2>7. Covers(mail, t, n, h + 1, call, frame, start, e)
    BY <1>1, <1>2, <2>2, <2>5, <2>6 DEF Covers
  <2>. QED  BY <1>1, <2>3, <2>7 DEF Leads, t
<1>. QED  BY <1>4, <1>6, <1>7

-----------------------------------------------------------------------------
(* One turn of the loop over the buffer, on a buffer that begins with a      *)
(* frame or a part of one.                                                   *)

Reassembly == [buffer : Seq(Cells), received : Nat, nextOffset : Nat]

\* The cells of a subsequence.
LEMMA Slice ==
    ASSUME NEW S, NEW s \in Seq(S), NEW a \in Nat \ {0}, NEW b \in Nat, b <= Len(s)
    PROVE  /\ SubSeq(s, a, b) \in Seq(S)
           /\ Len(SubSeq(s, a, b)) = IF a <= b THEN b - a + 1 ELSE 0
           /\ \A x \in 1..(b - a + 1) : SubSeq(s, a, b)[x] = s[a + x - 1]
<1>1. Len(s) \in Nat
  BY LenProperties
<1>2. \A x \in a..b : s[x] \in S
  <2>. TAKE x \in a..b
  <2>1. x \in 1..Len(s)
    BY <1>1
  <2>. QED  BY <2>1, ElementOfSeq
<1>. QED  BY <1>2, SubSeqProperties

\* The outcome of a turn.
LEMMA TurnFields ==
    ASSUME NEW v, NEW q, NEW p, NEW d, NEW o, o = Turn(v, q, p, d)
    PROVE  o.verdict = v /\ o.raw = q /\ o.re = p /\ o.data = d
BY DEF Turn

LEMMA TurnTypes ==
    ASSUME NEW v, NEW q \in Seq(Cells), NEW p \in Reassembly, NEW d, d = <<>> \/ d \in Seq(Cells),
           NEW o, o = Turn(v, q, p, d)
    PROVE  o.raw = q /\ o.raw \in Seq(Cells) /\ o.re \in Reassembly /\ o.data \in Seq(Cells)
<1>1. d \in Seq(Cells)
  <2>1. <<>> \in Seq(Cells)
    OBVIOUS
  <2>. QED  BY <2>1, Zenon
<1>2. o.raw = q /\ o.re = p /\ o.data = d
  BY TurnFields
<1>. QED  BY <1>1, <1>2

\* A fragment leaves the reassembly with a buffer and two numbers.
LEMMA TakeFragmentTypes ==
    ASSUME NEW body \in Seq(Cells), NEW rest \in Seq(Cells), NEW p \in Reassembly
    PROVE  LET o == TakeFragment(body, rest, p) IN
           o.raw = rest /\ o.re \in Reassembly /\ o.data \in Seq(Cells)
<1>. DEFINE total == Head(body).a
            offset == Head(body).b
            begun == IF offset = 0
                     THEN [buffer |-> [x \in 1..total |-> Blank], received |-> 0, nextOffset |-> 0]
                     ELSE p
            next == Copied(begun, offset, Tail(body))
            o == TakeFragment(body, rest, p)
<1>1. CASE ~LawfulPart(body)
  <2>1. o = Turn("bad", rest, p, <<>>)
    BY <1>1 DEF TakeFragment
  <2>. QED  BY <2>1 DEF Turn
<1>2. CASE LawfulPart(body)
  <2>1. /\ body # <<>> /\ Head(body) \in Cells
        /\ Tail(body) \in Seq(Cells) /\ Len(Tail(body)) \in Nat
        /\ \A x \in 1..Len(Tail(body)) : Tail(body)[x] \in Cells
    BY <1>2, Taken, LenProperties, ElementOfSeq DEF LawfulPart
  <2>2. total \in Nat /\ offset \in Nat
    BY <2>1 DEF Cells
  <2>. DEFINE ch == Tail(body)
  <2>. HIDE DEF ch, total, offset
  <2>3. Blank \in Cells
    BY DEF Blank, Cell, Cells
  <2>4. [x \in 1..total |-> Blank] \in Seq(Cells)
    BY <2>2, <2>3
  <2>5. begun \in Reassembly
    BY <2>4 DEF Reassembly
  <2>. HIDE DEF begun
  <2>6. /\ begun.buffer \in Seq(Cells) /\ begun.received \in Nat
        /\ Len(begun.buffer) \in Nat /\ DOMAIN begun.buffer = 1..Len(begun.buffer)
        /\ \A x \in 1..Len(begun.buffer) : begun.buffer[x] \in Cells
    BY <2>5, LenProperties, ElementOfSeq DEF Reassembly
  <2>. DEFINE buf == [x \in 1..Len(begun.buffer) |->
                        IF x \in offset + 1 .. offset + Len(ch) THEN ch[x - offset]
                        ELSE begun.buffer[x]]
  <2>7. buf \in Seq(Cells)
    <3>1. \A x \in 1..Len(begun.buffer) : buf[x] \in Cells
      <4>. TAKE x \in 1..Len(begun.buffer)
      <4>1. CASE x \in offset + 1 .. offset + Len(ch)
        <5>1. x - offset \in 1..Len(ch)
          BY <4>1, <2>1, <2>2 DEF ch
        <5>. QED  BY <4>1, <5>1, <2>1 DEF ch
      <4>2. CASE x \notin offset + 1 .. offset + Len(ch)
        BY <4>2, <2>6
      <4>. QED  BY <4>1, <4>2
    <3>2. buf \in [1..Len(begun.buffer) -> Cells]
      BY <3>1
    <3>. QED  BY <2>6, <3>2
  <2>8. next = [buffer |-> buf, received |-> begun.received + Len(ch), nextOffset |-> offset + Len(ch)]
    BY <2>6 DEF Copied, ch
  <2>. HIDE DEF buf, next
  <2>9. next \in Reassembly /\ next.buffer \in Seq(Cells)
    <3>1. begun.received + Len(ch) \in Nat /\ offset + Len(ch) \in Nat
      BY <2>1, <2>2, <2>6 DEF ch
    <3>. QED  BY <2>7, <2>8, <3>1 DEF Reassembly
  <2>10. /\ NoFragments \in Reassembly
         /\ \/ o = Turn("bad", rest, begun, <<>>)
            \/ o = Turn("message", rest, NoFragments, next.buffer)
            \/ o = Turn("part", rest, next, <<>>)
    <3>1. NoFragments \in Reassembly
      BY DEF NoFragments, Reassembly
    <3>. QED  BY <1>2, <3>1 DEF TakeFragment, next, begun, offset, total
  <2>. HIDE DEF o
  <2>11. o = Turn("bad", rest, begun, <<>>)
          => o.raw = rest /\ o.re \in Reassembly /\ o.data \in Seq(Cells)
    BY <2>5, TurnTypes
  <2>12. o = Turn("message", rest, NoFragments, next.buffer)
          => o.raw = rest /\ o.re \in Reassembly /\ o.data \in Seq(Cells)
    BY <2>9, <2>10, TurnTypes
  <2>13. o = Turn("part", rest, next, <<>>)
          => o.raw = rest /\ o.re \in Reassembly /\ o.data \in Seq(Cells)
    BY <2>9, TurnTypes
  <2>14. o.raw = rest /\ o.re \in Reassembly /\ o.data \in Seq(Cells)
    BY <2>10, <2>11, <2>12, <2>13
  <2>. QED  BY <2>14 DEF o
<1>. QED  BY <1>1, <1>2

\* A turn keeps the buffers what they are.
LEMMA TakeFrameTypes ==
    ASSUME NEW r \in Seq(Cells), NEW p \in Reassembly
    PROVE  LET o == TakeFrame(r, p) IN
           o.raw \in Seq(Cells) /\ o.re \in Reassembly /\ o.data \in Seq(Cells)
<1>. DEFINE size == Head(r).b
            body == SubSeq(r, 2, size + 1)
            rest == SubSeq(r, size + 2, Len(r))
            o == TakeFrame(r, p)
<1>1. \/ o = Turn("more", r, p, <<>>)
      \/ o = Turn("more", <<>>, p, <<>>)
      \/ /\ r # <<>> /\ ~(Len(r) <= size)
         /\ \/ o = Turn("message", rest, p, body)
            \/ o = TakeFragment(body, rest, p)
            \/ o = Turn("bad", rest, p, <<>>)
  BY DEF TakeFrame
<1>. HIDE DEF o
<1>. DEFINE none == <<>>
<1>2. none \in Seq(Cells)
  OBVIOUS
<1>4. CASE o = Turn("more", r, p, <<>>)
  BY <1>4, TurnTypes DEF o
<1>5. CASE o = Turn("more", <<>>, p, <<>>)
  <2>1. o = Turn("more", none, p, none)
    BY <1>5
  <2>. HIDE DEF none
  <2>2. o.raw \in Seq(Cells) /\ o.re \in Reassembly /\ o.data \in Seq(Cells)
    BY <1>2, <2>1, TurnTypes
  <2>. QED  BY <2>2 DEF o
<1>3. CASE /\ r # <<>> /\ ~(Len(r) <= size)
           /\ \/ o = Turn("message", rest, p, body)
              \/ o = TakeFragment(body, rest, p)
              \/ o = Turn("bad", rest, p, <<>>)
  <2>1. Head(r) \in Cells /\ Len(r) \in Nat
    BY <1>3, Taken
  <2>2. size \in Nat
    BY <2>1 DEF Cells
  <2>3. size + 1 <= Len(r) /\ size + 1 \in Nat /\ size + 2 \in Nat \ {0} /\ 2 \in Nat \ {0}
    BY <1>3, <2>1, <2>2
  <2>. HIDE DEF size
  <2>4. body \in Seq(Cells) /\ rest \in Seq(Cells)
    BY <2>1, <2>3, Slice
  <2>. HIDE DEF body, rest
  <2>5. CASE o = TakeFragment(body, rest, p)
    BY <2>4, <2>5, TakeFragmentTypes DEF o
  <2>6. CASE o = Turn("message", rest, p, body)
    BY <2>4, <2>6, TurnTypes DEF o
  <2>7. CASE o = Turn("bad", rest, p, <<>>)
    BY <2>4, <2>7, TurnTypes DEF o
  <2>. QED  BY <1>3, <2>5, <2>6, <2>7
<1>. QED  BY <1>1, <1>3, <1>4, <1>5

\* In front of its i-th fragment a message is assembled up to there.
Assembled(m, size, i, p) ==
    i > 1 =>
      /\ p.received = Offset(i) /\ p.nextOffset = Offset(i) /\ Len(p.buffer) = size
      /\ \A x \in 1..Offset(i) : p.buffer[x] = Content(m, size)[x]

\* The fragment is copied behind what there is; the last one completes the message.
LEMMA FragmentTaken ==
    ASSUME NEW m \in Nat, NEW size \in Nat \ {0}, size > FragmentChunkSize,
           NEW i \in 1..FrameCount(size), NEW p \in Reassembly, Assembled(m, size, i, p),
           NEW body \in Seq(Cells), Len(body) = ChunkLen(size, i) + 1,
           body[1] = Cell("part", size, Offset(i)),
           \A x \in 1..ChunkLen(size, i) : body[x + 1] = Content(m, size)[Offset(i) + x],
           NEW rest
    PROVE  LET o == TakeFragment(body, rest, p) IN
           /\ o.raw = rest /\ o.verdict \in {"bad", "message", "part"}
           /\ o.verdict = "message" =>
                 i = FrameCount(size) /\ o.data = Content(m, size) /\ o.re = NoFragments
           /\ o.verdict = "part" => i # FrameCount(size) /\ Assembled(m, size, i + 1, o.re)
<1>1. /\ Offset(i) \in Nat /\ ChunkLen(size, i) \in Nat \ {0} /\ FrameCount(size) \in Nat \ {0}
      /\ Offset(i) + ChunkLen(size, i) <= size
      /\ i = FrameCount(size) => Offset(i) + ChunkLen(size, i) = size
      /\ i # FrameCount(size) => Offset(i + 1) = Offset(i) + ChunkLen(size, i)
                                 /\ Offset(i + 1) < size
  <2>1. /\ FrameCount(size) \in Nat \ {0}
        /\ \A j \in 1..FrameCount(size) :
             /\ Offset(j) \in Nat /\ Offset(j) < size
             /\ ChunkLen(size, j) \in Nat \ {0}
             /\ Offset(j) + ChunkLen(size, j) <= size
             /\ IF j = FrameCount(size) THEN Offset(j) + ChunkLen(size, j) = size
                ELSE Offset(j + 1) = Offset(j) + ChunkLen(size, j)
    BY ChunkBounds
  <2>2. i # FrameCount(size) => i + 1 \in 1..FrameCount(size)
    BY <2>1
  <2>. QED  BY <2>1, <2>2
<1>2. Offset(i) = 0 <=> i = 1
  BY FrameAssumption DEF Offset
<1>3. /\ body # <<>> /\ Head(body) = body[1] /\ Tail(body) \in Seq(Cells)
      /\ Len(Tail(body)) = ChunkLen(size, i)
      /\ \A x \in 1..ChunkLen(size, i) : Tail(body)[x] = Content(m, size)[Offset(i) + x]
  <2>1. body # <<>>
    BY <1>1, EmptySeq
  <2>2. /\ Head(body) = body[1] /\ Tail(body) \in Seq(Cells)
        /\ Len(Tail(body)) = Len(body) - 1
        /\ \A x \in 1..(Len(body) - 1) : Tail(body)[x] = body[x + 1]
    BY <2>1, Taken
  <2>3. Len(body) - 1 = ChunkLen(size, i)
    BY <1>1
  <2>. QED  BY <2>1, <2>2, <2>3
<1>4. Head(body).a = size /\ Head(body).b = Offset(i)
  BY <1>3 DEF Cell
<1>. DEFINE ch == Tail(body)
            begun == IF Offset(i) = 0
                     THEN [buffer |-> [x \in 1..size |-> Blank], received |-> 0, nextOffset |-> 0]
                     ELSE p
            next == Copied(begun, Offset(i), ch)
            o == TakeFragment(body, rest, p)
<1>5. /\ \/ o = Turn("bad", rest, p, <<>>)
         \/ o = Turn("bad", rest, begun, <<>>)
         \/ IsComplete(next) /\ o = Turn("message", rest, NoFragments, next.buffer)
         \/ ~IsComplete(next) /\ o = Turn("part", rest, next, <<>>)
  BY <1>4 DEF TakeFragment
<1>. HIDE DEF ch, o
<1>6. /\ begun.buffer \in Seq(Cells) /\ Len(begun.buffer) = size
      /\ begun.received = Offset(i)
      /\ \A x \in 1..Offset(i) : begun.buffer[x] = Content(m, size)[x]
  <2>1. CASE i = 1
    <3>1. Blank \in Cells
      BY DEF Blank, Cell, Cells
    <3>. DEFINE blanks == [x \in 1..size |-> Blank]
    <3>2. blanks \in Seq(Cells) /\ Len(blanks) = size
      BY <3>1
    <3>. HIDE DEF blanks
    <3>3. begun = [buffer |-> blanks, received |-> 0, nextOffset |-> 0]
      BY <1>2, <2>1 DEF blanks
    <3>. QED  BY <1>2, <2>1, <3>2, <3>3
  <2>2. CASE i # 1
    <3>1. begun = p /\ i > 1
      BY <1>1, <1>2, <2>2
    <3>. QED  BY <3>1 DEF Assembled, Reassembly
  <2>. QED  BY <2>1, <2>2
<1>. HIDE DEF begun
<1>7. /\ next.buffer = [x \in 1..size |-> IF x \in Offset(i) + 1 .. Offset(i) + ChunkLen(size, i)
                                          THEN ch[x - Offset(i)] ELSE begun.buffer[x]]
      /\ next.received = Offset(i) + ChunkLen(size, i)
      /\ next.nextOffset = Offset(i) + ChunkLen(size, i)
  <2>1. DOMAIN begun.buffer = 1..size
    BY <1>6, LenProperties
  <2>2. Len(ch) = ChunkLen(size, i)
    BY <1>3 DEF ch
  <2>. QED  BY <1>6, <2>1, <2>2 DEF Copied
<1>. HIDE DEF next
<1>8. \A x \in 1..(Offset(i) + ChunkLen(size, i)) : x \in 1..size /\ next.buffer[x] = Content(m, size)[x]
  <2>. TAKE x \in 1..(Offset(i) + ChunkLen(size, i))
  <2>1. x \in 1..size
    BY <1>1
  <2>2. CASE x <= Offset(i)
    <3>1. x \in 1..Offset(i) /\ x \notin Offset(i) + 1 .. Offset(i) + ChunkLen(size, i)
      BY <1>1, <2>2
    <3>. QED  BY <1>6, <1>7, <2>1, <3>1
  <2>3. CASE x > Offset(i)
    <3>1. x - Offset(i) \in 1..ChunkLen(size, i) /\ Offset(i) + (x - Offset(i)) = x
          /\ x \in Offset(i) + 1 .. Offset(i) + ChunkLen(size, i)
      BY <1>1, <2>3
    <3>2. ch[x - Offset(i)] = Content(m, size)[x]
      BY <1>3, <3>1 DEF ch
    <3>. QED  BY <1>7, <2>1, <3>1, <3>2
  <2>. QED  BY <1>1, <2>2, <2>3
<1>9. next.buffer \in Seq(Cells) /\ Len(next.buffer) = size
  <2>1. \A x \in 1..size : next.buffer[x] \in Cells
    <3>. TAKE x \in 1..size
    <3>1. CASE x \in 1..(Offset(i) + ChunkLen(size, i))
      <4>1. Content(m, size) \in Seq(Cells) /\ Len(Content(m, size)) = size
        BY ContentCells
      <4>. QED  BY <1>8, <3>1, <4>1, ElementOfSeq
    <3>2. CASE x \notin 1..(Offset(i) + ChunkLen(size, i))
      <4>1. next.buffer[x] = begun.buffer[x]
        BY <1>1, <1>7, <3>2
      <4>. QED  BY <1>6, <4>1, ElementOfSeq
    <3>. QED  BY <3>1, <3>2
  <2>2. next.buffer \in [1..size -> Cells]
    BY <1>7, <2>1
  <2>. QED  BY <2>2
<1>10. CASE i = FrameCount(size)
  <2>1. next.buffer = Content(m, size)
    <3>1. Content(m, size) \in Seq(Cells) /\ Len(Content(m, size)) = size
      BY ContentCells
    <3>2. \A x \in 1..size : next.buffer[x] = Content(m, size)[x]
      BY <1>1, <1>8, <1>10
    <3>. QED  BY <1>9, <3>1, <3>2, SeqEqual
  <2>2. IsComplete(next)
    <3>1. next.buffer # <<>>
      BY <1>9, EmptySeq
    <3>. QED  BY <1>1, <1>7, <1>9, <1>10, <3>1 DEF IsComplete
  <2>3. /\ o.raw = rest /\ o.verdict \in {"bad", "message"}
        /\ o.verdict = "message" => o.data = Content(m, size) /\ o.re = NoFragments
    BY <1>5, <2>1, <2>2, TurnFields
  <2>. QED  BY <1>10, <2>3 DEF o
<1>11. CASE i # FrameCount(size)
  <2>1. ~IsComplete(next)
    BY <1>1, <1>7, <1>9, <1>11 DEF IsComplete
  <2>2. Assembled(m, size, i + 1, next)
    BY <1>1, <1>7, <1>8, <1>9, <1>11 DEF Assembled
  <2>3. /\ o.raw = rest /\ o.verdict \in {"bad", "part"}
        /\ o.verdict = "part" => o.re = next
    BY <1>5, <2>1, TurnFields
  <2>. QED  BY <1>11, <2>2, <2>3 DEF o
<1>. QED  BY <1>10, <1>11

\* The frame at a place: a whole message, or a fragment.
LEMMA FrameShape ==
    ASSUME NEW mail \in Mail, NEW k, NEW i, IsPlace(mail, k, i)
    PROVE  LET m == mail[k].message
               size == mail[k].size
               f == Frame(mail, k, i)
           IN
           /\ m \in Nat /\ size \in Nat \ {0}
           /\ \/ /\ size <= FragmentChunkSize /\ i = 1 /\ Count(mail, k) = 1
                 /\ Len(f) = size + 1 /\ f[1] = Cell("frame", MsgData, size)
                 /\ \A x \in 1..size : f[x + 1] = Content(m, size)[x]
              \/ /\ size > FragmentChunkSize /\ Count(mail, k) = FrameCount(size)
                 /\ i \in 1..FrameCount(size)
                 /\ Len(f) = ChunkLen(size, i) + 2
                 /\ f[1] = Cell("frame", MsgDataFragment, ChunkLen(size, i) + 1)
                 /\ f[2] = Cell("part", size, Offset(i))
                 /\ \A x \in 1..ChunkLen(size, i) : f[x + 2] = Content(m, size)[Offset(i) + x]
<1>. DEFINE m == mail[k].message
            size == mail[k].size
            frames == FramesOf(Content(m, size))
            f == Frame(mail, k, i)
<1>. HIDE DEF m, size, frames, f
<1>1. m \in Nat /\ size \in Nat \ {0}
  BY FrameAtPlace DEF m, size
<1>2. Count(mail, k) = Len(frames) /\ f = frames[i] /\ i \in 1..Count(mail, k)
  BY DEF Count, Frame, IsPlace, frames, f, m, size
<1>3. CASE size <= FragmentChunkSize
  <2>1. /\ frames = <<frames[1]>> /\ Len(frames[1]) = size + 1
        /\ frames[1][1] = Cell("frame", MsgData, size)
        /\ \A x \in 1..size : frames[1][x + 1] = Content(m, size)[x]
    BY <1>1, <1>3, WholeFrame DEF frames
  <2>2. Len(frames) = 1
    <3>. DEFINE g == frames[1]
    <3>. HIDE DEF g
    <3>1. frames = <<g>>
      BY <2>1 DEF g
    <3>2. Len(<<g>>) = 1
      OBVIOUS
    <3>. QED  BY <3>1, <3>2
  <2>3. i = 1 /\ Count(mail, k) = 1
    BY <1>2, <2>2
  <2>4. Len(f) = size + 1 /\ f[1] = Cell("frame", MsgData, size)
        /\ \A x \in 1..size : f[x + 1] = Content(m, size)[x]
    BY <1>2, <2>1, <2>3
  <2>. QED  BY <1>1, <1>3, <2>3, <2>4 DEF m, size, f
<1>4. CASE size > FragmentChunkSize
  <2>1. /\ Len(frames) = FrameCount(size)
        /\ \A j \in 1..FrameCount(size) :
             /\ Len(frames[j]) = ChunkLen(size, j) + 2
             /\ frames[j][1] = Cell("frame", MsgDataFragment, ChunkLen(size, j) + 1)
             /\ frames[j][2] = Cell("part", size, Offset(j))
             /\ \A x \in 1..ChunkLen(size, j) : frames[j][x + 2] = Content(m, size)[Offset(j) + x]
    BY <1>1, <1>4, FragmentFrames DEF frames
  <2>2. i \in 1..FrameCount(size) /\ Count(mail, k) = FrameCount(size)
    BY <1>2, <2>1
  <2>3. /\ Len(f) = ChunkLen(size, i) + 2
        /\ f[1] = Cell("frame", MsgDataFragment, ChunkLen(size, i) + 1)
        /\ f[2] = Cell("part", size, Offset(i))
        /\ \A x \in 1..ChunkLen(size, i) : f[x + 2] = Content(m, size)[Offset(i) + x]
    BY <1>2, <2>1, <2>2
  <2>. QED  BY <1>1, <1>4, <2>2, <2>3 DEF m, size, f
<1>5. size <= FragmentChunkSize \/ size > FragmentChunkSize
  BY <1>1, FrameAssumption
<1>. QED  BY <1>3, <1>4, <1>5

\* No frame is too long for the receiver, and its header says how long it is.
LEMMA FrameHeader ==
    ASSUME NEW mail \in Mail, NEW k, NEW i, IsPlace(mail, k, i)
    PROVE  LET f == Frame(mail, k, i) IN
           f[1].b = Len(f) - 1 /\ Len(f) - 1 \in Nat \ {0} /\ Len(f) - 1 <= MaxFramePayloadLen
<1>. DEFINE size == mail[k].size
            f == Frame(mail, k, i)
<1>. HIDE DEF size, f
<1>1. size \in Nat \ {0}
  BY FrameShape DEF size
<1>2. CASE size <= FragmentChunkSize /\ Len(f) = size + 1 /\ f[1] = Cell("frame", MsgData, size)
  <2>1. f[1].b = size
    BY <1>2 DEF Cell
  <2>. QED  BY <1>1, <1>2, <2>1, FrameAssumption DEF f
<1>3. CASE /\ size > FragmentChunkSize /\ i \in 1..FrameCount(size)
           /\ Len(f) = ChunkLen(size, i) + 2
           /\ f[1] = Cell("frame", MsgDataFragment, ChunkLen(size, i) + 1)
  <2>1. f[1].b = ChunkLen(size, i) + 1
    BY <1>3 DEF Cell
  <2>2. ChunkLen(size, i) \in Nat \ {0} /\ ChunkLen(size, i) <= FragmentChunkSize
    BY <1>1, <1>3, ChunkBounds
  <2>. QED  BY <1>3, <2>1, <2>2, FrameAssumption DEF f
<1>. QED  BY <1>2, <1>3, FrameShape DEF size, f

\* What the handler makes of a buffer that begins with the frame at its place: it waits
\* for the rest of it, or takes all of it; a message is complete after its last frame.
LEMMA FrameTaken ==
    ASSUME NEW mail \in Mail, NEW k, NEW i, IsPlace(mail, k, i),
           NEW r \in Seq(Cells), r # <<>>,
           \A x \in 1..Len(r) : x <= Len(Frame(mail, k, i)) => r[x] = Frame(mail, k, i)[x],
           NEW p \in Reassembly, Assembled(mail[k].message, mail[k].size, i, p)
    PROVE  LET o == TakeFrame(r, p)
               f == Frame(mail, k, i)
           IN
           /\ Len(r) < Len(f) => o = Turn("more", r, p, <<>>)
           /\ Len(r) >= Len(f) =>
                /\ o.raw = SubSeq(r, Len(f) + 1, Len(r)) /\ o.verdict \in {"bad", "message", "part"}
                /\ o.verdict = "message" =>
                     /\ i = Count(mail, k) /\ o.data = Content(mail[k].message, mail[k].size)
                     /\ o.re = NoFragments \/ (i = 1 /\ o.re = p)
                /\ o.verdict = "part" =>
                     i # Count(mail, k) /\ Assembled(mail[k].message, mail[k].size, i + 1, o.re)
<1>. DEFINE m == mail[k].message
            size == mail[k].size
            f == Frame(mail, k, i)
            o == TakeFrame(r, p)
<1>1. /\ f \in Seq(Cells) /\ Len(f) \in Nat /\ Len(f) - 1 \in Nat \ {0}
      /\ f[1].b = Len(f) - 1 /\ Len(f) - 1 <= MaxFramePayloadLen
  BY FrameAtPlace, FrameHeader
<1>2. Len(r) \in Nat \ {0} /\ Head(r) = r[1] /\ r[1] = f[1]
  <2>1. Len(r) \in Nat \ {0} /\ Head(r) = r[1]
    BY Taken
  <2>2. 1 \in 1..Len(r) /\ 1 <= Len(f)
    BY <1>1, <2>1
  <2>. QED  BY <2>1, <2>2
<1>. DEFINE l == Len(f) - 1
            body == SubSeq(r, 2, l + 1)
            rest == SubSeq(r, l + 2, Len(r))
<1>3. Head(r).b = l /\ ~(l > MaxFramePayloadLen) /\ l \in Nat \ {0}
  BY <1>1, <1>2, FrameAssumption
<1>. HIDE DEF l
<1>4. CASE Len(r) < Len(f)
  <2>1. Len(r) <= l
    BY <1>1, <1>2, <1>4 DEF l
  <2>2. o = Turn("more", r, p, <<>>)
    BY <1>3, <2>1 DEF TakeFrame
  <2>. QED  BY <1>1, <1>2, <1>4, <2>2
<1>5. CASE Len(r) >= Len(f)
  <2>1. ~(Len(r) <= l) /\ l + 1 <= Len(r) /\ l + 2 = Len(f) + 1
    BY <1>1, <1>2, <1>5 DEF l
  <2>2. o = IF f[1].a = MsgData THEN Turn("message", rest, p, body)
            ELSE IF f[1].a = MsgDataFragment THEN TakeFragment(body, rest, p)
            ELSE Turn("bad", rest, p, <<>>)
    BY <1>2, <1>3, <2>1 DEF TakeFrame
  <2>3. body \in Seq(Cells) /\ Len(body) = l /\ \A x \in 1..l : body[x] = f[x + 1]
    <3>1. 2 \in Nat \ {0} /\ l + 1 \in Nat /\ 2 <= l + 1 /\ l + 1 - 2 + 1 = l
      BY <1>3
    <3>2. /\ body \in Seq(Cells) /\ Len(body) = l
          /\ \A x \in 1..l : body[x] = r[2 + x - 1]
      <4>1. /\ body \in Seq(Cells)
            /\ Len(body) = IF 2 <= l + 1 THEN (l + 1) - 2 + 1 ELSE 0
            /\ \A x \in 1..((l + 1) - 2 + 1) : body[x] = r[2 + x - 1]
        <5>. DEFINE lo == 2
                    hi == l + 1
        <5>1. lo \in Nat \ {0} /\ hi \in Nat /\ hi <= Len(r)
          BY <2>1, <3>1
        <5>. HIDE DEF lo, hi
        <5>2. /\ SubSeq(r, lo, hi) \in Seq(Cells)
              /\ Len(SubSeq(r, lo, hi)) = IF lo <= hi THEN hi - lo + 1 ELSE 0
              /\ \A x \in 1..(hi - lo + 1) : SubSeq(r, lo, hi)[x] = r[lo + x - 1]
          BY <5>1, Slice
        <5>. QED  BY <5>2 DEF lo, hi
      <4>2. 2 <= l + 1 /\ (l + 1) - 2 + 1 = l
        BY <1>3
      <4>. HIDE DEF body
      <4>3. Len(body) = l
        BY <4>1, <4>2
      <4>4. \A x \in 1..l : body[x] = r[2 + x - 1]
        BY <4>1, <4>2
      <4>. QED  BY <4>1, <4>3, <4>4
    <3>3. ASSUME NEW x \in 1..l PROVE r[2 + x - 1] = f[x + 1]
      <4>1. 2 + x - 1 = x + 1 /\ x + 1 \in 1..Len(r) /\ x + 1 <= Len(f)
        BY <1>1, <1>2, <1>3, <2>1
      <4>. QED  BY <4>1
    <3>. QED  BY <3>2, <3>3
  <2>4. rest = SubSeq(r, Len(f) + 1, Len(r))
    BY <2>1
  <2>. HIDE DEF body, rest, o, f, size, m
  <2>5. m \in Nat /\ size \in Nat \ {0} /\ Assembled(m, size, i, p)
    BY FrameShape DEF m, size
  <2>6. CASE /\ size <= FragmentChunkSize /\ i = 1 /\ Count(mail, k) = 1
             /\ Len(f) = size + 1 /\ f[1] = Cell("frame", MsgData, size)
             /\ \A x \in 1..size : f[x + 1] = Content(m, size)[x]
    <3>1. l = size /\ f[1].a = MsgData
      BY <2>5, <2>6 DEF Cell, l
    <3>2. o = Turn("message", rest, p, body)
      BY <2>2, <3>1
    <3>3. body = Content(m, size)
      <4>1. Content(m, size) \in Seq(Cells) /\ Len(Content(m, size)) = size
        BY <2>5, ContentCells
      <4>2. \A x \in 1..size : body[x] = Content(m, size)[x]
        BY <2>3, <2>6, <3>1
      <4>. QED  BY <2>3, <3>1, <4>1, <4>2, SeqEqual
    <3>4. o.raw = rest /\ o.verdict = "message" /\ o.data = body /\ o.re = p
      BY <3>2, TurnFields
    <3>5. ~(Len(r) < Len(f))
      BY <1>1, <1>2, <1>5 DEF f
    <3>. QED  BY <2>4, <2>6, <3>3, <3>4, <3>5 DEF o, f, m, size
  <2>7. CASE /\ size > FragmentChunkSize /\ Count(mail, k) = FrameCount(size)
             /\ i \in 1..FrameCount(size)
             /\ Len(f) = ChunkLen(size, i) + 2
             /\ f[1] = Cell("frame", MsgDataFragment, ChunkLen(size, i) + 1)
             /\ f[2] = Cell("part", size, Offset(i))
             /\ \A x \in 1..ChunkLen(size, i) : f[x + 2] = Content(m, size)[Offset(i) + x]
    <3>1. ChunkLen(size, i) \in Nat \ {0}
      BY <2>5, <2>7, ChunkBounds
    <3>2. l = ChunkLen(size, i) + 1 /\ f[1].a = MsgDataFragment
      BY <2>7, <3>1 DEF Cell, l
    <3>3. o = TakeFragment(body, rest, p)
      BY <2>2, <3>2 DEF MsgData, MsgDataFragment
    <3>4. Len(body) = ChunkLen(size, i) + 1 /\ body[1] = Cell("part", size, Offset(i))
      <4>1. 1 \in 1..l /\ 1 + 1 = 2
        BY <3>1, <3>2
      <4>. QED  BY <2>3, <2>7, <3>2, <4>1
    <3>5. ASSUME NEW x \in 1..ChunkLen(size, i)
          PROVE  body[x + 1] = Content(m, size)[Offset(i) + x]
      <4>1. x + 1 \in 1..l /\ (x + 1) + 1 = x + 2
        BY <3>1, <3>2
      <4>. QED  BY <2>3, <2>7, <4>1
    <3>6. /\ o.raw = rest /\ o.verdict \in {"bad", "message", "part"}
          /\ o.verdict = "message" =>
                i = FrameCount(size) /\ o.data = Content(m, size) /\ o.re = NoFragments
          /\ o.verdict = "part" => i # FrameCount(size) /\ Assembled(m, size, i + 1, o.re)
      <4>1. /\ m \in Nat /\ size \in Nat \ {0} /\ size > FragmentChunkSize
            /\ i \in 1..FrameCount(size) /\ body \in Seq(Cells)
        BY <2>3, <2>5, <2>7
      <4>. DEFINE oo == TakeFragment(body, rest, p)
      <4>. HIDE DEF oo
      <4>2. /\ oo.raw = rest /\ oo.verdict \in {"bad", "message", "part"}
            /\ oo.verdict = "message" =>
                  i = FrameCount(size) /\ oo.data = Content(m, size) /\ oo.re = NoFragments
            /\ oo.verdict = "part" => i # FrameCount(size) /\ Assembled(m, size, i + 1, oo.re)
        BY <2>5, <3>4, <3>5, <4>1, FragmentTaken DEF oo
      <4>3. o = oo
        BY <3>3 DEF oo
      <4>. QED  BY <4>2, <4>3
    <3>7. ~(Len(r) < Len(f))
      BY <1>1, <1>2, <1>5 DEF f
    <3>8. /\ o.raw = SubSeq(r, Len(f) + 1, Len(r)) /\ o.verdict \in {"bad", "message", "part"}
          /\ o.verdict = "message" =>
               /\ i = Count(mail, k) /\ o.data = Content(m, size)
               /\ o.re = NoFragments \/ (i = 1 /\ o.re = p)
          /\ o.verdict = "part" => i # Count(mail, k) /\ Assembled(m, size, i + 1, o.re)
      <4>1. Count(mail, k) = FrameCount(size)
        BY <2>7
      <4>. HIDE DEF o, f, m, size
      <4>2. o.raw = SubSeq(r, Len(f) + 1, Len(r)) /\ o.verdict \in {"bad", "message", "part"}
        BY <2>4, <3>6
      <4>3. o.verdict = "message" => i = Count(mail, k) /\ o.data = Content(m, size) /\ o.re = NoFragments
        BY <3>6, <4>1
      <4>4. o.verdict = "part" => i # Count(mail, k) /\ Assembled(m, size, i + 1, o.re)
        BY <3>6, <4>1
      <4>. QED  BY <4>2, <4>3, <4>4
    <3>. QED  BY <3>7, <3>8 DEF o, f, m, size
  <2>8. \/ <2>6!1
        \/ <2>7!1
    BY FrameShape DEF m, size, f
  <2>. QED  BY <2>6, <2>7, <2>8
<1>. QED  BY <1>1, <1>2, <1>4, <1>5

LEMMA Associative ==
    \A s, t, u \in Seq(Cells) : (s \o t) \o u = s \o (t \o u)
BY ConcatAssociative

\* Cells that move from the wire to the buffer stay in order.
LEMMA MovedOn ==
    ASSUME NEW r \in Seq(Cells), NEW u \in Seq(Cells), NEW n \in 1..Len(u)
    PROVE  LET v == SubSeq(u, 1, n)
               w == SubSeq(u, n + 1, Len(u))
           IN
           v \in Seq(Cells) /\ w \in Seq(Cells) /\ (r \o v) \in Seq(Cells) /\ (r \o v) \o w = r \o u
<1>. DEFINE v == SubSeq(u, 1, n)
            w == SubSeq(u, n + 1, Len(u))
<1>1. Len(u) \in Nat
  BY LenProperties
<1>2. 1 \in Nat \ {0} /\ n \in Nat /\ n <= Len(u) /\ n + 1 \in Nat \ {0} /\ Len(u) <= Len(u)
  BY <1>1
<1>3. v \in Seq(Cells) /\ w \in Seq(Cells)
  BY <1>1, <1>2, Slice
<1>4. v \o w = u
  <2>1. 1 \in 1..(Len(u) + 1) /\ n \in (1 - 1)..Len(u) /\ Len(u) \in n..Len(u)
    BY <1>1
  <2>2. SubSeq(u, 1, n) \o SubSeq(u, n + 1, Len(u)) = SubSeq(u, 1, Len(u))
    BY <2>1, ConcatAdjacentSubSeq
  <2>3. SubSeq(u, 1, Len(u)) = u
    BY SubSeqFull
  <2>. QED  BY <2>2, <2>3
<1>. HIDE DEF v, w
<1>5. (r \o v) \o w = r \o (v \o w)
  <2>1. v \in Seq(Cells)
    BY <1>3
  <2>2. w \in Seq(Cells)
    BY <1>3
  <2>3. \A s, t \in Seq(Cells) : (r \o s) \o t = r \o (s \o t)
    BY Associative
  <2>. QED  BY <2>1, <2>2, <2>3
<1>6. r \o v \in Seq(Cells)
  BY <1>3, Concat
<1>. QED  BY <1>3, <1>4, <1>5, <1>6 DEF v, w

\* What is taken from the buffer is taken from the front of the stream.
LEMMA TakenFromFront ==
    ASSUME NEW r \in Seq(Cells), NEW u \in Seq(Cells), NEW l \in Nat, l <= Len(r)
    PROVE  SubSeq(r \o u, l + 1, Len(r \o u)) = SubSeq(r, l + 1, Len(r)) \o u
<1>. DEFINE s == r \o u
            q == SubSeq(r, l + 1, Len(r))
            t == SubSeq(s, l + 1, Len(s))
<1>1. /\ Len(r) \in Nat /\ Len(u) \in Nat /\ s \in Seq(Cells) /\ Len(s) = Len(r) + Len(u)
      /\ \A x \in 1..Len(r) : s[x] = r[x]
      /\ \A x \in 1..Len(u) : s[Len(r) + x] = u[x]
  BY Concat
<1>2. q \in Seq(Cells) /\ Len(q) = Len(r) - l /\ \A x \in 1..(Len(r) - l) : q[x] = r[l + x]
  <2>1. l + 1 \in Nat \ {0} /\ Len(r) \in Nat /\ Len(r) <= Len(r)
    BY <1>1
  <2>. DEFINE a == l + 1
              b == Len(r)
  <2>. HIDE DEF a, b
  <2>2. /\ SubSeq(r, a, b) \in Seq(Cells)
        /\ Len(SubSeq(r, a, b)) = IF a <= b THEN b - a + 1 ELSE 0
        /\ \A x \in 1..(b - a + 1) : SubSeq(r, a, b)[x] = r[a + x - 1]
    BY <2>1, Slice DEF a, b
  <2>3. (IF a <= b THEN b - a + 1 ELSE 0) = Len(r) - l /\ b - a + 1 = Len(r) - l
        /\ \A x \in 1..(Len(r) - l) : a + x - 1 = l + x
    BY <1>1 DEF a, b
  <2>4. q = SubSeq(r, a, b)
    BY DEF a, b
  <2>. HIDE DEF q
  <2>. QED  BY <2>2, <2>3, <2>4
<1>. HIDE DEF s, q
<1>3. t \in Seq(Cells) /\ Len(t) = Len(s) - l /\ \A x \in 1..(Len(s) - l) : t[x] = s[l + x]
  <2>1. l + 1 \in Nat \ {0} /\ Len(s) \in Nat /\ Len(s) <= Len(s) /\ l <= Len(s)
    BY <1>1
  <2>. DEFINE a == l + 1
              b == Len(s)
  <2>. HIDE DEF a, b
  <2>2. /\ SubSeq(s, a, b) \in Seq(Cells)
        /\ Len(SubSeq(s, a, b)) = IF a <= b THEN b - a + 1 ELSE 0
        /\ \A x \in 1..(b - a + 1) : SubSeq(s, a, b)[x] = s[a + x - 1]
    BY <1>1, <2>1, Slice DEF a, b
  <2>3. (IF a <= b THEN b - a + 1 ELSE 0) = Len(s) - l /\ b - a + 1 = Len(s) - l
        /\ \A x \in 1..(Len(s) - l) : a + x - 1 = l + x
    BY <2>1 DEF a, b
  <2>4. t = SubSeq(s, a, b)
    BY DEF a, b
  <2>. HIDE DEF t
  <2>. QED  BY <2>2, <2>3, <2>4
<1>. HIDE DEF t
<1>4. /\ q \o u \in Seq(Cells) /\ Len(q \o u) = Len(q) + Len(u)
      /\ \A x \in 1..Len(q) : (q \o u)[x] = q[x]
      /\ \A x \in 1..Len(u) : (q \o u)[Len(q) + x] = u[x]
  <2>1. q \in Seq(Cells)
    BY <1>2
  <2>. QED  BY <2>1, Concat
<1>5. Len(t) = Len(q \o u)
  BY <1>1, <1>2, <1>3, <1>4
<1>6. ASSUME NEW x \in 1..Len(t) PROVE t[x] = (q \o u)[x]
  <2>1. CASE x <= Len(q)
    <3>1. x \in 1..Len(q) /\ l + x \in 1..Len(r) /\ x \in 1..(Len(s) - l) /\ x \in 1..(Len(r) - l)
      BY <1>1, <1>2, <1>3, <2>1
    <3>. QED  BY <1>1, <1>2, <1>3, <1>4, <3>1
  <2>2. CASE x > Len(q)
    <3>1. x - Len(q) \in 1..Len(u) /\ x \in 1..(Len(s) - l)
          /\ Len(r) + (x - Len(q)) = l + x /\ Len(q) + (x - Len(q)) = x
      BY <1>1, <1>2, <1>3, <2>2
    <3>2. s[l + x] = u[x - Len(q)] /\ (q \o u)[x] = u[x - Len(q)]
      BY <1>1, <1>4, <3>1
    <3>. QED  BY <1>3, <3>1, <3>2
  <2>3. Len(q) \in Nat /\ Len(t) \in Nat
    BY <1>2, <1>3, LenProperties
  <2>4. x <= Len(q) \/ x > Len(q)
    BY <2>3
  <2>. QED  BY <2>1, <2>2, <2>4
<1>7. t = q \o u
  <2>1. t \in Seq(Cells) /\ q \o u \in Seq(Cells)
    BY <1>3, <1>4
  <2>. QED  BY <1>5, <1>6, <2>1, SeqEqual
<1>. QED  BY <1>7 DEF t, s, q

\* The buffer and what is on the wire make one stream, which begins with the buffer.
LEMMA Joined ==
    ASSUME NEW r \in Seq(Cells), NEW u \in Seq(Cells), r # <<>>
    PROVE  /\ (r \o u) \in Seq(Cells) /\ (r \o u) # <<>> /\ Len(r) <= Len(r \o u)
           /\ \A x \in 1..Len(r) : x \in 1..Len(r \o u) /\ (r \o u)[x] = r[x]
<1>1. /\ (r \o u) \in Seq(Cells) /\ Len(r \o u) = Len(r) + Len(u)
      /\ Len(r) \in Nat /\ Len(u) \in Nat
      /\ \A x \in 1..Len(r) : (r \o u)[x] = r[x]
  BY Concat
<1>2. Len(r) # 0
  BY EmptySeq
<1>. DEFINE s == r \o u
<1>. HIDE DEF s
<1>3. s \in Seq(Cells) /\ Len(s) = Len(r) + Len(u) /\ \A x \in 1..Len(r) : s[x] = r[x]
  BY <1>1 DEF s
<1>4. s # <<>>
  <2>1. Len(s) # 0
    BY <1>1, <1>2, <1>3
  <2>. QED  BY <1>3, <2>1, EmptySeq
<1>5. Len(r) <= Len(s) /\ \A x \in 1..Len(r) : x \in 1..Len(s)
  BY <1>1, <1>3
<1>. QED  BY <1>3, <1>4, <1>5 DEF s

\* What a turn over the buffer r does to a stream r \o u that leads from <<k, i>>.
LEMMA TurnOverStream ==
    ASSUME NEW mail \in Mail, NEW r \in Seq(Cells), NEW u \in Seq(Cells), NEW p \in Reassembly,
           NEW k, NEW i, NEW kk, NEW ii, NEW e, Leads(mail, r \o u, k, i, kk, ii, e),
           Assembled(mail[k].message, mail[k].size, i, p)
    PROVE  LET o == TakeFrame(r, p)
               m == mail[k].message
               size == mail[k].size
           IN
           /\ o.verdict \in {"more", "message", "part", "bad"}
           /\ o.verdict = "more" => o.raw = r /\ o.re = p
           /\ o.verdict = "message" =>
                 /\ k \in 1..Len(mail) /\ o.data = Content(m, size)
                 /\ o.re = NoFragments \/ (i = 1 /\ o.re = p)
                 /\ Leads(mail, o.raw \o u, k + 1, 1, kk, ii, e)
           /\ o.verdict = "part" =>
                 /\ Assembled(m, size, i + 1, o.re)
                 /\ Leads(mail, o.raw \o u, k, i + 1, kk, ii, e)
<1>. DEFINE o == TakeFrame(r, p)
            m == mail[k].message
            size == mail[k].size
            f == Frame(mail, k, i)
            s == r \o u
<1>1. CASE r = <<>>
  <2>1. o = Turn("more", r, p, <<>>)
    BY <1>1 DEF TakeFrame
  <2>2. o.verdict = "more" /\ o.raw = r /\ o.re = p
    BY <2>1, TurnFields
  <2>. QED  BY <2>2
<1>2. CASE r # <<>>
  <2>1. /\ s \in Seq(Cells) /\ s # <<>> /\ Len(r) <= Len(s)
        /\ \A x \in 1..Len(r) : x \in 1..Len(s) /\ s[x] = r[x]
    BY <1>2, Joined
  <2>. HIDE DEF s, o
  <2>2. /\ IsPlace(mail, k, i)
        /\ \A x \in 1..Len(s) : x <= Len(f) => s[x] = f[x]
        /\ Len(s) >= Len(f) =>
             Leads(mail, SubSeq(s, Len(f) + 1, Len(s)), NextCall(mail, k, i), NextFrame(mail, k, i), kk, ii, e)
    BY <2>1, FrontOfStream DEF s
  <2>3. \A x \in 1..Len(r) : x <= Len(f) => r[x] = f[x]
    BY <2>1, <2>2
  <2>4. /\ Len(r) < Len(f) => o = Turn("more", r, p, <<>>)
        /\ Len(r) >= Len(f) =>
             /\ o.raw = SubSeq(r, Len(f) + 1, Len(r)) /\ o.verdict \in {"bad", "message", "part"}
             /\ o.verdict = "message" =>
                  /\ i = Count(mail, k) /\ o.data = Content(m, size)
                  /\ o.re = NoFragments \/ (i = 1 /\ o.re = p)
             /\ o.verdict = "part" => i # Count(mail, k) /\ Assembled(m, size, i + 1, o.re)
    BY <1>2, <2>2, <2>3, FrameTaken DEF o
  <2>5. Len(r) \in Nat /\ Len(f) \in Nat /\ Len(s) \in Nat /\ k \in 1..Len(mail)
    <3>1. Len(f) \in Nat
      BY <2>2, FrameAtPlace
    <3>. QED  BY <2>1, <2>2, <3>1, LenProperties DEF IsPlace
  <2>. HIDE DEF f
  <2>6. CASE Len(r) < Len(f)
    <3>1. o.verdict = "more" /\ o.raw = r /\ o.re = p
      BY <2>4, <2>6, TurnFields
    <3>. QED  BY <3>1 DEF o
  <2>7. CASE Len(r) >= Len(f)
    <3>1. Leads(mail, SubSeq(s, Len(f) + 1, Len(s)), NextCall(mail, k, i), NextFrame(mail, k, i), kk, ii, e)
      BY <2>1, <2>2, <2>5, <2>7
    <3>2. SubSeq(s, Len(f) + 1, Len(s)) = o.raw \o u
      <4>. DEFINE l == Len(f)
      <4>1. l \in Nat /\ l <= Len(r)
        BY <2>5, <2>7
      <4>2. o.raw = SubSeq(r, l + 1, Len(r))
        BY <2>4, <2>7
      <4>. HIDE DEF l
      <4>3. SubSeq(r \o u, l + 1, Len(r \o u)) = SubSeq(r, l + 1, Len(r)) \o u
        BY <4>1, TakenFromFront
      <4>. QED  BY <4>2, <4>3 DEF l, s
    <3>3. o.verdict = "message" => NextCall(mail, k, i) = k + 1 /\ NextFrame(mail, k, i) = 1
      BY <2>4, <2>7 DEF NextCall, NextFrame
    <3>4. o.verdict = "part" => NextCall(mail, k, i) = k /\ NextFrame(mail, k, i) = i + 1
      BY <2>4, <2>7 DEF NextCall, NextFrame
    <3>5. o.verdict \in {"bad", "message", "part"}
      BY <2>4, <2>7
    <3>. QED  BY <2>4, <2>5, <2>7, <3>1, <3>2, <3>3, <3>4, <3>5 DEF o
  <2>. QED  BY <2>5, <2>6, <2>7
<1>. QED  BY <1>1, <1>2

-----------------------------------------------------------------------------
(* The messages that reach Enqueue.  As long as a handler reads, what is in  *)
(* its buffer and on the wire leads from the frame it expects to the one the *)
(* caller writes next.                                                       *)

\* What the calls of a connection write.
Requests(c) ==
    [k \in 1..Len(Calls[c]) |-> [message |-> Calls[c][k], size |-> Size[Calls[c][k]]]]

LEMMA RequestsWritten ==
    ASSUME NEW c \in Conns
    PROVE  /\ Requests(c) \in Mail /\ Len(Requests(c)) = Len(Calls[c]) /\ Len(Calls[c]) \in Nat
           /\ \A k \in 1..Len(Calls[c]) :
                 /\ Calls[c][k] \in Messages
                 /\ Requests(c)[k].message = Calls[c][k]
                 /\ Requests(c)[k].size = Size[Calls[c][k]]
<1>1. Calls[c] \in Seq(Messages) /\ Len(Calls[c]) \in Nat
  BY TransportAssumption, LenProperties
<1>2. \A k \in 1..Len(Calls[c]) : Calls[c][k] \in Messages
  BY <1>1, ElementOfSeq
<1>3. \A k \in 1..Len(Calls[c]) :
         [message |-> Calls[c][k], size |-> Size[Calls[c][k]]] \in [message : Nat, size : Nat \ {0}]
  <2>. TAKE k \in 1..Len(Calls[c])
  <2>. DEFINE m == Calls[c][k]
  <2>1. m \in Messages
    BY <1>2
  <2>. HIDE DEF m
  <2>2. m \in Nat /\ Size[m] \in Nat \ {0}
    BY <2>1, TransportAssumption
  <2>. QED  BY <2>2 DEF m
<1>. DEFINE n == Len(Calls[c])
            letter(k) == [message |-> Calls[c][k], size |-> Size[Calls[c][k]]]
<1>4. Requests(c) = [k \in 1..n |-> letter(k)]
  BY DEF Requests
<1>5. n \in Nat /\ \A k \in 1..n : letter(k) \in [message : Nat, size : Nat \ {0}]
  BY <1>1, <1>3
<1>6. \A k \in 1..n : letter(k).message = Calls[c][k] /\ letter(k).size = Size[Calls[c][k]]
  OBVIOUS
<1>. HIDE DEF n, letter
<1>7. Requests(c) \in Mail /\ Len(Requests(c)) = n /\ \A k \in 1..n : Requests(c)[k] = letter(k)
  BY <1>4, <1>5 DEF Mail
<1>. QED  BY <1>1, <1>2, <1>6, <1>7 DEF n

BufferTypes ==
    /\ raw \in [Conns -> Seq(Cells)]
    /\ up \in [Conns -> Seq(Cells)]
    /\ re \in [Conns -> Reassembly]
    /\ got \in [Conns -> Seq(Seq(Cells))]

\* The caller writes the ii-th frame of its kk-th call next; a caller that has closed the
\* connection may have left e cells of it.
Writes(c, kk, ii, e) ==
    /\ cpc[c] \in {"new", "idle"} => kk = done[c] + 1 /\ ii = 1
    /\ cpc[c] = "write" =>
          /\ kk = done[c] + 1
          /\ IsPlace(Requests(c), kk, ii)
          /\ Len(todo[c]) = Count(Requests(c), kk) - ii + 1
          /\ \A x \in 1..Len(todo[c]) : todo[c][x] = Frame(Requests(c), kk, ii + x - 1)
    /\ cpc[c] \in {"read", "frames"} => kk = done[c] + 2 /\ ii = 1
    /\ cpc[c] # "closed" => e = 0

\* The handler expects the i-th frame of the k-th call.
Reads(c, k, i) ==
    /\ Len(got[c]) = k - 1
    /\ Assembled(Requests(c)[k].message, Requests(c)[k].size, i, re[c])

Following(c) ==
    \E k, i, kk, ii, e :
        Leads(Requests(c), raw[c] \o up[c], k, i, kk, ii, e) /\ Writes(c, kk, ii, e) /\ Reads(c, k, i)

Received(c) ==
    \A x \in 1..Len(got[c]) :
        x <= Len(Calls[c]) /\ got[c][x] = Content(Calls[c][x], Size[Calls[c][x]])

Reading == {"none", "top", "read", "frames"}

StreamOf(c) == Received(c) /\ (hpc[c] \in Reading => Following(c))

StreamInv == BufferTypes /\ \A c \in Conns : StreamOf(c)

\* At first nothing has been written.
LEMMA InitStreamInv == Init => StreamInv
<1>. SUFFICES ASSUME Init PROVE StreamInv
  OBVIOUS
<1>1. BufferTypes
  <2>1. NoFragments \in Reassembly
    BY DEF NoFragments, Reassembly
  <2>2. <<>> \in Seq(Cells) /\ <<>> \in Seq(Seq(Cells))
    OBVIOUS
  <2>. QED  BY <2>1, <2>2 DEF Init, BufferTypes
<1>2. ASSUME NEW c \in Conns PROVE StreamOf(c)
  <2>1. got[c] = <<>> /\ raw[c] = <<>> /\ up[c] = <<>> /\ cpc[c] = "new" /\ done[c] = 0
    BY DEF Init
  <2>2. Len(got[c]) = 0
    BY <2>1
  <2>3. Received(c)
    BY <2>2 DEF Received
  <2>4. raw[c] \o up[c] = <<>>
    BY <2>1
  <2>5. Reads(c, 1, 1)
    BY <2>2 DEF Reads, Assembled
  <2>6. Writes(c, 1, 1, 0)
    BY <2>1 DEF Writes
  <2>7. Leads(Requests(c), raw[c] \o up[c], 1, 1, 1, 1, 0)
    BY <2>4, EmptyStream, RequestsWritten
  <2>. QED  BY <2>3, <2>5, <2>6, <2>7 DEF StreamOf, Following
<1>. QED  BY <1>1, <1>2 DEF StreamInv

\* A step that leaves the stream, the caller's place and the handler's as they are.
LEMMA StreamKept ==
    ASSUME NEW c \in Conns, StreamOf(c), got'[c] = got[c],
           hpc'[c] \in Reading =>
              /\ hpc[c] \in Reading
              /\ raw'[c] \o up'[c] = raw[c] \o up[c] /\ re'[c] = re[c]
              /\ \A kk, ii, e : Writes(c, kk, ii, e) => Writes(c, kk, ii, e)'
    PROVE  StreamOf(c)'
<1>1. Received(c)'
  BY DEF StreamOf, Received
<1>2. ASSUME hpc'[c] \in Reading PROVE Following(c)'
  <2>1. PICK k, i, kk, ii, e :
          Leads(Requests(c), raw[c] \o up[c], k, i, kk, ii, e) /\ Writes(c, kk, ii, e) /\ Reads(c, k, i)
    BY <1>2 DEF StreamOf, Following
  <2>2. Writes(c, kk, ii, e)'
    BY <1>2, <2>1
  <2>3. Reads(c, k, i)'
    BY <1>2, <2>1 DEF Reads
  <2>4. Leads(Requests(c), raw'[c] \o up'[c], k, i, kk, ii, e)
    BY <1>2, <2>1
  <2>. QED  BY <2>2, <2>3, <2>4 DEF Following
<1>. QED  BY <1>1, <1>2 DEF StreamOf, Reading

\* A connection that a step leaves alone.
LEMMA OtherStream ==
    ASSUME NEW c \in Conns, StreamOf(c),
           raw'[c] = raw[c], up'[c] = up[c], re'[c] = re[c], got'[c] = got[c], hpc'[c] = hpc[c],
           cpc'[c] = cpc[c], done'[c] = done[c], todo'[c] = todo[c]
    PROVE  StreamOf(c)'
<1>1. \A kk, ii, e : Writes(c, kk, ii, e) => Writes(c, kk, ii, e)'
  BY DEF Writes
<1>. QED  BY <1>1, StreamKept

\* A frame is written: the place of the caller moves on.
LEMMA WriteFrameStream ==
    ASSUME NEW c \in Conns, TypeInv, BufferTypes, StreamOf(c), WriteFrame(c)
    PROVE  up' \in [Conns -> Seq(Cells)] /\ StreamOf(c)'
<1>. DEFINE f == Head(todo[c])
            t == todo[c]
<1>1. /\ t \in Seq(Seq(Cells)) /\ t # <<>> /\ cpc[c] = "write"
      /\ done[c] \in Nat /\ raw[c] \in Seq(Cells) /\ up[c] \in Seq(Cells)
  BY DEF WriteFrame, TypeInv, CallerTypes, TypeOK, BufferTypes
<1>2. /\ f \in Seq(Cells) /\ f = t[1] /\ Len(t) \in Nat \ {0}
      /\ Len(Tail(t)) = Len(t) - 1 /\ \A x \in 1..(Len(t) - 1) : Tail(t)[x] = t[x + 1]
  BY <1>1, Taken
<1>3. /\ up' = [up EXCEPT ![c] = up[c] \o f] /\ todo' = [todo EXCEPT ![c] = Tail(t)]
      /\ UNCHANGED <<hpc, raw, re, got>>
      /\ \/ Len(t) > 1 /\ cpc' = cpc /\ done' = done
         \/ Len(t) = 1 /\ cpc' = [cpc EXCEPT ![c] = "read"] /\ done' = done
         \/ /\ Len(t) = 1 /\ cpc' = [cpc EXCEPT ![c] = "idle"]
            /\ done' = [done EXCEPT ![c] = done[c] + 1]
  BY DEF WriteFrame, handlerVars
<1>. HIDE DEF f, t
<1>4. up[c] \o f \in Seq(Cells)
  BY <1>1, <1>2, Concat
<1>5. up' \in [Conns -> Seq(Cells)] /\ up'[c] = up[c] \o f
  BY <1>3, <1>4 DEF BufferTypes
<1>6. Received(c)'
  BY <1>3 DEF StreamOf, Received
<1>7. ASSUME hpc[c] \in Reading PROVE Following(c)'
  <2>1. PICK k, i, kk, ii, e :
          Leads(Requests(c), raw[c] \o up[c], k, i, kk, ii, e) /\ Writes(c, kk, ii, e) /\ Reads(c, k, i)
    BY <1>7 DEF StreamOf, Following
  <2>2. /\ e = 0 /\ kk = done[c] + 1 /\ IsPlace(Requests(c), kk, ii) /\ Len(t) = Count(Requests(c), kk) - ii + 1
        /\ \A x \in 1..Len(t) : t[x] = Frame(Requests(c), kk, ii + x - 1)
    BY <1>1, <2>1 DEF Writes, t
  <2>3. kk \in Nat /\ ii \in Nat /\ Count(Requests(c), kk) \in Nat
    BY <2>2, FrameAtPlace, RequestsWritten
  <2>4. f = Frame(Requests(c), kk, ii)
    <3>1. 1 \in 1..Len(t) /\ ii + 1 - 1 = ii
      BY <1>2, <2>3
    <3>. QED  BY <1>2, <2>2, <3>1
  <2>5. Leads(Requests(c), raw'[c] \o up'[c], k, i, NextCall(Requests(c), kk, ii), NextFrame(Requests(c), kk, ii), 0)
    <3>1. raw[c] \o up[c] \in Seq(Cells)
      BY <1>1, Concat
    <3>2. Leads(Requests(c), (raw[c] \o up[c]) \o f, k, i, NextCall(Requests(c), kk, ii), NextFrame(Requests(c), kk, ii), 0)
      BY <2>1, <2>2, <2>4, <3>1, WholeWritten, RequestsWritten
    <3>3. (raw[c] \o up[c]) \o f = raw[c] \o (up[c] \o f)
      BY <1>1, <1>2, Associative
    <3>. QED  BY <1>3, <1>5, <3>2, <3>3
  <2>6. Writes(c, NextCall(Requests(c), kk, ii), NextFrame(Requests(c), kk, ii), 0)'
    <3>1. todo'[c] = Tail(t) /\ cpc[c] = "write" /\ cpc \in [Conns -> {"new", "idle", "write", "read", "frames", "closed"}]
          /\ done \in [Conns -> Nat]
      BY <1>1, <1>3 DEF TypeInv, CallerTypes, TypeOK
    <3>2. CASE Len(t) > 1
      <4>1. cpc'[c] = "write" /\ done'[c] = done[c]
        <5>1. cpc' = cpc /\ done' = done
          <6>1. ~(Len(t) = 1)
            BY <1>2, <3>2
          <6>. QED  BY <1>3, <6>1
        <5>. QED  BY <3>1, <5>1
      <4>2. ii # Count(Requests(c), kk) /\ ii + 1 \in 1..Count(Requests(c), kk)
        BY <2>2, <2>3, <3>2 DEF IsPlace
      <4>3. NextCall(Requests(c), kk, ii) = kk /\ NextFrame(Requests(c), kk, ii) = ii + 1 /\ IsPlace(Requests(c), kk, ii + 1)
        BY <2>2, <4>2 DEF NextCall, NextFrame, IsPlace
      <4>4. Len(Tail(t)) = Count(Requests(c), kk) - (ii + 1) + 1
        BY <1>2, <2>2, <2>3
      <4>5. ASSUME NEW x \in 1..Len(Tail(t)) PROVE Tail(t)[x] = Frame(Requests(c), kk, (ii + 1) + x - 1)
        <5>1. x \in 1..(Len(t) - 1) /\ x + 1 \in 1..Len(t) /\ ii + (x + 1) - 1 = (ii + 1) + x - 1
          BY <1>2, <2>3
        <5>. QED  BY <1>2, <2>2, <5>1
      <4>6. kk = done'[c] + 1
        BY <2>2, <4>1
      <4>7. todo'[c] = Tail(t)
        BY <3>1
      <4>. DEFINE tt == Tail(t)
                  jj == ii + 1
      <4>. HIDE DEF tt, jj
      <4>8. /\ todo'[c] = tt /\ IsPlace(Requests(c), kk, jj) /\ Len(tt) = Count(Requests(c), kk) - jj + 1
            /\ \A x \in 1..Len(tt) : tt[x] = Frame(Requests(c), kk, jj + x - 1)
        BY <4>3, <4>4, <4>5, <4>7 DEF tt, jj
      <4>9. Writes(c, kk, jj, 0)'
        BY <4>1, <4>6, <4>8 DEF Writes
      <4>. QED  BY <4>3, <4>9 DEF jj
    <3>3. CASE Len(t) = 1
      <4>1. \/ cpc'[c] = "read" /\ done'[c] = done[c]
            \/ cpc'[c] = "idle" /\ done'[c] = done[c] + 1
        BY <1>3, <3>1, <3>3
      <4>2. ii = Count(Requests(c), kk)
        <5>1. Count(Requests(c), kk) - ii + 1 = 1
          BY <2>2, <3>3
        <5>. QED  BY <2>3, <5>1
      <4>3. NextCall(Requests(c), kk, ii) = done[c] + 2 /\ NextFrame(Requests(c), kk, ii) = 1
        BY <1>1, <2>2, <4>2 DEF NextCall, NextFrame
      <4>. QED  BY <1>1, <4>1, <4>3 DEF Writes
    <3>. QED  BY <1>2, <3>2, <3>3
  <2>7. Reads(c, k, i)'
    BY <1>3, <2>1 DEF Reads
  <2>. QED  BY <2>5, <2>6, <2>7 DEF Following
<1>. QED  BY <1>3, <1>5, <1>6, <1>7 DEF StreamOf

\* A write fails: the caller closes the connection behind a part of the frame.
LEMMA WriteFailsStream ==
    ASSUME NEW c \in Conns, TypeInv, BufferTypes, StreamOf(c), WriteFails(c)
    PROVE  up' \in [Conns -> Seq(Cells)] /\ StreamOf(c)'
<1>. DEFINE f == Head(todo[c])
            t == todo[c]
<1>1. /\ t \in Seq(Seq(Cells)) /\ t # <<>> /\ cpc[c] = "write"
      /\ done[c] \in Nat /\ raw[c] \in Seq(Cells) /\ up[c] \in Seq(Cells)
  BY DEF WriteFails, TypeInv, CallerTypes, TypeOK, BufferTypes
<1>2. f \in Seq(Cells) /\ f = t[1] /\ Len(t) \in Nat \ {0}
  BY <1>1, Taken
<1>3. PICK n \in 0..(Len(f) - 1) : up' = [up EXCEPT ![c] = up[c] \o SubSeq(f, 1, n)]
  BY DEF WriteFails
<1>4. cpc' = [cpc EXCEPT ![c] = "closed"] /\ UNCHANGED <<hpc, raw, re, got>>
  BY DEF WriteFails, HangUp, handlerVars
<1>5. n \in Nat /\ n < Len(f) /\ n <= Len(f)
  BY <1>2, LenProperties
<1>. DEFINE g == SubSeq(f, 1, n)
<1>. HIDE DEF f, t
<1>6. g \in Seq(Cells)
  <2>. DEFINE lo == 1
  <2>1. lo \in Nat \ {0}
    OBVIOUS
  <2>. HIDE DEF lo
  <2>2. SubSeq(f, lo, n) \in Seq(Cells)
    BY <1>2, <1>5, <2>1, Slice
  <2>. QED  BY <2>2 DEF lo
<1>. HIDE DEF g
<1>7. up[c] \o g \in Seq(Cells)
  BY <1>1, <1>6, Concat
<1>8. up' \in [Conns -> Seq(Cells)] /\ up'[c] = up[c] \o g
  BY <1>3, <1>7 DEF BufferTypes, g
<1>9. Received(c)'
  BY <1>4 DEF StreamOf, Received
<1>10. ASSUME hpc[c] \in Reading PROVE Following(c)'
  <2>1. PICK k, i, kk, ii, e :
          Leads(Requests(c), raw[c] \o up[c], k, i, kk, ii, e) /\ Writes(c, kk, ii, e) /\ Reads(c, k, i)
    BY <1>10 DEF StreamOf, Following
  <2>2. /\ e = 0 /\ IsPlace(Requests(c), kk, ii) /\ Len(t) = Count(Requests(c), kk) - ii + 1
        /\ \A x \in 1..Len(t) : t[x] = Frame(Requests(c), kk, ii + x - 1)
    BY <1>1, <2>1 DEF Writes, t
  <2>3. ii \in Nat
    BY <2>2, FrameAtPlace, RequestsWritten
  <2>4. f = Frame(Requests(c), kk, ii)
    <3>1. 1 \in 1..Len(t) /\ ii + 1 - 1 = ii
      BY <1>2, <2>3
    <3>. QED  BY <1>2, <2>2, <3>1
  <2>5. Leads(Requests(c), raw'[c] \o up'[c], k, i, kk, ii, n)
    <3>1. raw[c] \o up[c] \in Seq(Cells)
      BY <1>1, Concat
    <3>2. n < Len(Frame(Requests(c), kk, ii)) /\ n \in Nat
      BY <1>5, <2>4
    <3>3. Leads(Requests(c), (raw[c] \o up[c]) \o g, k, i, kk, ii, n)
      BY <2>1, <2>2, <2>4, <3>1, <3>2, PartWritten, RequestsWritten DEF g
    <3>4. (raw[c] \o up[c]) \o g = raw[c] \o (up[c] \o g)
      BY <1>1, <1>6, Associative
    <3>. QED  BY <1>4, <1>8, <3>3, <3>4
  <2>6. cpc'[c] = "closed"
    BY <1>4 DEF TypeInv, TypeOK
  <2>7. Writes(c, kk, ii, n)'
    BY <2>6 DEF Writes
  <2>8. Reads(c, k, i)'
    BY <1>4, <2>1 DEF Reads
  <2>. QED  BY <2>5, <2>7, <2>8 DEF Following
<1>. QED  BY <1>4, <1>8, <1>9, <1>10 DEF StreamOf

\* A call begins with the first frame of its message.
LEMMA BeginCallStream ==
    ASSUME NEW c \in Conns, TypeInv, StreamOf(c), BeginCall(c)
    PROVE  StreamOf(c)'
<1>. DEFINE k == done[c] + 1
            frames == FramesOf(Content(Message(c), Size[Message(c)]))
<1>1. cpc[c] = "idle" /\ done[c] \in Nat /\ done[c] < Len(Calls[c])
  BY DEF BeginCall, TypeInv, CallerTypes
<1>2. Message(c) \in Messages /\ k \in 1..Len(Calls[c])
  BY <1>1, MessageType
<1>3. Message(c) = Calls[c][k]
  BY DEF Message
<1>4. todo'[c] = frames /\ cpc'[c] = "write" /\ done' = done /\ UNCHANGED <<hpc, raw, re, got, up>>
  BY DEF BeginCall, TypeInv, CallerTypes, TypeOK, handlerVars, wireVars
<1>5. Len(frames) \in Nat \ {0}
  <2>. DEFINE m == Message(c)
              size == Size[m]
  <2>1. m \in Nat /\ size \in Nat \ {0}
    BY <1>2, TransportAssumption
  <2>2. frames = FramesOf(Content(m, size))
    OBVIOUS
  <2>. HIDE DEF m, size, frames
  <2>3. frames \in Seq(Seq(Cells)) /\ frames # <<>>
    BY <2>1, <2>2, MessageFrames
  <2>. QED  BY <2>3, EmptySeq
<1>6. Count(Requests(c), k) = Len(frames) /\ \A x : Frame(Requests(c), k, x) = frames[x]
  BY <1>2, <1>3, RequestsWritten DEF Count, Frame
<1>. HIDE DEF frames, k
<1>7. IsPlace(Requests(c), k, 1) /\ Len(frames) = Count(Requests(c), k) - 1 + 1
  BY <1>2, <1>5, <1>6, RequestsWritten DEF IsPlace
<1>8. \A x \in 1..Len(frames) : frames[x] = Frame(Requests(c), k, 1 + x - 1)
  BY <1>5, <1>6
<1>9. ASSUME NEW kk, NEW ii, NEW e, Writes(c, kk, ii, e) PROVE Writes(c, kk, ii, e)'
  <2>1. kk = k /\ ii = 1 /\ e = 0
    BY <1>1, <1>9 DEF Writes, k
  <2>2. k = done'[c] + 1
    BY <1>4 DEF k
  <2>. DEFINE tt == frames
  <2>3. todo'[c] = tt
    BY <1>4
  <2>. QED  BY <1>4, <1>7, <1>8, <2>1, <2>2, <2>3 DEF Writes
<1>. QED  BY <1>4, <1>9, StreamKept

\* The steps of a caller that write nothing and begin no call.
LEMMA QuietCallerStream ==
    ASSUME NEW c \in Conns, TypeInv, StreamOf(c),
           \/ Dial(c) \/ CloseIdle(c) \/ ReadSome(c) \/ ReadFails(c) \/ ReadFrame(c)
           \/ ReadAnswer(c) \/ ReadRefused(c)
    PROVE  StreamOf(c)'
<1>1. cpc \in [Conns -> {"new", "idle", "write", "read", "frames", "closed"}]
      /\ done \in [Conns -> Nat] /\ done[c] \in Nat
  BY DEF TypeInv, CallerTypes, TypeOK
<1>2. UNCHANGED <<hpc, raw, re, got, up>>
  BY DEF Dial, CloseIdle, ReadSome, ReadFails, ReadFrame, ReadAnswer, ReadRefused, HangUp,
         handlerVars, wireVars
<1>3. \/ cpc'[c] = "closed"
      \/ cpc[c] = "new" /\ cpc'[c] = "idle" /\ done'[c] = done[c]
      \/ cpc[c] \in {"read", "frames"} /\ cpc'[c] \in {"read", "frames"} /\ done'[c] = done[c]
      \/ cpc[c] = "frames" /\ cpc'[c] = "idle" /\ done'[c] = done[c] + 1
  <2>1. CASE Dial(c)
    BY <1>1, <2>1 DEF Dial
  <2>2. CASE CloseIdle(c) \/ ReadFails(c) \/ ReadRefused(c)
    BY <1>1, <2>2 DEF CloseIdle, ReadFails, ReadRefused, HangUp
  <2>3. CASE ReadSome(c)
    BY <1>1, <2>3 DEF ReadSome
  <2>4. CASE ReadFrame(c)
    BY <1>1, <2>4 DEF ReadFrame
  <2>5. CASE ReadAnswer(c)
    BY <1>1, <2>5 DEF ReadAnswer
  <2>. QED  BY <2>1, <2>2, <2>3, <2>4, <2>5
<1>4. ASSUME NEW kk, NEW ii, NEW e, Writes(c, kk, ii, e) PROVE Writes(c, kk, ii, e)'
  BY <1>1, <1>3, <1>4 DEF Writes
<1>. QED  BY <1>2, <1>4, StreamKept

\* A turn of the handler: a message that it completes is the next one.
LEMMA HandlerFrameStream ==
    ASSUME NEW c \in Conns, TypeInv, BufferTypes, StreamOf(c), HandlerFrame(c)
    PROVE  BufferTypes' /\ StreamOf(c)'
<1>. DEFINE o == TakeFrame(raw[c], re[c])
<1>1. /\ raw[c] \in Seq(Cells) /\ up[c] \in Seq(Cells) /\ re[c] \in Reassembly
      /\ got[c] \in Seq(Seq(Cells)) /\ hpc[c] = "frames"
  BY DEF BufferTypes, HandlerFrame
<1>2. o.raw \in Seq(Cells) /\ o.re \in Reassembly /\ o.data \in Seq(Cells)
  BY <1>1, TakeFrameTypes
<1>3. /\ raw' = [raw EXCEPT ![c] = o.raw] /\ re' = [re EXCEPT ![c] = o.re]
      /\ o.verdict = "message" => got' = [got EXCEPT ![c] = Append(got[c], o.data)]
      /\ o.verdict # "message" => got' = got
      /\ up' = up /\ cpc' = cpc /\ done' = done /\ todo' = todo
  BY DEF HandlerFrame, callerVars, wireVars
<1>4. /\ o.verdict = "more" => hpc'[c] = "top"
      /\ o.verdict = "bad" => hpc'[c] = "close"
      /\ o.verdict \in {"message", "part"} => hpc'[c] = "frames"
  BY DEF HandlerFrame, TypeInv, TypeOK
<1>. HIDE DEF o
<1>5. BufferTypes'
  <2>1. o.verdict = "message" => got' \in [Conns -> Seq(Seq(Cells))]
    <3>1. Append(got[c], o.data) \in Seq(Seq(Cells))
      BY <1>1, <1>2, AppendProperties
    <3>. QED  BY <1>3, <3>1 DEF BufferTypes
  <2>2. raw' \in [Conns -> Seq(Cells)] /\ re' \in [Conns -> Reassembly]
    BY <1>2, <1>3 DEF BufferTypes
  <2>. QED  BY <1>3, <2>1, <2>2 DEF BufferTypes
<1>6. /\ raw'[c] = o.raw /\ re'[c] = o.re
      /\ o.verdict = "message" => got'[c] = Append(got[c], o.data)
  BY <1>3 DEF BufferTypes
<1>7. PICK k, i, kk, ii, e :
        Leads(Requests(c), raw[c] \o up[c], k, i, kk, ii, e) /\ Writes(c, kk, ii, e) /\ Reads(c, k, i)
  BY <1>1 DEF StreamOf, Following, Reading
<1>8. Writes(c, kk, ii, e)'
  BY <1>3, <1>7 DEF Writes
<1>. DEFINE m == Requests(c)[k].message
            size == Requests(c)[k].size
<1>9. /\ o.verdict \in {"more", "message", "part", "bad"}
      /\ o.verdict = "more" => o.raw = raw[c] /\ o.re = re[c]
      /\ o.verdict = "message" =>
            /\ k \in 1..Len(Requests(c)) /\ o.data = Content(m, size)
            /\ Leads(Requests(c), o.raw \o up[c], k + 1, 1, kk, ii, e)
      /\ o.verdict = "part" =>
            /\ Assembled(m, size, i + 1, o.re)
            /\ Leads(Requests(c), o.raw \o up[c], k, i + 1, kk, ii, e)
  <2>1. Assembled(m, size, i, re[c])
    BY <1>7 DEF Reads
  <2>. QED  BY <1>1, <1>7, <2>1, TurnOverStream, RequestsWritten DEF o
<1>. HIDE DEF m, size
<1>10. CASE o.verdict = "more"
  <2>1. raw'[c] \o up'[c] = raw[c] \o up[c] /\ re'[c] = re[c] /\ got'[c] = got[c]
    BY <1>3, <1>6, <1>9, <1>10
  <2>2. \A x, y, z : Writes(c, x, y, z) => Writes(c, x, y, z)'
    BY <1>3 DEF Writes
  <2>3. hpc[c] \in Reading
    BY <1>1 DEF Reading
  <2>. QED  BY <1>5, <2>1, <2>2, <2>3, StreamKept
<1>11. CASE o.verdict = "bad"
  <2>1. hpc'[c] \notin Reading /\ got'[c] = got[c]
    BY <1>3, <1>4, <1>11 DEF Reading
  <2>. QED  BY <1>5, <2>1, StreamKept
<1>12. CASE o.verdict = "message"
  <2>1. Len(got[c]) = k - 1 /\ k \in Nat \ {0} /\ k \in 1..Len(Calls[c])
    BY <1>7, <1>9, <1>12, RequestsWritten DEF Reads
  <2>2. /\ Len(got'[c]) = Len(got[c]) + 1 /\ got'[c][Len(got[c]) + 1] = o.data
        /\ \A x \in 1..Len(got[c]) : got'[c][x] = got[c][x]
    BY <1>1, <1>2, <1>6, <1>12, AppendProperties
  <2>3. Received(c)'
    <3>1. ASSUME NEW x \in 1..Len(got'[c])
          PROVE  x <= Len(Calls[c]) /\ got'[c][x] = Content(Calls[c][x], Size[Calls[c][x]])
      <4>1. x \in 1..Len(got[c]) \/ x = k
        BY <2>1, <2>2
      <4>2. CASE x \in 1..Len(got[c])
        <5>1. x <= Len(Calls[c]) /\ got[c][x] = Content(Calls[c][x], Size[Calls[c][x]])
          BY <4>2 DEF StreamOf, Received
        <5>. QED  BY <2>2, <4>2, <5>1
      <4>3. CASE x = k
        <5>1. got'[c][k] = o.data /\ k <= Len(Calls[c])
          BY <2>1, <2>2
        <5>2. m = Calls[c][k] /\ size = Size[Calls[c][k]]
          BY <2>1, RequestsWritten DEF m, size
        <5>. QED  BY <1>9, <1>12, <4>3, <5>1, <5>2
      <4>. QED  BY <4>1, <4>2, <4>3
    <3>. QED  BY <3>1 DEF Received
  <2>4. Reads(c, k + 1, 1)'
    <3>1. Len(got'[c]) = (k + 1) - 1
      BY <2>1, <2>2
    <3>. QED  BY <3>1 DEF Reads, Assembled
  <2>5. Leads(Requests(c), raw'[c] \o up'[c], k + 1, 1, kk, ii, e)
    BY <1>3, <1>6, <1>9, <1>12
  <2>6. Following(c)'
    BY <1>8, <2>4, <2>5 DEF Following
  <2>. QED  BY <1>5, <2>3, <2>6 DEF StreamOf
<1>13. CASE o.verdict = "part"
  <2>1. got' = got
    BY <1>3, <1>13
  <2>2. Received(c)'
    BY <2>1 DEF StreamOf, Received
  <2>3. Reads(c, k, i + 1)'
    BY <1>6, <1>7, <1>9, <1>13, <2>1 DEF Reads, m, size
  <2>4. Leads(Requests(c), raw'[c] \o up'[c], k, i + 1, kk, ii, e)
    BY <1>3, <1>6, <1>9, <1>13
  <2>5. Following(c)'
    BY <1>8, <2>3, <2>4 DEF Following
  <2>. QED  BY <1>5, <2>2, <2>5 DEF StreamOf
<1>. QED  BY <1>9, <1>10, <1>11, <1>12, <1>13

\* The handler reads what has arrived.
LEMMA HandlerReadStream ==
    ASSUME NEW c \in Conns, TypeInv, BufferTypes, StreamOf(c), HandlerRead(c)
    PROVE  BufferTypes' /\ StreamOf(c)'
<1>1. raw[c] \in Seq(Cells) /\ up[c] \in Seq(Cells) /\ hpc[c] = "read"
  BY DEF BufferTypes, HandlerRead
<1>2. PICK n \in 1..Len(up[c]) :
        /\ raw' = [raw EXCEPT ![c] = raw[c] \o SubSeq(up[c], 1, n)]
        /\ up' = [up EXCEPT ![c] = SubSeq(up[c], n + 1, Len(up[c]))]
  BY DEF HandlerRead
<1>3. re' = re /\ got' = got /\ cpc' = cpc /\ done' = done /\ todo' = todo
  BY DEF HandlerRead, callerVars
<1>. DEFINE v == SubSeq(up[c], 1, n)
            w == SubSeq(up[c], n + 1, Len(up[c]))
<1>4. /\ w \in Seq(Cells) /\ (raw[c] \o v) \in Seq(Cells)
      /\ (raw[c] \o v) \o w = raw[c] \o up[c]
  BY <1>1, MovedOn
<1>. HIDE DEF v, w
<1>5. raw' \in [Conns -> Seq(Cells)] /\ up' \in [Conns -> Seq(Cells)]
      /\ raw'[c] = raw[c] \o v /\ up'[c] = w
  BY <1>2, <1>4 DEF BufferTypes, v, w
<1>6. BufferTypes'
  BY <1>3, <1>5 DEF BufferTypes
<1>7. raw'[c] \o up'[c] = raw[c] \o up[c]
  BY <1>4, <1>5
<1>8. \A kk, ii, e : Writes(c, kk, ii, e) => Writes(c, kk, ii, e)'
  BY <1>3 DEF Writes
<1>9. hpc[c] \in Reading
  BY <1>1 DEF Reading
<1>. QED  BY <1>3, <1>6, <1>7, <1>8, <1>9, StreamKept

\* The other steps of a handler: it goes on as it was, or it has given the stream up.
LEMMA QuietHandlerStream ==
    ASSUME NEW c \in Conns, TypeInv, BufferTypes, StreamOf(c),
           HandlerCheck(c) \/ HandlerReadFails(c) \/ HandlerUnregister(c) \/ HandlerClose(c)
    PROVE  BufferTypes' /\ StreamOf(c)'
<1>1. got' = got /\ cpc' = cpc /\ done' = done /\ todo' = todo
  BY DEF HandlerCheck, HandlerReadFails, HandlerUnregister, HandlerClose, callerVars
<1>2. \/ /\ hpc[c] = "top" /\ UNCHANGED <<raw, re, up>>
      \/ hpc'[c] \notin Reading
  BY DEF HandlerCheck, HandlerReadFails, HandlerUnregister, HandlerClose, Leave, TypeInv, TypeOK,
         Reading, wireVars
<1>3. BufferTypes'
  <2>. DEFINE none == <<>>
  <2>1. none \in Seq(Cells) /\ NoFragments \in Reassembly
    BY DEF NoFragments, Reassembly
  <2>2. /\ \/ raw' = raw /\ re' = re
           \/ raw' = [raw EXCEPT ![c] = none] /\ re' = [re EXCEPT ![c] = NoFragments]
        /\ up' = up \/ up' = [up EXCEPT ![c] = none]
    BY DEF HandlerCheck, HandlerReadFails, HandlerUnregister, HandlerClose, Leave, wireVars
  <2>. HIDE DEF none
  <2>3. raw' \in [Conns -> Seq(Cells)] /\ re' \in [Conns -> Reassembly]
    BY <2>1, <2>2 DEF BufferTypes
  <2>4. up' \in [Conns -> Seq(Cells)]
    BY <2>1, <2>2 DEF BufferTypes
  <2>. QED  BY <1>1, <2>3, <2>4 DEF BufferTypes
<1>4. \A kk, ii, e : Writes(c, kk, ii, e) => Writes(c, kk, ii, e)'
  BY <1>1 DEF Writes
<1>5. hpc[c] = "top" => hpc[c] \in Reading
  BY DEF Reading
<1>6. got'[c] = got[c]
  BY <1>1
<1>7. CASE hpc[c] = "top" /\ UNCHANGED <<raw, re, up>>
  <2>1. raw'[c] \o up'[c] = raw[c] \o up[c] /\ re'[c] = re[c]
    BY <1>7
  <2>. QED  BY <1>3, <1>4, <1>5, <1>6, <1>7, <2>1, StreamKept
<1>8. CASE hpc'[c] \notin Reading
  BY <1>3, <1>6, <1>8, StreamKept
<1>. QED  BY <1>2, <1>7, <1>8

\* A caller step, or a handler step, leaves the other connections alone.
LEMMA OthersAlone ==
    ASSUME NEW c \in Conns, NEW d \in Conns, c # d, TypeInv, BufferTypes,
           CallerStep(d) \/ HandlerStep(d)
    PROVE  /\ raw'[c] = raw[c] /\ up'[c] = up[c] /\ re'[c] = re[c] /\ got'[c] = got[c]
           /\ hpc'[c] = hpc[c] /\ cpc'[c] = cpc[c] /\ done'[c] = done[c] /\ todo'[c] = todo[c]
<1>1. CASE CallerStep(d)
  <2>1. UNCHANGED <<raw, re, got, hpc>>
    BY <1>1 DEF CallerStep, Dial, BeginCall, WriteFrame, WriteFails, CloseIdle, ReadSome, ReadFails,
            ReadFrame, ReadAnswer, ReadRefused, HangUp, handlerVars
  <2>2. up'[c] = up[c]
    BY <1>1 DEF CallerStep, Dial, BeginCall, WriteFrame, WriteFails, CloseIdle, ReadSome, ReadFails,
            ReadFrame, ReadAnswer, ReadRefused, HangUp, wireVars, BufferTypes
  <2>3. cpc'[c] = cpc[c] /\ done'[c] = done[c] /\ todo'[c] = todo[c]
    <3>1. cpc'[c] = cpc[c]
      BY <1>1 DEF CallerStep, Dial, BeginCall, WriteFrame, WriteFails, CloseIdle, ReadSome, ReadFails,
              ReadFrame, ReadAnswer, ReadRefused, HangUp, TypeInv, TypeOK
    <3>2. done \in [Conns -> Nat] /\ todo \in [Conns -> Seq(Seq(Cells))]
      BY DEF TypeInv, CallerTypes
    <3>3. done'[c] = done[c]
      BY <1>1, <3>2 DEF CallerStep, Dial, BeginCall, WriteFrame, WriteFails, CloseIdle, ReadSome, ReadFails,
              ReadFrame, ReadAnswer, ReadRefused, HangUp
    <3>4. todo'[c] = todo[c]
      BY <1>1, <3>2 DEF CallerStep, Dial, BeginCall, WriteFrame, WriteFails, CloseIdle, ReadSome, ReadFails,
              ReadFrame, ReadAnswer, ReadRefused, HangUp
    <3>. QED  BY <3>1, <3>3, <3>4
  <2>. QED  BY <2>1, <2>2, <2>3
<1>2. CASE HandlerStep(d)
  <2>1. UNCHANGED <<cpc, done, todo>>
    BY <1>2 DEF HandlerStep, HandlerCheck, HandlerRead, HandlerReadFails, HandlerFrame,
            HandlerUnregister, HandlerClose, callerVars
  <2>2. raw'[c] = raw[c] /\ up'[c] = up[c] /\ re'[c] = re[c] /\ got'[c] = got[c]
    BY <1>2 DEF HandlerStep, HandlerCheck, HandlerRead, HandlerReadFails, HandlerFrame,
            HandlerUnregister, HandlerClose, Leave, wireVars, BufferTypes
  <2>3. hpc'[c] = hpc[c]
    BY <1>2 DEF HandlerStep, HandlerCheck, HandlerRead, HandlerReadFails, HandlerFrame,
            HandlerUnregister, HandlerClose, Leave, TypeInv, TypeOK
  <2>. QED  BY <2>1, <2>2, <2>3
<1>. QED  BY <1>1, <1>2

LEMMA CallerStreamInv ==
    ASSUME TypeInv, StreamInv, NEW d \in Conns, CallerStep(d)
    PROVE  StreamInv'
<1>1. BufferTypes /\ \A c \in Conns : StreamOf(c)
  BY DEF StreamInv
<1>2. up' \in [Conns -> Seq(Cells)] /\ StreamOf(d)'
  <2>1. CASE WriteFrame(d)
    BY <1>1, <2>1, WriteFrameStream
  <2>2. CASE WriteFails(d)
    BY <1>1, <2>2, WriteFailsStream
  <2>3. CASE BeginCall(d)
    <3>1. up' = up
      BY <2>3 DEF BeginCall, wireVars
    <3>. QED  BY <1>1, <2>3, <3>1, BeginCallStream DEF BufferTypes
  <2>4. CASE \/ Dial(d) \/ CloseIdle(d) \/ ReadSome(d) \/ ReadFails(d) \/ ReadFrame(d)
             \/ ReadAnswer(d) \/ ReadRefused(d)
    <3>1. up' = up
      BY <2>4 DEF Dial, CloseIdle, ReadSome, ReadFails, ReadFrame, ReadAnswer, ReadRefused, wireVars
    <3>2. StreamOf(d)'
      BY <1>1, <2>4, QuietCallerStream
    <3>. QED  BY <1>1, <3>1, <3>2 DEF BufferTypes
  <2>. QED  BY <2>1, <2>2, <2>3, <2>4 DEF CallerStep
<1>3. UNCHANGED <<raw, re, got>>
  BY DEF CallerStep, Dial, BeginCall, WriteFrame, WriteFails, CloseIdle, ReadSome, ReadFails,
         ReadFrame, ReadAnswer, ReadRefused, HangUp, handlerVars
<1>4. BufferTypes'
  BY <1>1, <1>2, <1>3 DEF BufferTypes
<1>5. ASSUME NEW c \in Conns, c # d PROVE StreamOf(c)'
  BY <1>1, <1>5, OthersAlone, OtherStream
<1>. QED  BY <1>2, <1>4, <1>5 DEF StreamInv

LEMMA HandlerStreamInv ==
    ASSUME TypeInv, StreamInv, NEW d \in Conns, HandlerStep(d)
    PROVE  StreamInv'
<1>1. BufferTypes /\ \A c \in Conns : StreamOf(c)
  BY DEF StreamInv
<1>2. BufferTypes' /\ StreamOf(d)'
  <2>1. CASE HandlerFrame(d)
    BY <1>1, <2>1, HandlerFrameStream
  <2>2. CASE HandlerRead(d)
    BY <1>1, <2>2, HandlerReadStream
  <2>3. CASE HandlerCheck(d) \/ HandlerReadFails(d) \/ HandlerUnregister(d) \/ HandlerClose(d)
    BY <1>1, <2>3, QuietHandlerStream
  <2>. QED  BY <2>1, <2>2, <2>3 DEF HandlerStep
<1>3. ASSUME NEW c \in Conns, c # d PROVE StreamOf(c)'
  BY <1>1, <1>3, OthersAlone, OtherStream
<1>. QED  BY <1>2, <1>3 DEF StreamInv

\* A connection gets a handler once, when it is accepted.
LEMMA RegisterStreamInv ==
    ASSUME TypeInv, StopInv, StreamInv, Register
    PROVE  StreamInv'
<1>1. BufferTypes /\ \A c \in Conns : StreamOf(c)
  BY DEF StreamInv
<1>2. accConn \in Conns /\ hpc[accConn] = "none"
  BY DEF Register, TypeInv, TypeOK, StopInv, Holder
<1>3. UNCHANGED <<raw, re, got, up, cpc, done, todo>> /\ hpc' = [hpc EXCEPT ![accConn] = "top"]
  BY DEF Register, callerVars, wireVars
<1>4. BufferTypes'
  BY <1>1, <1>3 DEF BufferTypes
<1>5. ASSUME NEW c \in Conns PROVE StreamOf(c)'
  <2>1. \A kk, ii, e : Writes(c, kk, ii, e) => Writes(c, kk, ii, e)'
    BY <1>3 DEF Writes
  <2>2. hpc'[c] \in Reading => hpc[c] \in Reading
    BY <1>2, <1>3 DEF Reading, TypeInv, TypeOK
  <2>3. raw'[c] \o up'[c] = raw[c] \o up[c] /\ re'[c] = re[c] /\ got'[c] = got[c]
    BY <1>3
  <2>. QED  BY <1>1, <2>1, <2>2, <2>3, StreamKept
<1>. QED  BY <1>4, <1>5 DEF StreamInv

\* The other steps touch no stream.
LEMMA OtherStreamInv ==
    ASSUME StreamInv,
           \/ Start \/ AcceptCheck \/ Accept \/ AcceptFails \/ StopBegin \/ StopListener \/ StopSweep
           \/ \E m \in Messages : RunJob(m) \/ SendToClient(m)
           \/ UNCHANGED vars
    PROVE  StreamInv'
<1>1. UNCHANGED <<raw, re, got, up, cpc, done, todo, hpc>>
  BY DEF Start, AcceptCheck, Accept, AcceptFails, StopBegin, StopListener, StopSweep, RunJob,
         SendToClient, vars, listenVars, handlerVars, callerVars, wireVars
<1>2. BufferTypes'
  BY <1>1 DEF StreamInv, BufferTypes
<1>3. ASSUME NEW c \in Conns PROVE StreamOf(c)'
  BY <1>1, OtherStream DEF StreamInv
<1>. QED  BY <1>2, <1>3 DEF StreamInv

\* Every step.
LEMMA StreamStep == TypeInv /\ StopInv /\ StreamInv /\ [Next]_vars => StreamInv'
<1>. SUFFICES ASSUME TypeInv, StopInv, StreamInv, [Next]_vars PROVE StreamInv'
  OBVIOUS
<1>1. CASE \E c \in Conns : CallerStep(c)
  BY <1>1, CallerStreamInv
<1>2. CASE \E c \in Conns : HandlerStep(c)
  BY <1>2, HandlerStreamInv
<1>3. CASE Register
  BY <1>3, RegisterStreamInv
<1>4. CASE \/ Start \/ AcceptCheck \/ Accept \/ AcceptFails \/ StopBegin \/ StopListener \/ StopSweep
           \/ \E m \in Messages : RunJob(m) \/ SendToClient(m)
           \/ UNCHANGED vars
  BY <1>4, OtherStreamInv
<1>. QED  BY <1>1, <1>2, <1>3, <1>4 DEF Next

\* However the stream is cut up, whether writes fail half-way and callers come and go,
\* Enqueue is given exactly the messages that a connection wrote (processFrames).
THEOREM ReceivedHolds == Spec => []ReceivedAsWritten
<1>1. StreamInv => ReceivedAsWritten
  <2>. SUFFICES ASSUME StreamInv, NEW c \in Conns, NEW i \in DOMAIN got[c]
                PROVE  i <= Len(Calls[c]) /\ got[c][i] = Content(Calls[c][i], Size[Calls[c][i]])
    BY DEF ReceivedAsWritten
  <2>1. got[c] \in Seq(Seq(Cells)) /\ Received(c)
    BY DEF StreamInv, BufferTypes, StreamOf
  <2>2. i \in 1..Len(got[c])
    BY <2>1, LenProperties
  <2>. QED  BY <2>1, <2>2 DEF Received
<1>. QED  BY InitTypeInv, InitStopInv, InitStreamInv, TypeStep, StopStep, StreamStep, <1>1, PTL DEF Spec

-----------------------------------------------------------------------------
(* The answers.  FlattenSeq joins the frames one after the other, so that the *)
(* stream that carries an answer leads from its first frame to behind its    *)
(* last one.                                                                 *)

\* A set that has 1 and, with each number below n, the next one, has all of them.
LEMMA UpTo ==
    ASSUME NEW n \in Nat, NEW T, n >= 1 => 1 \in T, \A i \in 1..(n - 1) : i \in T => i + 1 \in T
    PROVE  \A i \in 1..n : i \in T
<1>. DEFINE M == {i \in 1..n : i \notin T}
<1>. SUFFICES ASSUME M # {} PROVE FALSE
  OBVIOUS
<1>1. M \subseteq Nat
  OBVIOUS
<1>2. PICK x \in M : \A y \in M : ~ (<<y, x>> \in OpToRel(<, Nat))
  BY <1>1, WFMin, NatLessThanWellFounded
<1>3. x \in 1..n /\ x \notin T
  BY <1>2
<1>4. x # 1 /\ x - 1 \in 1..(n - 1) /\ (x - 1) + 1 = x
  BY <1>3
<1>5. x - 1 \notin T
  BY <1>3, <1>4
<1>6. x - 1 \in M /\ x - 1 \in Nat /\ x \in Nat /\ x - 1 < x
  BY <1>3, <1>4, <1>5
<1>7. <<x - 1, x>> \in OpToRel(<, Nat)
  BY <1>6 DEF OpToRel
<1>. QED  BY <1>2, <1>6, <1>7

\* The definition of FlattenSeq is a lawful recursion.
LEMMA FlattenSteps ==
    ASSUME NEW seqs, NEW n \in Nat \ {0}, Len(seqs) = n
    PROVE  \E f : /\ f[1] = seqs[1]
                  /\ \A i \in 1..(n - 1) : f[i + 1] = f[i] \o seqs[i + 1]
                  /\ FlattenSeq(seqs) = f[n]
<1>. DEFINE Joins(f, k) == f = [i \in 1..k |-> IF i = 1 THEN seqs[i] ELSE f[i - 1] \o seqs[i]]
            T == {k \in 1..n : \E f : Joins(f, k)}
            f == CHOOSE f : Joins(f, n)
<1>1. FlattenSeq(seqs) = f[n]
  BY DEF FlattenSeq
<1>2. 1 \in T
  <2>1. Joins([i \in 1..1 |-> seqs[1]], 1)
    OBVIOUS
  <2>2. 1 \in 1..n
    OBVIOUS
  <2>. QED  BY <2>1, <2>2
<1>3. ASSUME NEW k \in 1..(n - 1), k \in T PROVE k + 1 \in T
  <2>1. PICK g : Joins(g, k)
    BY <1>3
  <2>. DEFINE s == g[k] \o seqs[k + 1]
              h == [i \in 1..(k + 1) |-> IF i = k + 1 THEN s ELSE g[i]]
  <2>2. ASSUME NEW i \in 1..(k + 1)
        PROVE  h[i] = IF i = 1 THEN seqs[i] ELSE h[i - 1] \o seqs[i]
    <3>1. CASE i = k + 1
      <4>1. i # 1 /\ i - 1 = k /\ k \in 1..(k + 1) /\ k # k + 1
        BY <3>1
      <4>2. h[i] = s /\ h[k] = g[k]
        BY <3>1, <4>1
      <4>. HIDE DEF h
      <4>. QED  BY <3>1, <4>1, <4>2
    <3>2. CASE i # k + 1
      <4>1. i \in 1..k /\ (i # 1 => i - 1 \in 1..(k + 1) /\ i - 1 # k + 1)
        BY <3>2
      <4>2. g[i] = IF i = 1 THEN seqs[i] ELSE g[i - 1] \o seqs[i]
        BY <2>1, <4>1
      <4>3. h[i] = g[i] /\ (i # 1 => h[i - 1] = g[i - 1])
        BY <3>2, <4>1
      <4>. HIDE DEF h
      <4>. QED  BY <4>2, <4>3
    <3>. QED  BY <3>1, <3>2
  <2>3. h = [i \in 1..(k + 1) |-> h[i]]
    OBVIOUS
  <2>. HIDE DEF h
  <2>4. Joins(h, k + 1)
    BY <2>2, <2>3
  <2>5. k + 1 \in 1..n
    OBVIOUS
  <2>. QED  BY <2>4, <2>5
<1>4. n \in T
  <2>. HIDE DEF T
  <2>1. \A i \in 1..n : i \in T
    BY <1>2, <1>3, UpTo
  <2>. QED  BY <2>1
<1>5. Joins(f, n)
  BY <1>4
<1>. HIDE DEF f
<1>6. f[1] = seqs[1]
  <2>1. 1 \in 1..n
    OBVIOUS
  <2>. QED  BY <1>5, <2>1
<1>7. ASSUME NEW i \in 1..(n - 1) PROVE f[i + 1] = f[i] \o seqs[i + 1]
  <2>1. i + 1 \in 1..n /\ i + 1 # 1 /\ (i + 1) - 1 = i
    OBVIOUS
  <2>. QED  BY <1>5, <2>1
<1>. QED  BY <1>1, <1>6, <1>7

\* The one message that answers a call.
Answer(m, size) == <<[message |-> m, size |-> size]>>

LEMMA AnswerWritten ==
    ASSUME NEW m \in Nat, NEW size \in Nat \ {0}
    PROVE  /\ Answer(m, size) \in Mail /\ Len(Answer(m, size)) = 1
           /\ Answer(m, size)[1].message = m /\ Answer(m, size)[1].size = size
<1>. DEFINE letter == [message |-> m, size |-> size]
<1>1. letter \in [message : Nat, size : Nat \ {0}] /\ letter.message = m /\ letter.size = size
  OBVIOUS
<1>. HIDE DEF letter
<1>2. <<letter>> \in Mail /\ Len(<<letter>>) = 1 /\ <<letter>>[1] = letter
  BY <1>1 DEF Mail
<1>. QED  BY <1>1, <1>2 DEF Answer, letter

\* What SendToClient writes is the whole stream of the answer.
LEMMA AnswerStream ==
    ASSUME NEW m \in Nat, NEW size \in Nat \ {0}
    PROVE  LET s == FlattenSeq(FramesOf(Content(m, size))) IN
           s \in Seq(Cells) /\ Leads(Answer(m, size), s, 1, 1, 2, 1, 0)
<1>. DEFINE mail == Answer(m, size)
            frames == FramesOf(Content(m, size))
            n == Len(frames)
<1>1. mail \in Mail /\ Len(mail) = 1 /\ mail[1].message = m /\ mail[1].size = size
  BY AnswerWritten
<1>2. n \in Nat \ {0}
  <2>1. frames \in Seq(Seq(Cells)) /\ frames # <<>>
    BY MessageFrames
  <2>. HIDE DEF frames
  <2>. QED  BY <2>1, EmptySeq
<1>3. \A i \in 1..n : frames[i] \in Seq(Cells)
  BY MessageFrames
<1>4. Count(mail, 1) = n /\ \A i : Frame(mail, 1, i) = frames[i]
  BY <1>1 DEF Count, Frame
<1>5. \A i \in 1..n : IsPlace(mail, 1, i)
  BY <1>1, <1>4 DEF IsPlace
<1>. HIDE DEF mail, frames, n
<1>6. PICK f : /\ f[1] = frames[1]
               /\ \A i \in 1..(n - 1) : f[i + 1] = f[i] \o frames[i + 1]
               /\ FlattenSeq(frames) = f[n]
  BY <1>2, FlattenSteps DEF n
<1>. DEFINE T == {i \in 1..n :
                    /\ f[i] \in Seq(Cells)
                    /\ Leads(mail, f[i], 1, 1, NextCall(mail, 1, i), NextFrame(mail, 1, i), 0)}
<1>7. 1 \in T
  <2>1. 1 \in 1..n
    BY <1>2
  <2>. DEFINE none == <<>>
  <2>2. none \in Seq(Cells) /\ Leads(mail, none, 1, 1, 1, 1, 0)
    BY <1>1, EmptyStream
  <2>3. none \o frames[1] = frames[1]
    BY <1>3, <2>1, ConcatEmptySeq
  <2>. HIDE DEF none
  <2>4. Leads(mail, none \o Frame(mail, 1, 1), 1, 1, NextCall(mail, 1, 1), NextFrame(mail, 1, 1), 0)
    BY <1>1, <1>5, <2>1, <2>2, WholeWritten
  <2>. QED  BY <1>3, <1>4, <1>6, <2>1, <2>3, <2>4
<1>8. ASSUME NEW i \in 1..(n - 1), i \in T PROVE i + 1 \in T
  <2>1. i + 1 \in 1..n /\ i # n /\ i \in 1..n
    BY <1>2
  <2>2. f[i] \in Seq(Cells) /\ Leads(mail, f[i], 1, 1, NextCall(mail, 1, i), NextFrame(mail, 1, i), 0)
    BY <1>8
  <2>3. NextCall(mail, 1, i) = 1 /\ NextFrame(mail, 1, i) = i + 1
    BY <1>4, <2>1 DEF NextCall, NextFrame
  <2>. DEFINE j == i + 1
  <2>4. f[j] = f[i] \o frames[j]
    BY <1>6
  <2>. HIDE DEF j
  <2>5. IsPlace(mail, 1, j) /\ frames[j] \in Seq(Cells) /\ Frame(mail, 1, j) = frames[j] /\ j \in 1..n
    BY <1>3, <1>4, <1>5, <2>1 DEF j
  <2>6. Leads(mail, f[i], 1, 1, 1, j, 0)
    BY <2>2, <2>3 DEF j
  <2>7. Leads(mail, f[i] \o Frame(mail, 1, j), 1, 1, NextCall(mail, 1, j), NextFrame(mail, 1, j), 0)
    BY <1>1, <2>2, <2>5, <2>6, WholeWritten
  <2>8. f[i] \o frames[j] \in Seq(Cells)
    BY <2>2, <2>5, Concat
  <2>9. j \in T
    BY <2>4, <2>5, <2>7, <2>8
  <2>. QED  BY <2>9 DEF j
<1>9. n \in T
  <2>. HIDE DEF T
  <2>1. \A i \in 1..n : i \in T
    BY <1>2, <1>7, <1>8, UpTo
  <2>. QED  BY <1>2, <2>1
<1>10. NextCall(mail, 1, n) = 2 /\ NextFrame(mail, 1, n) = 1
  BY <1>4 DEF NextCall, NextFrame
<1>. QED  BY <1>6, <1>9, <1>10 DEF mail, frames

\* A turn that only takes a fragment in has no message, and one over an empty buffer
\* takes nothing.
LEMMA PartHasNoData ==
    ASSUME NEW r, NEW p, TakeFrame(r, p).verdict = "part"
    PROVE  TakeFrame(r, p).data = <<>>
<1>. DEFINE size == Head(r).b
            body == SubSeq(r, 2, size + 1)
            rest == SubSeq(r, size + 2, Len(r))
            o == TakeFrame(r, p)
<1>1. \/ \E v \in {"more", "message", "bad"} : \E q, d : o = Turn(v, q, p, d)
      \/ o = TakeFragment(body, rest, p)
  BY DEF TakeFrame
<1>2. CASE \E v \in {"more", "message", "bad"} : \E q, d : o = Turn(v, q, p, d)
  BY <1>2, TurnFields
<1>3. CASE o = TakeFragment(body, rest, p)
  <2>1. \/ \E v \in {"message", "bad"} : \E q, x, d : o = Turn(v, q, x, d)
        \/ \E q, x : o = Turn("part", q, x, <<>>)
    BY <1>3, Zenon DEF TakeFragment
  <2>2. CASE \E v \in {"message", "bad"} : \E q, x, d : o = Turn(v, q, x, d)
    BY <2>2, TurnFields
  <2>3. CASE \E q, x : o = Turn("part", q, x, <<>>)
    BY <2>3, TurnFields
  <2>. QED  BY <2>1, <2>2, <2>3
<1>. QED  BY <1>1, <1>2, <1>3

LEMMA NothingTaken ==
    ASSUME NEW p
    PROVE  TakeFrame(<<>>, p).verdict = "more" /\ TakeFrame(<<>>, p).raw = <<>>
<1>. DEFINE o == TakeFrame(<<>>, p)
<1>1. o = Turn("more", <<>>, p, <<>>)
  BY DEF TakeFrame
<1>. HIDE DEF o
<1>2. o.verdict = "more" /\ o.raw = <<>>
  BY <1>1, TurnFields
<1>. QED  BY <1>2 DEF o

\* The cells say which message they are of.
LEMMA ContentTells ==
    ASSUME NEW m \in Nat, NEW size \in Nat \ {0}, NEW x \in Nat, NEW n \in Nat \ {0},
           Content(m, size)[1] = Content(x, n)[1]
    PROVE  x = m
<1>1. Content(m, size)[1] = Cell("byte", m, 1) /\ Content(x, n)[1] = Cell("byte", x, 1)
  <2>1. 1 \in 1..size /\ 1 \in 1..n
    OBVIOUS
  <2>. QED  BY <2>1 DEF Content
<1>2. Cell("byte", m, 1).a = m /\ Cell("byte", x, 1).a = x
  BY DEF Cell
<1>. QED  BY <1>1, <1>2

\* An answer is taken for that to its own request, and for no other.
LEMMA DecodesOwn ==
    ASSUME NEW m \in Messages, NEW size \in ReplySizes[m]
    PROVE  /\ Decodes(m, Content(m, size))
           /\ \A x \in Messages : Decodes(x, Content(m, size)) => x = m
<1>1. \A x \in Messages : x \in Nat /\ ReplySizes[x] \subseteq Nat \ {0}
  BY TransportAssumption
<1>2. m \in Nat /\ size \in Nat \ {0}
  BY <1>1
<1>3. IsPrefix(Content(m, size), Content(m, size))
  <2>. DEFINE s == Content(m, size)
  <2>1. Len(s) \in Nat
    BY <1>2, ContentCells
  <2>. HIDE DEF s
  <2>2. IsPrefix(s, s)
    BY <2>1 DEF IsPrefix
  <2>. QED  BY <2>2 DEF s
<1>4. ASSUME NEW x \in Messages, Decodes(x, Content(m, size)) PROVE x = m
  <2>1. PICK n \in ReplySizes[x] : IsPrefix(Content(x, n), Content(m, size))
    BY <1>4 DEF Decodes
  <2>2. x \in Nat /\ n \in Nat \ {0}
    BY <1>1, <2>1
  <2>. DEFINE s == Content(x, n)
              t == Content(m, size)
  <2>3. s \in Seq(Cells) /\ t \in Seq(Cells) /\ Len(s) = n
    BY <1>2, <2>2, ContentCells
  <2>4. n <= Len(t) /\ SubSeq(s, 1, n) = SubSeq(t, 1, n) /\ Len(t) \in Nat
    BY <2>1, <2>3, LenProperties DEF IsPrefix
  <2>. HIDE DEF s, t
  <2>5. s[1] = t[1]
    <3>. DEFINE lo == 1
    <3>1. lo \in Nat \ {0} /\ n <= Len(s) /\ 1 \in 1..(n - lo + 1) /\ lo + 1 - 1 = 1
      BY <2>2, <2>3
    <3>2. SubSeq(s, lo, n) = SubSeq(t, lo, n)
      BY <2>4
    <3>. HIDE DEF lo
    <3>3. \A y \in 1..(n - lo + 1) : SubSeq(s, lo, n)[y] = s[lo + y - 1]
      BY <2>2, <2>3, <3>1, Slice
    <3>4. \A y \in 1..(n - lo + 1) : SubSeq(t, lo, n)[y] = t[lo + y - 1]
      BY <2>2, <2>3, <2>4, <3>1, Slice
    <3>5. s[lo + 1 - 1] = t[lo + 1 - 1]
      BY <3>1, <3>2, <3>3, <3>4
    <3>. QED  BY <3>1, <3>5
  <2>. QED  BY <1>2, <2>2, <2>5, ContentTells DEF s, t
<1>. QED  BY <1>3, <1>4 DEF Decodes

\* The server has handed the message over.
Arrived(m) ==
    \E c \in Conns : \E i \in 1..Len(got[c]) : i <= Len(Calls[c]) /\ Calls[c][i] = m

JobInv ==
    \A m \in Messages : /\ job[m] = "found" => m \in Sync
                        /\ job[m] # "none" => Arrived(m)

AnswerTypes ==
    /\ down \in [Conns -> Seq(Cells)]
    /\ crawBuf \in [Conns -> Seq(Cells)]
    /\ plainBuf \in [Conns -> Seq(Cells)]
    /\ cre \in [Conns -> Reassembly]

Waiting(c) == cpc[c] \in {"read", "frames"}

Quiet(c) == down[c] = <<>> /\ crawBuf[c] = <<>> /\ plainBuf[c] = <<>> /\ cre[c] = NoFragments

\* The caller has taken all of the answer, or expects its i-th frame.
Expects(c, m, size, k, i) ==
    /\ Leads(Answer(m, size), crawBuf[c] \o down[c], k, i, 2, 1, 0)
    /\ \/ /\ k = 1 /\ plainBuf[c] = <<>>
          /\ Assembled(m, size, i, cre[c])
          /\ i = 1 => cre[c] = NoFragments
       \/ k = 2 /\ plainBuf[c] = Content(m, size) /\ cre[c] = NoFragments

Coming(c) == \E size \in ReplySizes[Message(c)] : \E k, i : Expects(c, Message(c), size, k, i)

\* Of a connection in use: the server is not ahead of its caller, every synchronous call
\* that has ended was answered, and there are only cells of the answer to the present one.
AnswerOf(c) ==
    cpc[c] # "closed" =>
        /\ Len(got[c]) <= IF Waiting(c) THEN done[c] + 1 ELSE done[c]
        /\ Waiting(c) => Message(c) \in Sync
        /\ \A i \in 1..done[c] : Calls[c][i] \in Sync => job[Calls[c][i]] = "handled"
        /\ IF Waiting(c) /\ job[Message(c)] = "handled" THEN Coming(c) ELSE Quiet(c)

AnswerInv ==
    /\ AnswerTypes
    /\ JobInv
    /\ \A c \in Conns : AnswerOf(c)
    /\ AnswerBelongsToCall

LEMMA InitAnswerInv == Init => AnswerInv
<1>. SUFFICES ASSUME Init PROVE AnswerInv
  OBVIOUS
<1>1. AnswerTypes
  <2>1. NoFragments \in Reassembly
    BY DEF NoFragments, Reassembly
  <2>2. <<>> \in Seq(Cells)
    OBVIOUS
  <2>. QED  BY <2>1, <2>2 DEF Init, AnswerTypes
<1>2. JobInv
  BY DEF Init, JobInv
<1>3. ASSUME NEW c \in Conns PROVE AnswerOf(c)
  <2>1. got[c] = <<>> /\ cpc[c] = "new" /\ done[c] = 0 /\ Quiet(c)
    BY DEF Init, Quiet
  <2>2. Len(got[c]) = 0 /\ ~Waiting(c)
    BY <2>1 DEF Waiting
  <2>. QED  BY <2>1, <2>2 DEF AnswerOf
<1>4. AnswerBelongsToCall
  BY DEF Init, AnswerBelongsToCall
<1>. QED  BY <1>1, <1>2, <1>3, <1>4 DEF AnswerInv

\* A message that has arrived is one of the first that the server was given.
LEMMA ArrivedOnce ==
    ASSUME NEW c \in Conns, NEW i \in 1..Len(Calls[c]), Arrived(Calls[c][i])
    PROVE  i <= Len(got[c])
<1>1. PICK d \in Conns : \E j \in 1..Len(got[d]) : j <= Len(Calls[d]) /\ Calls[d][j] = Calls[c][i]
  BY DEF Arrived
<1>2. PICK j \in 1..Len(got[d]) : j <= Len(Calls[d]) /\ Calls[d][j] = Calls[c][i]
  BY <1>1
<1>3. /\ Calls[c] \in Seq(Messages) /\ DOMAIN Calls[c] = 1..Len(Calls[c]) /\ Len(Calls[c]) \in Nat
      /\ Calls[d] \in Seq(Messages) /\ DOMAIN Calls[d] = 1..Len(Calls[d]) /\ Len(Calls[d]) \in Nat
  BY TransportAssumption, LenProperties
<1>4. j \in 1..Len(Calls[d])
  BY <1>2, <1>3
<1>5. d = c /\ j = i
  BY <1>2, <1>3, <1>4, TransportAssumption
<1>. QED  BY <1>2, <1>5

\* A step that leaves the connection as it is and handles no message of it.
LEMMA AnswerKept ==
    ASSUME NEW c \in Conns, TypeInv, AnswerOf(c),
           cpc'[c] = cpc[c], done'[c] = done[c], down'[c] = down[c], crawBuf'[c] = crawBuf[c],
           plainBuf'[c] = plainBuf[c], cre'[c] = cre[c],
           cpc[c] # "closed" => Len(got'[c]) <= IF Waiting(c) THEN done[c] + 1 ELSE done[c],
           \A i \in 1..Len(Calls[c]) :
              Calls[c][i] \in Sync => (job'[Calls[c][i]] = "handled" <=> job[Calls[c][i]] = "handled")
    PROVE  AnswerOf(c)'
<1>. SUFFICES ASSUME cpc[c] # "closed" PROVE AnswerOf(c)'
  BY DEF AnswerOf
<1>1. Waiting(c)' <=> Waiting(c)
  BY DEF Waiting
<1>2. Message(c)' = Message(c)
  BY DEF Message
<1>3. Len(got'[c]) <= IF Waiting(c)' THEN done'[c] + 1 ELSE done'[c]
  BY <1>1
<1>4. Waiting(c)' => Message(c)' \in Sync
  BY <1>1, <1>2 DEF AnswerOf
<1>5. done[c] \in Nat /\ Len(Calls[c]) \in Nat /\ done[c] <= Len(Calls[c])
      /\ (Waiting(c) => done[c] + 1 \in 1..Len(Calls[c]))
  <2>1. Calls[c] \in Seq(Messages) /\ Len(Calls[c]) \in Nat
    BY TransportAssumption, LenProperties
  <2>2. done[c] \in 0..Len(Calls[c]) /\ (Waiting(c) => done[c] < Len(Calls[c]))
    BY DEF TypeInv, TypeOK, CallerTypes, Waiting
  <2>. QED  BY <2>1, <2>2
<1>6. ASSUME NEW i \in 1..done'[c], Calls[c][i] \in Sync PROVE job'[Calls[c][i]] = "handled"
  <2>1. i \in 1..done[c] /\ i \in 1..Len(Calls[c])
    BY <1>5
  <2>2. job[Calls[c][i]] = "handled"
    BY <1>6, <2>1 DEF AnswerOf
  <2>. QED  BY <1>6, <2>1, <2>2
<1>7. Waiting(c) => (job'[Message(c)] = "handled" <=> job[Message(c)] = "handled")
  <2>1. Message(c) = Calls[c][done[c] + 1]
    BY DEF Message
  <2>2. Waiting(c) => Message(c) \in Sync
    BY DEF AnswerOf
  <2>. QED  BY <1>5, <2>1, <2>2
<1>8. (Quiet(c) => Quiet(c)') /\ (Coming(c) => Coming(c)')
  BY <1>2 DEF Quiet, Coming, Expects
<1>9. IF Waiting(c)' /\ job'[Message(c)'] = "handled" THEN Coming(c)' ELSE Quiet(c)'
  BY <1>1, <1>2, <1>7, <1>8 DEF AnswerOf
<1>. QED  BY <1>3, <1>4, <1>6, <1>9 DEF AnswerOf

\* A frame is written: before the last one the server cannot have had the message.
LEMMA WriteFrameAnswer ==
    ASSUME NEW c \in Conns, TypeInv, JobInv, AnswerOf(c), WriteFrame(c)
    PROVE  AnswerOf(c)'
<1>1. cpc[c] = "write" /\ done[c] \in Nat /\ done[c] < Len(Calls[c])
  BY DEF WriteFrame, TypeInv, CallerTypes
<1>2. UNCHANGED <<got, job, down, crawBuf, plainBuf, cre>>
  BY DEF WriteFrame, handlerVars
<1>3. \/ cpc'[c] = "write" /\ done'[c] = done[c]
      \/ cpc'[c] = "read" /\ done'[c] = done[c] /\ Message(c) \in Sync
      \/ cpc'[c] = "idle" /\ done'[c] = done[c] + 1 /\ Message(c) \notin Sync
  BY DEF WriteFrame, TypeInv, TypeOK, CallerTypes
<1>4. /\ Len(got[c]) <= done[c] /\ Quiet(c)
      /\ \A i \in 1..done[c] : Calls[c][i] \in Sync => job[Calls[c][i]] = "handled"
  BY <1>1 DEF AnswerOf, Waiting
<1>5. Quiet(c)'
  BY <1>2, <1>4 DEF Quiet
<1>6. Message(c) = Calls[c][done[c] + 1] /\ Message(c) \in Messages /\ done[c] + 1 \in 1..Len(Calls[c])
  BY <1>1, MessageType DEF Message
<1>7. got[c] = got'[c] /\ Len(got'[c]) <= done[c]
  BY <1>2, <1>4
<1>8. CASE cpc'[c] = "write" /\ done'[c] = done[c]
  BY <1>2, <1>4, <1>5, <1>7, <1>8 DEF AnswerOf, Waiting
<1>9. CASE cpc'[c] = "read" /\ done'[c] = done[c] /\ Message(c) \in Sync
  <2>1. ~ (done[c] + 1 <= Len(got[c]))
    <3>1. Len(got[c]) <= done[c] /\ done[c] \in Nat
      BY <1>1, <1>4
    <3>. QED  BY <3>1
  <2>2. job[Message(c)] = "none"
    BY <1>6, <2>1, ArrivedOnce DEF JobInv
  <2>3. Message(c)' = Message(c) /\ Waiting(c)'
    BY <1>9 DEF Message, Waiting
  <2>4. job'[Message(c)'] # "handled"
    BY <1>2, <2>2, <2>3
  <2>5. Len(got'[c]) <= done'[c] + 1
    BY <1>1, <1>7, <1>9
  <2>. QED  BY <1>2, <1>4, <1>5, <1>9, <2>3, <2>4, <2>5 DEF AnswerOf
<1>10. CASE cpc'[c] = "idle" /\ done'[c] = done[c] + 1 /\ Message(c) \notin Sync
  <2>1. ASSUME NEW i \in 1..done'[c], Calls[c][i] \in Sync PROVE job'[Calls[c][i]] = "handled"
    <3>1. i # done[c] + 1
      BY <1>6, <1>10, <2>1
    <3>2. i \in 1..done[c]
      BY <1>1, <1>10, <3>1
    <3>. QED  BY <1>2, <1>4, <2>1, <3>2
  <2>2. ~Waiting(c)'
    BY <1>10 DEF Waiting
  <2>3. Len(got'[c]) <= done'[c]
    BY <1>1, <1>7, <1>10
  <2>. QED  BY <1>5, <2>1, <2>2, <2>3 DEF AnswerOf
<1>. QED  BY <1>3, <1>8, <1>9, <1>10

\* What has arrived moves into the buffer.
LEMMA ReadSomeAnswer ==
    ASSUME NEW c \in Conns, TypeInv, AnswerTypes, AnswerOf(c), ReadSome(c)
    PROVE  AnswerTypes' /\ AnswerOf(c)'
<1>1. crawBuf[c] \in Seq(Cells) /\ down[c] \in Seq(Cells) /\ cpc[c] = "read"
  BY DEF AnswerTypes, ReadSome
<1>2. PICK n \in 1..Len(down[c]) :
        /\ crawBuf' = [crawBuf EXCEPT ![c] = crawBuf[c] \o SubSeq(down[c], 1, n)]
        /\ down' = [down EXCEPT ![c] = SubSeq(down[c], n + 1, Len(down[c]))]
  BY DEF ReadSome
<1>3. UNCHANGED <<got, job, done, plainBuf, cre>> /\ cpc' = [cpc EXCEPT ![c] = "frames"]
  BY DEF ReadSome, handlerVars
<1>. DEFINE v == SubSeq(down[c], 1, n)
            w == SubSeq(down[c], n + 1, Len(down[c]))
<1>4. /\ w \in Seq(Cells) /\ (crawBuf[c] \o v) \in Seq(Cells)
      /\ (crawBuf[c] \o v) \o w = crawBuf[c] \o down[c]
  BY <1>1, MovedOn
<1>. HIDE DEF v, w
<1>5. crawBuf' \in [Conns -> Seq(Cells)] /\ down' \in [Conns -> Seq(Cells)]
      /\ crawBuf'[c] = crawBuf[c] \o v /\ down'[c] = w
  BY <1>2, <1>4 DEF AnswerTypes, v, w
<1>6. AnswerTypes'
  BY <1>3, <1>5 DEF AnswerTypes
<1>7. crawBuf'[c] \o down'[c] = crawBuf[c] \o down[c]
  BY <1>4, <1>5
<1>8. down[c] # <<>>
  <2>1. Len(down[c]) # 0
    BY <1>2
  <2>. QED  BY <1>1, <2>1, EmptyIffShort
<1>9. cpc'[c] = "frames"
  BY <1>3 DEF TypeInv, TypeOK
<1>10. Waiting(c) /\ Waiting(c)' /\ Message(c)' = Message(c)
  BY <1>1, <1>3, <1>9 DEF Waiting, Message
<1>11. job[Message(c)] = "handled" /\ Coming(c)
  BY <1>1, <1>8, <1>10 DEF AnswerOf, Quiet
<1>12. Coming(c)'
  <2>1. PICK size \in ReplySizes[Message(c)] : \E k, i : Expects(c, Message(c), size, k, i)
    BY <1>11 DEF Coming
  <2>2. PICK k, i : Expects(c, Message(c), size, k, i)
    BY <2>1
  <2>3. plainBuf'[c] = plainBuf[c] /\ cre'[c] = cre[c]
    BY <1>3
  <2>4. Expects(c, Message(c), size, k, i)'
    BY <1>7, <1>10, <2>2, <2>3 DEF Expects
  <2>. QED  BY <1>10, <2>1, <2>4 DEF Coming
<1>13. AnswerOf(c)'
  <2>1. /\ Len(got[c]) <= done[c] + 1 /\ Message(c) \in Sync
        /\ \A i \in 1..done[c] : Calls[c][i] \in Sync => job[Calls[c][i]] = "handled"
    BY <1>1, <1>10 DEF AnswerOf
  <2>2. job'[Message(c)'] = "handled"
    BY <1>3, <1>10, <1>11
  <2>. QED  BY <1>3, <1>10, <1>12, <2>1, <2>2 DEF AnswerOf
<1>. QED  BY <1>6, <1>13

\* A caller that has the whole answer finds nothing behind it.
LEMMA NothingBehind ==
    ASSUME NEW m \in Nat, NEW size \in Nat \ {0}, NEW r \in Seq(Cells), NEW u \in Seq(Cells), NEW i,
           Leads(Answer(m, size), r \o u, 2, i, 2, 1, 0)
    PROVE  r = <<>> /\ u = <<>>
<1>. DEFINE mail == Answer(m, size)
            s == r \o u
<1>1. mail \in Mail /\ Len(mail) = 1
  BY AnswerWritten
<1>2. s \in Seq(Cells) /\ Len(s) = Len(r) + Len(u) /\ Len(r) \in Nat /\ Len(u) \in Nat
  BY Concat
<1>. HIDE DEF mail
<1>3. s = <<>>
  <2>. SUFFICES ASSUME s # <<>> PROVE FALSE
    OBVIOUS
  <2>1. Leads(mail, s, 2, i, 2, 1, 0)
    BY DEF mail
  <2>. HIDE DEF s
  <2>2. IsPlace(mail, 2, i)
    BY <1>1, <1>2, <2>1, FrontOfStream
  <2>. QED  BY <1>1, <2>2 DEF IsPlace
<1>. HIDE DEF s
<1>4. Len(s) = 0
  BY <1>2, <1>3, EmptyIffShort
<1>5. Len(r) = 0 /\ Len(u) = 0
  <2>1. Len(r) + Len(u) = 0 /\ Len(r) \in Nat /\ Len(u) \in Nat
    BY <1>2, <1>4
  <2>. DEFINE a == Len(r)
              b == Len(u)
  <2>. HIDE DEF a, b
  <2>2. a + b = 0 /\ a \in Nat /\ b \in Nat
    BY <2>1 DEF a, b
  <2>3. a = 0 /\ b = 0
    BY <2>2
  <2>. QED  BY <2>3 DEF a, b
<1>. QED  BY <1>5, EmptyIffShort

\* A turn of ReadLoop that takes a frame takes one of the answer.
LEMMA ReadFrameAnswer ==
    ASSUME NEW c \in Conns, TypeInv, AnswerTypes, AnswerOf(c), ReadFrame(c)
    PROVE  AnswerTypes' /\ AnswerOf(c)'
<1>. DEFINE o == TakeFrame(crawBuf[c], cre[c])
<1>. PICK m : m = Message(c)
  OBVIOUS
<1>1. /\ crawBuf[c] \in Seq(Cells) /\ down[c] \in Seq(Cells) /\ cre[c] \in Reassembly
      /\ plainBuf[c] \in Seq(Cells) /\ cpc[c] = "frames" /\ o.verdict \in {"message", "part"}
  BY DEF AnswerTypes, ReadFrame
<1>2. o.raw \in Seq(Cells) /\ o.re \in Reassembly /\ o.data \in Seq(Cells)
  BY <1>1, TakeFrameTypes
<1>3. /\ crawBuf' = [crawBuf EXCEPT ![c] = o.raw]
      /\ plainBuf' = [plainBuf EXCEPT ![c] = plainBuf[c] \o o.data]
      /\ cre' = [cre EXCEPT ![c] = o.re]
      /\ UNCHANGED <<got, job, cpc, done, down>>
  BY DEF ReadFrame, handlerVars, wireVars
<1>4. o.verdict = "part" => o.data = <<>>
  BY PartHasNoData
<1>. HIDE DEF o
<1>5. plainBuf[c] \o o.data \in Seq(Cells)
  BY <1>1, <1>2, Concat
<1>6. /\ AnswerTypes'
      /\ crawBuf'[c] = o.raw /\ plainBuf'[c] = plainBuf[c] \o o.data /\ cre'[c] = o.re
      /\ down'[c] = down[c]
  BY <1>2, <1>3, <1>5 DEF AnswerTypes
<1>7. Waiting(c) /\ Waiting(c)' /\ Message(c)' = m /\ Message(c) = m
  BY <1>1, <1>3 DEF Waiting, Message
<1>8. crawBuf[c] # <<>>
  BY <1>1, NothingTaken DEF o
<1>9. job[m] = "handled" /\ Coming(c) /\ m \in Sync
  BY <1>1, <1>7, <1>8 DEF AnswerOf, Quiet
<1>10. PICK size \in ReplySizes[m] : \E k, i : Expects(c, m, size, k, i)
  BY <1>7, <1>9 DEF Coming
<1>11. PICK k, i : Expects(c, m, size, k, i)
  BY <1>10
<1>12. m \in Nat /\ size \in Nat \ {0}
  BY <1>9, <1>10, TransportAssumption
<1>. DEFINE mail == Answer(m, size)
<1>13. mail \in Mail /\ mail[1].message = m /\ mail[1].size = size
  BY <1>12, AnswerWritten
<1>14. Leads(mail, crawBuf[c] \o down[c], k, i, 2, 1, 0)
  BY <1>11 DEF Expects
<1>15. k = 1 /\ plainBuf[c] = <<>> /\ Assembled(m, size, i, cre[c]) /\ (i = 1 => cre[c] = NoFragments)
  <2>1. k # 2
    BY <1>1, <1>8, <1>12, <1>14, NothingBehind
  <2>. QED  BY <1>11, <2>1 DEF Expects
<1>. HIDE DEF mail
<1>16. Leads(mail, crawBuf[c] \o down[c], 1, i, 2, 1, 0)
  BY <1>14, <1>15
<1>17. i \in Nat
  BY <1>13, <1>16, ReaderBehind
<1>18. /\ o.verdict = "message" =>
            /\ o.data = Content(m, size)
            /\ o.re = NoFragments \/ (i = 1 /\ o.re = cre[c])
            /\ Leads(mail, o.raw \o down[c], 2, 1, 2, 1, 0)
       /\ o.verdict = "part" =>
            /\ Assembled(m, size, i + 1, o.re)
            /\ Leads(mail, o.raw \o down[c], 1, i + 1, 2, 1, 0)
  <2>1. Assembled(mail[1].message, mail[1].size, i, cre[c])
    BY <1>13, <1>15
  <2>2. 1 + 1 = 2
    OBVIOUS
  <2>3. /\ o.verdict = "message" =>
             /\ o.data = Content(mail[1].message, mail[1].size)
             /\ o.re = NoFragments \/ (i = 1 /\ o.re = cre[c])
             /\ Leads(mail, o.raw \o down[c], 1 + 1, 1, 2, 1, 0)
        /\ o.verdict = "part" =>
             /\ Assembled(mail[1].message, mail[1].size, i + 1, o.re)
             /\ Leads(mail, o.raw \o down[c], 1, i + 1, 2, 1, 0)
    BY <1>1, <1>13, <1>16, <2>1, TurnOverStream DEF o
  <2>. QED  BY <1>13, <2>2, <2>3
<1>19. plainBuf'[c] = o.data
  BY <1>2, <1>6, <1>15, ConcatEmptySeq
<1>20. Coming(c)'
  <2>1. CASE o.verdict = "message"
    <3>1. Expects(c, m, size, 2, 1)'
      <4>1. o.re = NoFragments
        BY <1>15, <1>18, <2>1
      <4>. QED  BY <1>6, <1>18, <1>19, <2>1, <4>1 DEF Expects, mail
    <3>. QED  BY <1>7, <1>10, <3>1 DEF Coming
  <2>2. CASE o.verdict = "part"
    <3>1. Expects(c, m, size, 1, i + 1)'
      <4>1. i + 1 # 1 \/ i = 0
        BY <1>17
      <4>2. i # 0
        <5>. DEFINE r == crawBuf[c]
                    s == r \o down[c]
        <5>1. s \in Seq(Cells) /\ s # <<>>
          BY <1>1, <1>8, Joined
        <5>. HIDE DEF s
        <5>2. IsPlace(mail, 1, i)
          BY <1>13, <1>16, <5>1, FrontOfStream DEF s
        <5>. QED  BY <1>13, <5>2, FrameAtPlace
      <4>3. i + 1 # 1
        BY <1>17, <4>2
      <4>. QED  BY <1>4, <1>6, <1>18, <1>19, <2>2, <4>3 DEF Expects, mail
    <3>. QED  BY <1>7, <1>10, <3>1 DEF Coming
  <2>. QED  BY <1>1, <2>1, <2>2
<1>21. AnswerOf(c)'
  <2>1. /\ Len(got[c]) <= done[c] + 1
        /\ \A x \in 1..done[c] : Calls[c][x] \in Sync => job[Calls[c][x]] = "handled"
    BY <1>1, <1>7 DEF AnswerOf
  <2>. QED  BY <1>3, <1>7, <1>9, <1>20, <2>1 DEF AnswerOf
<1>. QED  BY <1>6, <1>21

\* ReadLoop has no frame left: it takes the answer for what it is, or reads on.
LEMMA ReadAnswerAnswer ==
    ASSUME NEW c \in Conns, TypeInv, AnswerTypes, AnswerOf(c), AnswerBelongsToCall, ReadAnswer(c)
    PROVE  AnswerTypes' /\ AnswerOf(c)' /\ AnswerBelongsToCall'
<1>. DEFINE o == TakeFrame(crawBuf[c], cre[c])
<1>. PICK m : m = Message(c)
  OBVIOUS
<1>1. /\ crawBuf[c] \in Seq(Cells) /\ down[c] \in Seq(Cells) /\ cre[c] \in Reassembly
      /\ cpc[c] = "frames" /\ o.verdict = "more" /\ o.raw \in Seq(Cells)
      /\ done[c] \in Nat /\ done[c] < Len(Calls[c])
  BY TakeFrameTypes DEF AnswerTypes, ReadAnswer, TypeInv, CallerTypes
<1>2. /\ UNCHANGED <<got, job, cre, down>>
      /\ plainBuf' = [plainBuf EXCEPT ![c] = <<>>]
      /\ \/ /\ \E x \in Messages : Decodes(x, plainBuf[c]) /\ answers' = [answers EXCEPT ![m] = x]
            /\ done' = [done EXCEPT ![c] = done[c] + 1]
            /\ cpc' = [cpc EXCEPT ![c] = "idle"]
            /\ crawBuf' = [crawBuf EXCEPT ![c] = <<>>]
         \/ /\ \A x \in Messages : ~Decodes(x, plainBuf[c])
            /\ cpc' = [cpc EXCEPT ![c] = "read"]
            /\ crawBuf' = [crawBuf EXCEPT ![c] = o.raw]
            /\ UNCHANGED <<answers, done>>
  BY DEF ReadAnswer, handlerVars, wireVars
<1>. HIDE DEF o
<1>. DEFINE none == <<>>
<1>3. none \in Seq(Cells)
  OBVIOUS
<1>4. plainBuf' = [plainBuf EXCEPT ![c] = none] /\ (crawBuf' = [crawBuf EXCEPT ![c] = none]
                                                   \/ crawBuf' = [crawBuf EXCEPT ![c] = o.raw])
  BY <1>2
<1>. HIDE DEF none
<1>5. AnswerTypes' /\ plainBuf'[c] = none
  <2>1. crawBuf' \in [Conns -> Seq(Cells)]
    BY <1>1, <1>3, <1>4 DEF AnswerTypes
  <2>2. plainBuf' \in [Conns -> Seq(Cells)] /\ plainBuf'[c] = none
    BY <1>3, <1>4 DEF AnswerTypes
  <2>3. down' \in [Conns -> Seq(Cells)] /\ cre' \in [Conns -> Reassembly]
    BY <1>2 DEF AnswerTypes
  <2>. QED  BY <2>1, <2>2, <2>3 DEF AnswerTypes
<1>6. /\ Len(got[c]) <= done[c] + 1 /\ m \in Sync
      /\ \A i \in 1..done[c] : Calls[c][i] \in Sync => job[Calls[c][i]] = "handled"
      /\ IF job[m] = "handled" THEN Coming(c) ELSE Quiet(c)
  BY <1>1 DEF AnswerOf, Waiting
<1>7. m = Calls[c][done[c] + 1] /\ m \in Messages /\ m \in Nat
      /\ ReplySizes[m] \subseteq Nat \ {0}
      /\ \A x \in Messages : ReplySizes[x] \subseteq Nat \ {0} /\ x \in Nat
  BY <1>1, <1>6, TransportAssumption DEF Message
<1>8. ASSUME Quiet(c) PROVE o.raw = none /\ (\A x \in Messages : ~Decodes(x, plainBuf[c]))
  <2>1. crawBuf[c] = <<>> /\ plainBuf[c] = none
    BY <1>8 DEF Quiet, none
  <2>2. o.raw = none
    BY <2>1, NothingTaken DEF o, none
  <2>3. ASSUME NEW x \in Messages, NEW n \in ReplySizes[x], IsPrefix(Content(x, n), none) PROVE FALSE
    <3>1. x \in Nat /\ n \in Nat \ {0}
      BY <1>7
    <3>2. Len(Content(x, n)) = n /\ Len(none) = 0
      BY <3>1, ContentCells DEF none
    <3>. QED  BY <2>3, <3>1, <3>2 DEF IsPrefix
  <2>. QED  BY <2>1, <2>2, <2>3 DEF Decodes
<1>9. CASE Quiet(c) /\ job[m] # "handled"
  <2>1. cpc' = [cpc EXCEPT ![c] = "read"] /\ crawBuf' = [crawBuf EXCEPT ![c] = none]
        /\ UNCHANGED <<answers, done>>
    BY <1>2, <1>8, <1>9
  <2>2. cpc'[c] = "read" /\ crawBuf'[c] = none
    BY <2>1 DEF TypeInv, TypeOK, AnswerTypes
  <2>3. Quiet(c)'
    BY <1>2, <1>5, <1>9, <2>2 DEF Quiet, none
  <2>4. Waiting(c)' /\ Message(c)' = m
    BY <2>1, <2>2 DEF Waiting, Message
  <2>5. AnswerOf(c)'
    BY <1>2, <1>6, <1>9, <2>1, <2>3, <2>4 DEF AnswerOf
  <2>6. AnswerBelongsToCall'
    BY <2>1 DEF AnswerBelongsToCall
  <2>. QED  BY <1>5, <2>5, <2>6
<1>10. CASE job[m] = "handled"
  <2>1. PICK size \in ReplySizes[m] : \E k, i : Expects(c, m, size, k, i)
    BY <1>6, <1>10 DEF Coming
  <2>2. PICK k, i : Expects(c, m, size, k, i)
    BY <2>1
  <2>3. size \in Nat \ {0}
    BY <1>7, <2>1
  <2>4. CASE /\ k = 1 /\ plainBuf[c] = none
             /\ Assembled(m, size, i, cre[c])
             /\ i = 1 => cre[c] = NoFragments
    <3>1. ASSUME NEW x \in Messages, NEW n \in ReplySizes[x], IsPrefix(Content(x, n), none) PROVE FALSE
      <4>1. x \in Nat /\ n \in Nat \ {0}
        BY <1>7
      <4>2. Len(Content(x, n)) = n /\ Len(none) = 0
        BY <4>1, ContentCells DEF none
      <4>. QED  BY <3>1, <4>1, <4>2 DEF IsPrefix
    <3>2. \A x \in Messages : ~Decodes(x, plainBuf[c])
      BY <2>4, <3>1 DEF Decodes
    <3>3. cpc' = [cpc EXCEPT ![c] = "read"] /\ crawBuf' = [crawBuf EXCEPT ![c] = o.raw]
          /\ UNCHANGED <<answers, done>>
      BY <1>2, <3>2
    <3>4. o.raw = crawBuf[c]
      <4>. DEFINE mail == Answer(m, size)
      <4>1. mail \in Mail /\ mail[1].message = m /\ mail[1].size = size
        BY <1>7, <2>3, AnswerWritten
      <4>2. Leads(mail, crawBuf[c] \o down[c], 1, i, 2, 1, 0)
        BY <2>2, <2>4 DEF Expects
      <4>. HIDE DEF mail
      <4>3. Assembled(mail[1].message, mail[1].size, i, cre[c])
        BY <2>4, <4>1
      <4>. QED  BY <1>1, <4>1, <4>2, <4>3, TurnOverStream DEF o
    <3>5. cpc'[c] = "read" /\ crawBuf'[c] = crawBuf[c]
      BY <1>1, <3>3, <3>4 DEF TypeInv, TypeOK, AnswerTypes
    <3>6. Expects(c, m, size, k, i)'
      BY <1>2, <1>5, <2>2, <2>4, <3>5 DEF Expects, none
    <3>7. Waiting(c)' /\ Message(c)' = m
      BY <3>3, <3>5 DEF Waiting, Message
    <3>8. Coming(c)'
      BY <2>1, <3>6, <3>7 DEF Coming
    <3>9. AnswerOf(c)'
      BY <1>2, <1>6, <1>10, <3>3, <3>7, <3>8 DEF AnswerOf
    <3>10. AnswerBelongsToCall'
      BY <3>3 DEF AnswerBelongsToCall
    <3>. QED  BY <1>5, <3>9, <3>10
  <2>5. CASE k = 2 /\ plainBuf[c] = Content(m, size) /\ cre[c] = NoFragments
    <3>1. Decodes(m, plainBuf[c]) /\ \A x \in Messages : Decodes(x, plainBuf[c]) => x = m
      BY <1>7, <2>1, <2>5, DecodesOwn
    <3>2. /\ answers' = [answers EXCEPT ![m] = m] /\ done' = [done EXCEPT ![c] = done[c] + 1]
          /\ cpc' = [cpc EXCEPT ![c] = "idle"] /\ crawBuf' = [crawBuf EXCEPT ![c] = none]
      BY <1>2, <1>7, <3>1 DEF none
    <3>3. down[c] = none
      <4>1. Leads(Answer(m, size), crawBuf[c] \o down[c], 2, i, 2, 1, 0)
        BY <2>2, <2>5 DEF Expects
      <4>. QED  BY <1>1, <1>7, <2>3, <4>1, NothingBehind DEF none
    <3>4. cpc'[c] = "idle" /\ crawBuf'[c] = none /\ done'[c] = done[c] + 1
      BY <3>2 DEF TypeInv, TypeOK, AnswerTypes, CallerTypes
    <3>5. Quiet(c)' /\ ~Waiting(c)'
      BY <1>2, <1>5, <2>5, <3>3, <3>4 DEF Quiet, Waiting, none
    <3>6. ASSUME NEW x \in 1..done'[c], Calls[c][x] \in Sync PROVE job'[Calls[c][x]] = "handled"
      <4>1. x \in 1..done[c] \/ x = done[c] + 1
        BY <1>1, <3>4
      <4>. QED  BY <1>2, <1>6, <1>7, <1>10, <3>6, <4>1
    <3>7. AnswerOf(c)'
      BY <1>2, <1>6, <3>4, <3>5, <3>6 DEF AnswerOf
    <3>8. AnswerBelongsToCall'
      BY <3>2 DEF AnswerBelongsToCall, TypeInv, TypeOK
    <3>. QED  BY <1>5, <3>7, <3>8
  <2>. QED  BY <2>2, <2>4, <2>5 DEF Expects, none
<1>. QED  BY <1>6, <1>9, <1>10

\* The other steps of a caller: it has closed the connection, or has not begun to read.
LEMMA QuietCallerAnswer ==
    ASSUME NEW c \in Conns, TypeInv, AnswerTypes, AnswerOf(c),
           Dial(c) \/ BeginCall(c) \/ WriteFails(c) \/ CloseIdle(c) \/ ReadFails(c) \/ ReadRefused(c)
    PROVE  AnswerTypes' /\ AnswerOf(c)'
<1>1. UNCHANGED <<got, job, done, cre>>
  BY DEF Dial, BeginCall, WriteFails, CloseIdle, ReadFails, ReadRefused, HangUp, handlerVars
<1>2. CASE Dial(c) \/ BeginCall(c)
  <2>1. UNCHANGED <<down, crawBuf, plainBuf>> /\ cpc[c] \in {"new", "idle"} /\ cpc'[c] \in {"idle", "write"}
    BY <1>2 DEF Dial, BeginCall, wireVars, TypeInv, TypeOK
  <2>2. ~Waiting(c) /\ ~Waiting(c)' /\ cpc[c] # "closed"
    BY <2>1 DEF Waiting
  <2>3. AnswerTypes' /\ (Quiet(c) => Quiet(c)')
    BY <1>1, <2>1 DEF AnswerTypes, Quiet
  <2>. QED  BY <1>1, <2>2, <2>3 DEF AnswerOf
<1>3. CASE WriteFails(c) \/ CloseIdle(c) \/ ReadFails(c) \/ ReadRefused(c)
  <2>. DEFINE none == <<>>
  <2>1. none \in Seq(Cells)
    OBVIOUS
  <2>2. /\ down' = [down EXCEPT ![c] = none] /\ crawBuf' = [crawBuf EXCEPT ![c] = none]
        /\ plainBuf' = [plainBuf EXCEPT ![c] = none] /\ cpc' = [cpc EXCEPT ![c] = "closed"]
    BY <1>3 DEF WriteFails, CloseIdle, ReadFails, ReadRefused, HangUp
  <2>. HIDE DEF none
  <2>3. AnswerTypes' /\ cpc'[c] = "closed"
    BY <1>1, <2>1, <2>2 DEF AnswerTypes, TypeInv, TypeOK
  <2>. QED  BY <2>3 DEF AnswerOf
<1>. QED  BY <1>2, <1>3

\* A caller leaves the answers to the others alone.
LEMMA OtherCallersAlone ==
    ASSUME NEW c \in Conns, NEW d \in Conns, c # d, TypeInv, AnswerTypes, CallerStep(d)
    PROVE  /\ cpc'[c] = cpc[c] /\ done'[c] = done[c] /\ down'[c] = down[c] /\ crawBuf'[c] = crawBuf[c]
           /\ plainBuf'[c] = plainBuf[c] /\ cre'[c] = cre[c]
<1>1. cpc'[c] = cpc[c]
  BY DEF CallerStep, Dial, BeginCall, WriteFrame, WriteFails, CloseIdle, ReadSome, ReadFails,
         ReadFrame, ReadAnswer, ReadRefused, HangUp, TypeInv, TypeOK
<1>2. done \in [Conns -> Nat] /\ down \in [Conns -> Seq(Cells)] /\ crawBuf \in [Conns -> Seq(Cells)]
      /\ plainBuf \in [Conns -> Seq(Cells)] /\ cre \in [Conns -> Reassembly]
  BY DEF TypeInv, CallerTypes, AnswerTypes
<1>3. done'[c] = done[c]
  BY <1>2 DEF CallerStep, Dial, BeginCall, WriteFrame, WriteFails, CloseIdle, ReadSome, ReadFails,
              ReadFrame, ReadAnswer, ReadRefused, HangUp
<1>4. down'[c] = down[c]
  BY <1>2 DEF CallerStep, Dial, BeginCall, WriteFrame, WriteFails, CloseIdle, ReadSome, ReadFails,
              ReadFrame, ReadAnswer, ReadRefused, HangUp, wireVars
<1>5. crawBuf'[c] = crawBuf[c]
  BY <1>2 DEF CallerStep, Dial, BeginCall, WriteFrame, WriteFails, CloseIdle, ReadSome, ReadFails,
              ReadFrame, ReadAnswer, ReadRefused, HangUp
<1>6. plainBuf'[c] = plainBuf[c]
  BY <1>2 DEF CallerStep, Dial, BeginCall, WriteFrame, WriteFails, CloseIdle, ReadSome, ReadFails,
              ReadFrame, ReadAnswer, ReadRefused, HangUp
<1>7. cre'[c] = cre[c]
  BY <1>2 DEF CallerStep, Dial, BeginCall, WriteFrame, WriteFails, CloseIdle, ReadSome, ReadFails,
              ReadFrame, ReadAnswer, ReadRefused, HangUp
<1>. QED  BY <1>1, <1>3, <1>4, <1>5, <1>6, <1>7

LEMMA CallerAnswerInv ==
    ASSUME TypeInv, AnswerInv, NEW d \in Conns, CallerStep(d)
    PROVE  AnswerInv'
<1>1. AnswerTypes /\ JobInv /\ (\A c \in Conns : AnswerOf(c)) /\ AnswerBelongsToCall
  BY DEF AnswerInv
<1>2. UNCHANGED <<got, job>>
  BY DEF CallerStep, Dial, BeginCall, WriteFrame, WriteFails, CloseIdle, ReadSome, ReadFails,
         ReadFrame, ReadAnswer, ReadRefused, HangUp, handlerVars
<1>3. AnswerTypes' /\ AnswerOf(d)'
  <2>1. CASE WriteFrame(d)
    <3>1. UNCHANGED <<down, crawBuf, plainBuf, cre>>
      BY <2>1 DEF WriteFrame
    <3>. QED  BY <1>1, <2>1, <3>1, WriteFrameAnswer DEF AnswerTypes
  <2>2. CASE ReadSome(d)
    BY <1>1, <2>2, ReadSomeAnswer
  <2>3. CASE ReadFrame(d)
    BY <1>1, <2>3, ReadFrameAnswer
  <2>4. CASE ReadAnswer(d)
    BY <1>1, <2>4, ReadAnswerAnswer
  <2>5. CASE Dial(d) \/ BeginCall(d) \/ WriteFails(d) \/ CloseIdle(d) \/ ReadFails(d) \/ ReadRefused(d)
    BY <1>1, <2>5, QuietCallerAnswer
  <2>. QED  BY <2>1, <2>2, <2>3, <2>4, <2>5 DEF CallerStep
<1>4. AnswerBelongsToCall'
  <2>1. CASE ReadAnswer(d)
    BY <1>1, <2>1, ReadAnswerAnswer
  <2>2. CASE ~ReadAnswer(d)
    <3>1. answers' = answers
      BY <2>2 DEF CallerStep, Dial, BeginCall, WriteFrame, WriteFails, CloseIdle, ReadSome, ReadFails,
              ReadFrame, ReadRefused, HangUp
    <3>. QED  BY <1>1, <3>1 DEF AnswerBelongsToCall
  <2>. QED  BY <2>1, <2>2
<1>5. JobInv'
  BY <1>1, <1>2 DEF JobInv, Arrived
<1>6. ASSUME NEW c \in Conns, c # d PROVE AnswerOf(c)'
  <2>1. cpc[c] # "closed" => Len(got'[c]) <= IF Waiting(c) THEN done[c] + 1 ELSE done[c]
    BY <1>1, <1>2 DEF AnswerOf
  <2>2. \A i \in 1..Len(Calls[c]) :
          Calls[c][i] \in Sync => (job'[Calls[c][i]] = "handled" <=> job[Calls[c][i]] = "handled")
    BY <1>2
  <2>. QED  BY <1>1, <1>6, <2>1, <2>2, OtherCallersAlone, AnswerKept
<1>. QED  BY <1>3, <1>4, <1>5, <1>6 DEF AnswerInv

\* As long as it reads, the server is not ahead of a caller in use.
LEMMA ServerBehind ==
    ASSUME NEW c \in Conns, TypeInv', StreamOf(c)', hpc'[c] = "frames", cpc'[c] # "closed",
           BufferTypes'
    PROVE  Len(got'[c]) <= IF Waiting(c)' THEN done'[c] + 1 ELSE done'[c]
<1>1. PICK k, i, kk, ii, e :
        Leads(Requests(c), raw'[c] \o up'[c], k, i, kk, ii, e) /\ Writes(c, kk, ii, e)' /\ Reads(c, k, i)'
  BY DEF StreamOf, Following, Reading
<1>2. k \in Nat /\ kk \in Nat /\ k <= kk
  BY <1>1, ReaderBehind, RequestsWritten
<1>3. Len(got'[c]) = k - 1
  BY <1>1 DEF Reads
<1>4. done'[c] \in Nat /\ cpc'[c] \in {"new", "idle", "write", "read", "frames"}
  BY DEF TypeInv, TypeOK, CallerTypes
<1>5. /\ Waiting(c)' => kk = done'[c] + 2
      /\ ~Waiting(c)' => kk = done'[c] + 1
  BY <1>1, <1>4 DEF Writes, Waiting
<1>. QED  BY <1>2, <1>3, <1>4, <1>5

\* The connections stay as they are, and so do the answers.
LEMMA AnswersKept ==
    ASSUME TypeInv, AnswerInv, UNCHANGED <<callerVars, down>>, JobInv',
           \A c \in Conns : cpc[c] # "closed" =>
              Len(got'[c]) <= IF Waiting(c) THEN done[c] + 1 ELSE done[c],
           \A m \in Sync : job'[m] = "handled" <=> job[m] = "handled"
    PROVE  AnswerInv'
<1>1. UNCHANGED <<cpc, done, crawBuf, plainBuf, cre, down, answers>>
  BY DEF callerVars
<1>2. AnswerTypes' /\ AnswerBelongsToCall'
  BY <1>1 DEF AnswerInv, AnswerTypes, AnswerBelongsToCall
<1>3. ASSUME NEW c \in Conns PROVE AnswerOf(c)'
  <2>1. AnswerOf(c)
    BY DEF AnswerInv
  <2>. QED  BY <1>1, <2>1, AnswerKept
<1>. QED  BY <1>2, <1>3 DEF AnswerInv

\* A message is handed over once, and has not been handled then.
LEMMA HandlerFrameAnswer ==
    ASSUME TypeInv, TypeInv', StreamInv, StreamInv', AnswerInv, NEW c \in Conns, HandlerFrame(c)
    PROVE  AnswerInv'
<1>. DEFINE o == TakeFrame(raw[c], re[c])
<1>. PICK k : k = Len(got[c]) + 1
  OBVIOUS
<1>. PICK x : x = Calls[c][k]
  OBVIOUS
<1>1. /\ JobInv /\ (\A d \in Conns : AnswerOf(d))
      /\ raw[c] \in Seq(Cells) /\ re[c] \in Reassembly /\ got[c] \in Seq(Seq(Cells))
  BY DEF AnswerInv, StreamInv, BufferTypes
<1>2. o.data \in Seq(Cells)
  BY <1>1, TakeFrameTypes
<1>3. /\ \/ /\ o.verdict = "message"
            /\ got' = [got EXCEPT ![c] = Append(got[c], o.data)]
            /\ \E fate \in {"queued", "dropped"} :
                  job' = [m \in Messages |-> IF o.data = Content(m, Size[m]) THEN fate ELSE job[m]]
         \/ o.verdict # "message" /\ UNCHANGED <<got, job>>
      /\ UNCHANGED <<callerVars, down>>
      /\ hpc' = [hpc EXCEPT ![c] = CASE o.verdict = "more" -> "top"
                                     [] o.verdict = "bad"  -> "close"
                                     [] OTHER -> "frames"]
  BY DEF HandlerFrame, wireVars
<1>. HIDE DEF o
<1>4. CASE o.verdict # "message"
  <2>1. UNCHANGED <<got, job, callerVars, down>>
    BY <1>3, <1>4
  <2>2. JobInv'
    BY <1>1, <2>1 DEF JobInv, Arrived
  <2>3. ASSUME NEW d \in Conns, cpc[d] # "closed"
        PROVE  Len(got'[d]) <= IF Waiting(d) THEN done[d] + 1 ELSE done[d]
    BY <1>1, <2>1, <2>3 DEF AnswerOf
  <2>4. \A m \in Sync : job'[m] = "handled" <=> job[m] = "handled"
    BY <2>1
  <2>5. UNCHANGED <<callerVars, down>>
    BY <2>1
  <2>. QED  BY <2>2, <2>3, <2>4, <2>5, AnswersKept
<1>5. CASE o.verdict = "message"
  <2>1. got' = [got EXCEPT ![c] = Append(got[c], o.data)] /\ hpc' = [hpc EXCEPT ![c] = "frames"]
    BY <1>3, <1>5
  <2>2. PICK fate \in {"queued", "dropped"} :
          job' = [m \in Messages |-> IF o.data = Content(m, Size[m]) THEN fate ELSE job[m]]
    BY <1>3, <1>5
  <2>3. got'[c] = Append(got[c], o.data) /\ hpc'[c] = "frames" /\ (\A d \in Conns : d # c => got'[d] = got[d])
    BY <2>1 DEF StreamInv, BufferTypes, TypeInv, TypeOK
  <2>4. k \in Nat \ {0} /\ Len(got[c]) \in Nat /\ Len(got'[c]) = k /\ got'[c][k] = o.data
    BY <1>1, <1>2, <2>3, AppendProperties, LenProperties
  <2>5. k \in 1..Len(got'[c])
    BY <2>4
  <2>6. k <= Len(Calls[c]) /\ o.data = Content(x, Size[x])
    <3>1. Received(c)'
      BY DEF StreamInv, StreamOf
    <3>. QED  BY <2>4, <2>5, <3>1 DEF Received
  <2>7. k \in 1..Len(Calls[c]) /\ x \in Messages
    <3>1. Calls[c] \in Seq(Messages) /\ Len(Calls[c]) \in Nat
      BY TransportAssumption, LenProperties
    <3>2. k \in 1..Len(Calls[c])
      BY <2>4, <2>6, <3>1
    <3>. QED  BY <3>1, <3>2, ElementOfSeq
  <2>8. ~Arrived(x)
    <3>1. ~ (k <= Len(got[c]))
      BY <2>4
    <3>. QED  BY <2>7, <3>1, ArrivedOnce
  <2>9. job[x] = "none"
    BY <1>1, <2>7, <2>8 DEF JobInv
  <2>10. ASSUME NEW m \in Messages, o.data = Content(m, Size[m]) PROVE m = x
    <3>1. \A y \in Messages : y \in Nat /\ Size[y] \in Nat \ {0}
      BY TransportAssumption
    <3>. DEFINE a == Size[m]
                b == Size[x]
    <3>2. Content(m, a)[1] = Content(x, b)[1] /\ m \in Nat /\ x \in Nat /\ a \in Nat \ {0} /\ b \in Nat \ {0}
      BY <2>6, <2>7, <2>10, <3>1
    <3>. HIDE DEF a, b
    <3>. QED  BY <3>2, ContentTells
  <2>11. \A m \in Messages : IF m = x THEN job'[m] = fate ELSE job'[m] = job[m]
    BY <2>2, <2>6, <2>7, <2>10
  <2>12. ASSUME NEW m \in Messages, Arrived(m) PROVE Arrived(m)'
    <3>1. PICK d \in Conns : \E i \in 1..Len(got[d]) : i <= Len(Calls[d]) /\ Calls[d][i] = m
      BY <2>12 DEF Arrived
    <3>2. PICK i \in 1..Len(got[d]) : i <= Len(Calls[d]) /\ Calls[d][i] = m
      BY <3>1
    <3>3. i \in 1..Len(got'[d])
      <4>1. CASE d # c
        BY <2>3, <4>1
      <4>2. CASE d = c
        <5>1. Len(got'[c]) = Len(got[c]) + 1 /\ Len(got[c]) \in Nat /\ i \in 1..Len(got[c])
          BY <2>4, <4>2
        <5>2. i \in 1..Len(got'[c])
          BY <5>1
        <5>. QED  BY <4>2, <5>2
      <4>. QED  BY <4>1, <4>2
    <3>. QED  BY <3>2, <3>3 DEF Arrived
  <2>13. Arrived(x)'
    BY <2>5, <2>6 DEF Arrived
  <2>14. JobInv'
    <3>1. ASSUME NEW m \in Messages
          PROVE  (job'[m] = "found" => m \in Sync) /\ (job'[m] # "none" => Arrived(m)')
      BY <1>1, <2>11, <2>12, <2>13 DEF JobInv
    <3>. QED  BY <3>1 DEF JobInv
  <2>15. ASSUME NEW d \in Conns, cpc[d] # "closed"
         PROVE  Len(got'[d]) <= IF Waiting(d) THEN done[d] + 1 ELSE done[d]
    <3>1. CASE d # c
      BY <1>1, <2>3, <2>15, <3>1 DEF AnswerOf
    <3>2. CASE d = c
      <4>1. cpc' = cpc /\ done' = done
        BY <1>3 DEF callerVars
      <4>2. StreamOf(c)' /\ BufferTypes' /\ cpc'[c] # "closed"
        BY <2>15, <3>2, <4>1 DEF StreamInv
      <4>3. Len(got'[c]) <= IF Waiting(c)' THEN done'[c] + 1 ELSE done'[c]
        BY <2>3, <4>2, ServerBehind
      <4>4. Waiting(c)' <=> Waiting(c)
        BY <4>1 DEF Waiting
      <4>. QED  BY <3>2, <4>1, <4>3, <4>4
    <3>. QED  BY <3>1, <3>2
  <2>16. \A m \in Sync : job'[m] = "handled" <=> job[m] = "handled"
    BY <2>9, <2>11, TransportAssumption
  <2>17. UNCHANGED <<callerVars, down>>
    BY <1>3
  <2>. QED  BY <2>14, <2>15, <2>16, <2>17, AnswersKept
<1>. QED  BY <1>4, <1>5

\* The handler in the pool finds the connection of the caller, or does not.
LEMMA RunJobAnswer ==
    ASSUME TypeInv, AnswerInv, NEW m \in Messages, RunJob(m)
    PROVE  AnswerInv'
<1>1. JobInv /\ \A d \in Conns : AnswerOf(d)
  BY DEF AnswerInv
<1>2. /\ job[m] = "queued" /\ UNCHANGED <<got, callerVars, down>>
      /\ \E v \in {"handled", "found", "failed"} :
            /\ job' = [job EXCEPT ![m] = v]
            /\ m \in Sync => v # "handled"
            /\ v = "found" => m \in Sync
  BY DEF RunJob, handlerVars, wireVars
<1>3. PICK v \in {"handled", "found", "failed"} :
        /\ job' = [job EXCEPT ![m] = v]
        /\ m \in Sync => v # "handled"
        /\ v = "found" => m \in Sync
  BY <1>2
<1>4. \A x \in Messages : IF x = m THEN job'[x] = v ELSE job'[x] = job[x]
  BY <1>3 DEF TypeInv, TypeOK
<1>5. JobInv'
  <2>1. \A x : Arrived(x)' <=> Arrived(x)
    BY <1>2 DEF Arrived
  <2>2. ASSUME NEW x \in Messages
        PROVE  (job'[x] = "found" => x \in Sync) /\ (job'[x] # "none" => Arrived(x)')
    BY <1>1, <1>2, <1>3, <1>4, <2>1 DEF JobInv
  <2>. QED  BY <2>2 DEF JobInv
<1>6. \A x \in Sync : job'[x] = "handled" <=> job[x] = "handled"
  BY <1>2, <1>3, <1>4, TransportAssumption
<1>7. ASSUME NEW d \in Conns, cpc[d] # "closed"
      PROVE  Len(got'[d]) <= IF Waiting(d) THEN done[d] + 1 ELSE done[d]
  BY <1>1, <1>2, <1>7 DEF AnswerOf
<1>8. UNCHANGED <<callerVars, down>>
  BY <1>2
<1>. QED  BY <1>5, <1>6, <1>7, <1>8, AnswersKept

\* The owner of a message is the connection whose call it is.
LEMMA OwnerIs ==
    ASSUME NEW m, Arrived(m)
    PROVE  /\ Owner(m) \in Conns
           /\ \E i \in 1..Len(Calls[Owner(m)]) : Calls[Owner(m)][i] = m
<1>1. PICK c \in Conns : \E i \in 1..Len(got[c]) : i <= Len(Calls[c]) /\ Calls[c][i] = m
  BY DEF Arrived
<1>2. PICK i \in 1..Len(got[c]) : i <= Len(Calls[c]) /\ Calls[c][i] = m
  BY <1>1
<1>3. \A d \in Conns : DOMAIN Calls[d] = 1..Len(Calls[d]) /\ Len(Calls[d]) \in Nat
  BY TransportAssumption, LenProperties
<1>4. i \in DOMAIN Calls[c]
  BY <1>2, <1>3
<1>5. \E d \in Conns : \E j \in DOMAIN Calls[d] : Calls[d][j] = m
  BY <1>2, <1>4
<1>6. Owner(m) \in Conns /\ \E j \in DOMAIN Calls[Owner(m)] : Calls[Owner(m)][j] = m
  BY <1>5 DEF Owner
<1>. QED  BY <1>3, <1>6

\* An answer is written to a connection whose caller waits for it, behind nothing else.
LEMMA SendAnswer ==
    ASSUME TypeInv, AnswerInv, NEW m \in Messages, SendToClient(m)
    PROVE  AnswerInv'
<1>. PICK c : c = Owner(m)
  OBVIOUS
<1>1. /\ AnswerTypes /\ JobInv /\ (\A d \in Conns : AnswerOf(d)) /\ AnswerBelongsToCall
  BY DEF AnswerInv
<1>2. /\ job[m] = "found" /\ UNCHANGED <<got, callerVars>>
      /\ \/ /\ copen[c]
            /\ \E n \in ReplySizes[m] :
                  down' = [down EXCEPT ![c] = down[c] \o FlattenSeq(FramesOf(Content(m, n)))]
            /\ job' = [job EXCEPT ![m] = "handled"]
         \/ job' = [job EXCEPT ![m] = "failed"] /\ UNCHANGED down
  BY DEF SendToClient, handlerVars
<1>3. m \in Sync /\ Arrived(m)
  BY <1>1, <1>2 DEF JobInv
<1>4. c \in Conns
  BY <1>3, OwnerIs
<1>5. PICK i \in 1..Len(Calls[c]) : Calls[c][i] = m
  BY <1>3, OwnerIs
<1>6. i <= Len(got[c])
  BY <1>3, <1>4, <1>5, ArrivedOnce
<1>7. JobInv'
  <2>1. \A x : Arrived(x)' <=> Arrived(x)
    BY <1>2 DEF Arrived
  <2>2. \A x \in Messages : x # m => job'[x] = job[x]
    BY <1>2 DEF TypeInv, TypeOK
  <2>3. job'[m] # "found"
    BY <1>2 DEF TypeInv, TypeOK
  <2>4. ASSUME NEW x \in Messages
        PROVE  (job'[x] = "found" => x \in Sync) /\ (job'[x] # "none" => Arrived(x)')
    BY <1>1, <1>3, <2>1, <2>2, <2>3, <2>4 DEF JobInv
  <2>. QED  BY <2>4 DEF JobInv
<1>8. CASE job' = [job EXCEPT ![m] = "failed"] /\ UNCHANGED down
  <2>1. \A x \in Sync : job'[x] = "handled" <=> job[x] = "handled"
    BY <1>2, <1>8, TransportAssumption DEF TypeInv, TypeOK
  <2>2. ASSUME NEW d \in Conns, cpc[d] # "closed"
        PROVE  Len(got'[d]) <= IF Waiting(d) THEN done[d] + 1 ELSE done[d]
    BY <1>1, <1>2, <2>2 DEF AnswerOf
  <2>3. UNCHANGED <<callerVars, down>>
    BY <1>2, <1>8
  <2>. QED  BY <1>7, <2>1, <2>2, <2>3, AnswersKept
<1>9. CASE /\ copen[c]
           /\ \E n \in ReplySizes[m] :
                 down' = [down EXCEPT ![c] = down[c] \o FlattenSeq(FramesOf(Content(m, n)))]
           /\ job' = [job EXCEPT ![m] = "handled"]
  <2>1. PICK n \in ReplySizes[m] :
          down' = [down EXCEPT ![c] = down[c] \o FlattenSeq(FramesOf(Content(m, n)))]
    BY <1>9
  <2>2. m \in Nat /\ n \in Nat \ {0}
    BY <2>1, TransportAssumption
  <2>3. job'[m] = "handled" /\ \A x \in Messages : x # m => job'[x] = job[x]
    BY <1>9 DEF TypeInv, TypeOK
  <2>4. cpc[c] # "closed"
    BY <1>4, <1>9 DEF TypeInv, TypeOK
  <2>5. done[c] \in Nat /\ Len(Calls[c]) \in Nat /\ i \in Nat
    <3>1. Calls[c] \in Seq(Messages)
      BY <1>4, TransportAssumption
    <3>. QED  BY <1>4, <1>5, <3>1, LenProperties DEF TypeInv, CallerTypes
  <2>6. ~ (i \in 1..done[c])
    BY <1>1, <1>2, <1>3, <1>4, <1>5, <2>4 DEF AnswerOf
  <2>7. i <= IF Waiting(c) THEN done[c] + 1 ELSE done[c]
    <3>1. Len(got[c]) <= IF Waiting(c) THEN done[c] + 1 ELSE done[c]
      BY <1>1, <1>4, <2>4 DEF AnswerOf
    <3>. QED  BY <1>6, <2>5, <3>1
  <2>8. Waiting(c) /\ i = done[c] + 1 /\ Message(c) = m
    <3>1. Waiting(c) /\ i = done[c] + 1
      BY <1>5, <2>5, <2>6, <2>7
    <3>. QED  BY <1>5, <3>1 DEF Message
  <2>9. Quiet(c) /\ Len(got[c]) <= done[c] + 1
        /\ \A x \in 1..done[c] : Calls[c][x] \in Sync => job[Calls[c][x]] = "handled"
    BY <1>1, <1>2, <1>4, <2>4, <2>8 DEF AnswerOf
  <2>. DEFINE s == FlattenSeq(FramesOf(Content(m, n)))
  <2>10. s \in Seq(Cells) /\ Leads(Answer(m, n), s, 1, 1, 2, 1, 0)
    BY <2>2, AnswerStream
  <2>. HIDE DEF s
  <2>11. down[c] \o s = s
    BY <2>9, <2>10, ConcatEmptySeq DEF Quiet
  <2>12. down' = [down EXCEPT ![c] = s]
    BY <2>1, <2>11 DEF s
  <2>13. AnswerTypes' /\ down'[c] = s /\ \A d \in Conns : d # c => down'[d] = down[d]
    BY <1>1, <1>2, <1>4, <2>10, <2>12 DEF AnswerTypes, callerVars
  <2>14. AnswerBelongsToCall'
    BY <1>1, <1>2 DEF AnswerBelongsToCall, callerVars
  <2>15. UNCHANGED <<cpc, done, crawBuf, plainBuf, cre>>
    BY <1>2 DEF callerVars
  <2>16. Message(c)' = m /\ Waiting(c)'
    BY <2>8, <2>15 DEF Message, Waiting
  <2>17. Coming(c)'
    <3>1. crawBuf'[c] = <<>> /\ plainBuf'[c] = <<>> /\ cre'[c] = NoFragments
      BY <2>9, <2>15 DEF Quiet
    <3>2. crawBuf'[c] \o down'[c] = s
      BY <2>10, <2>13, <3>1, ConcatEmptySeq
    <3>3. Expects(c, m, n, 1, 1)'
      BY <2>10, <3>1, <3>2 DEF Expects, Assembled
    <3>. QED  BY <2>1, <2>16, <3>3 DEF Coming
  <2>18. AnswerOf(c)'
    <3>1. ASSUME NEW x \in 1..done'[c], Calls[c][x] \in Sync PROVE job'[Calls[c][x]] = "handled"
      <4>1. x \in 1..done[c]
        BY <2>15
      <4>2. job[Calls[c][x]] = "handled" /\ Calls[c][x] \in Messages
        BY <2>9, <3>1, <4>1, TransportAssumption
      <4>. QED  BY <2>3, <4>2
    <3>2. Len(got'[c]) <= done'[c] + 1
      BY <1>2, <2>9, <2>15
    <3>. QED  BY <1>3, <2>3, <2>16, <2>17, <3>1, <3>2 DEF AnswerOf
  <2>19. ASSUME NEW d \in Conns, d # c PROVE AnswerOf(d)'
    <3>1. ASSUME NEW x \in 1..Len(Calls[d])
          PROVE  Calls[d][x] \in Sync => (job'[Calls[d][x]] = "handled" <=> job[Calls[d][x]] = "handled")
      <4>1. Calls[d] \in Seq(Messages) /\ Calls[c] \in Seq(Messages)
        BY <1>4, TransportAssumption
      <4>2. Calls[d][x] # m
        <5>1. x \in DOMAIN Calls[d] /\ i \in DOMAIN Calls[c]
          BY <4>1, LenProperties
        <5>2. Calls[d][x] = Calls[c][i] => d = c
          BY <1>4, <5>1, TransportAssumption
        <5>. QED  BY <1>5, <2>19, <5>2
      <4>. QED  BY <2>3, <4>2, TransportAssumption
    <3>2. cpc[d] # "closed" => Len(got'[d]) <= IF Waiting(d) THEN done[d] + 1 ELSE done[d]
      BY <1>1, <1>2 DEF AnswerOf
    <3>3. AnswerOf(d) /\ down'[d] = down[d]
      BY <1>1, <2>13, <2>19
    <3>. QED  BY <2>15, <3>1, <3>2, <3>3, AnswerKept
  <2>. QED  BY <1>7, <2>13, <2>14, <2>18, <2>19 DEF AnswerInv
<1>. QED  BY <1>2, <1>8, <1>9

\* The other steps touch no answer.
LEMMA OtherAnswerInv ==
    ASSUME TypeInv, AnswerInv,
           \/ Start \/ AcceptCheck \/ Accept \/ AcceptFails \/ Register
           \/ StopBegin \/ StopListener \/ StopSweep
           \/ \E c \in Conns : HandlerCheck(c) \/ HandlerRead(c) \/ HandlerReadFails(c)
                               \/ HandlerUnregister(c) \/ HandlerClose(c)
           \/ UNCHANGED vars
    PROVE  AnswerInv'
<1>1. UNCHANGED <<got, job, callerVars, down>>
  BY DEF Start, AcceptCheck, Accept, AcceptFails, Register, StopBegin, StopListener, StopSweep,
         HandlerCheck, HandlerRead, HandlerReadFails, HandlerUnregister, HandlerClose,
         vars, handlerVars, wireVars
<1>2. JobInv'
  BY <1>1 DEF AnswerInv, JobInv, Arrived
<1>3. \A x \in Sync : job'[x] = "handled" <=> job[x] = "handled"
  BY <1>1
<1>4. ASSUME NEW d \in Conns, cpc[d] # "closed"
      PROVE  Len(got'[d]) <= IF Waiting(d) THEN done[d] + 1 ELSE done[d]
  BY <1>1, <1>4 DEF AnswerInv, AnswerOf
<1>5. UNCHANGED <<callerVars, down>>
  BY <1>1
<1>. QED  BY <1>2, <1>3, <1>4, <1>5, AnswersKept

\* A synchronous call that succeeds has the answer to its own request, though connections
\* are used again, answers come late, and DecodeResponse does not compare the two.
THEOREM AnswerHolds == Spec => []AnswerBelongsToCall
<1>1. TypeInv /\ TypeInv' /\ StreamInv /\ StreamInv' /\ AnswerInv /\ [Next]_vars => AnswerInv'
  <2>. SUFFICES ASSUME TypeInv, TypeInv', StreamInv, StreamInv', AnswerInv, [Next]_vars PROVE AnswerInv'
    OBVIOUS
  <2>1. CASE \E c \in Conns : CallerStep(c)
    BY <2>1, CallerAnswerInv
  <2>2. CASE \E c \in Conns : HandlerFrame(c)
    BY <2>2, HandlerFrameAnswer
  <2>3. CASE \E m \in Messages : RunJob(m)
    BY <2>3, RunJobAnswer
  <2>4. CASE \E m \in Messages : SendToClient(m)
    BY <2>4, SendAnswer
  <2>5. CASE \/ Start \/ AcceptCheck \/ Accept \/ AcceptFails \/ Register
             \/ StopBegin \/ StopListener \/ StopSweep
             \/ \E c \in Conns : HandlerCheck(c) \/ HandlerRead(c) \/ HandlerReadFails(c)
                                 \/ HandlerUnregister(c) \/ HandlerClose(c)
             \/ UNCHANGED vars
    BY <2>5, OtherAnswerInv
  <2>. QED  BY <2>1, <2>2, <2>3, <2>4, <2>5 DEF Next, HandlerStep
<1>2. TypeInv /\ StopInv /\ StreamInv /\ [Next]_vars => StreamInv'
  BY StreamStep
<1>3. AnswerInv => AnswerBelongsToCall
  BY DEF AnswerInv
<1>. QED  BY InitTypeInv, InitStopInv, InitStreamInv, InitAnswerInv, TypeStep, StopStep,
             <1>1, <1>2, <1>3, PTL DEF Spec
=============================================================================
