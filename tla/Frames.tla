-------------------------------- MODULE Frames --------------------------------
(***************************************************************************)
(* ipc/ipc_frame.go: how a message becomes frames and frames a message.    *)
(*                                                                         *)
(* Bytes are grouped into cells: the five bytes in front of a frame are    *)
(* one cell (kind "frame": type and payload length), the eight bytes in    *)
(* front of a fragment are one (kind "part": total and offset), and each   *)
(* cell of kind "byte" is a position of a message.  All lengths count      *)
(* cells.                                                                  *)
(***************************************************************************)
EXTENDS Integers, Sequences

CONSTANTS
    FragmentChunkSize,    \* a longer message is cut into fragments
    MaxFramePayloadLen,
    MaxMessageSize        \* of a message that comes in fragments

ASSUME FrameAssumption ==
    /\ FragmentChunkSize \in Nat \ {0}
    /\ MaxFramePayloadLen \in Nat
    /\ MaxFramePayloadLen > FragmentChunkSize
    /\ MaxMessageSize \in Nat
    /\ MaxMessageSize > FragmentChunkSize

MsgData == 3
MsgDataFragment == 4

Cell(kind, a, b) == [kind |-> kind, a |-> a, b |-> b]

Content(m, size) == [i \in 1 .. size |-> Cell("byte", m, i)]

-----------------------------------------------------------------------------
\* What Write and SendToClient put on the wire.

BuildFrame(type, payload) == <<Cell("frame", type, Len(payload))>> \o payload

BuildFragmentPayload(total, offset, chunk) ==
    <<Cell("part", total, offset)>> \o chunk

Least(a, b) == IF a <= b THEN a ELSE b

\* The chunk at each offset, the last one shorter.
FramesOf(data) ==
    IF Len(data) <= FragmentChunkSize
    THEN <<BuildFrame(MsgData, data)>>
    ELSE [i \in 1 .. (Len(data) + FragmentChunkSize - 1) \div FragmentChunkSize |->
            LET offset == (i - 1) * FragmentChunkSize
                chunk == SubSeq(data, offset + 1,
                                Least(offset + FragmentChunkSize, Len(data)))
            IN  BuildFrame(MsgDataFragment,
                           BuildFragmentPayload(Len(data), offset, chunk))]

-----------------------------------------------------------------------------
\* FragmentReassembly.

NoFragments == [buffer |-> <<>>, received |-> 0, nextOffset |-> 0]

Blank == Cell("byte", 0, 0)

\* Reset when the offset is 0, ValidateOffset and copy.
Accepts(re, offset, chunk) ==
    offset = re.nextOffset /\ offset + Len(chunk) <= Len(re.buffer)

Copied(re, offset, chunk) ==
    [buffer |-> [i \in DOMAIN re.buffer |->
                    IF i \in offset + 1 .. offset + Len(chunk)
                    THEN chunk[i - offset] ELSE re.buffer[i]],
     received |-> re.received + Len(chunk),
     nextOffset |-> offset + Len(chunk)]

IsComplete(re) == re.received = Len(re.buffer) /\ re.buffer # <<>>

\* ParseFragmentHeader.
LawfulPart(body) ==
    /\ body # <<>>
    /\ Head(body).a \in 1 .. MaxMessageSize
    /\ Head(body).b <= Head(body).a
    /\ Head(body).b + Len(body) - 1 <= Head(body).a

-----------------------------------------------------------------------------
\* One turn of the loop that the server (processFrames) and the client
\* (ReadLoop) run over their buffers.  The verdict says how it ends:
\*   "more"     no frame: read again
\*   "message"  a message is complete: its content is data
\*   "part"     a fragment was taken in, more are to come
\*   "bad"      the connection is given up

Turn(verdict, raw, re, data) ==
    [verdict |-> verdict, raw |-> raw, re |-> re, data |-> data]

TakeFragment(body, rest, re) ==
    LET total  == Head(body).a
        offset == Head(body).b
        begun  == IF offset = 0
                  THEN [buffer |-> [i \in 1 .. total |-> Blank],
                        received |-> 0, nextOffset |-> 0]
                  ELSE re
        next   == Copied(begun, offset, Tail(body))
    IN  IF ~LawfulPart(body) THEN Turn("bad", rest, re, <<>>)
        ELSE IF ~Accepts(begun, offset, Tail(body)) THEN Turn("bad", rest, begun, <<>>)
        ELSE IF IsComplete(next) THEN Turn("message", rest, NoFragments, next.buffer)
        ELSE Turn("part", rest, next, <<>>)

\* A payload that is too long makes ExtractFrame clear the buffer.
TakeFrame(raw, re) ==
    LET size == Head(raw).b
        body == SubSeq(raw, 2, size + 1)
        rest == SubSeq(raw, size + 2, Len(raw))
    IN  IF raw = <<>> THEN Turn("more", raw, re, <<>>)
        ELSE IF size > MaxFramePayloadLen THEN Turn("more", <<>>, re, <<>>)
        ELSE IF Len(raw) <= size THEN Turn("more", raw, re, <<>>)
        ELSE IF Head(raw).a = MsgData THEN Turn("message", rest, re, body)
        ELSE IF Head(raw).a = MsgDataFragment THEN TakeFragment(body, rest, re)
        ELSE Turn("bad", rest, re, <<>>)
=============================================================================
