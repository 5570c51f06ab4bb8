------------------------------- MODULE Framing -------------------------------
(***************************************************************************)
(* The framing layer (protocol/framing.hpp) between a sender and one       *)
(* connection thread of the coordinator.  The stream is modelled byte by   *)
(* byte, with the widths of the header as in the code, because TCP may cut *)
(* it anywhere and because a send that times out half-way leaves a torn    *)
(* frame on a connection the agent goes on using (agent.cpp ignores the    *)
(* result of send_all).                                                    *)
(*                                                                         *)
(* A byte is a 1-tuple of a digit in base Base (256 in the code).  The     *)
(* CRC-32 is taken to tell all byte sequences apart: its four bytes carry  *)
(* the bytes they were computed from.                                      *)
(***************************************************************************)
EXTENDS Integers, Sequences

CONSTANTS
  Base,                \* values of a byte
  kFrameMagic,         \* the four bytes every frame starts with
  protocol_version,
  LastType,            \* MessageType::SAVE; HELLO is 1
  kMaxPayloadLength,
  Frames,              \* what senders hand to encode_frame: [type, payload]
  Undecodable,         \* the frames whose payload decode_message refuses
  TearPoints,          \* bound: where a send may stop short
  MaxFrames            \* bound: frames sent on the connection

VARIABLES
  wire,       \* bytes sent and not yet received
  closed,     \* the sender has closed the connection
  buf,        \* FrameDecoder::buf_
  pc,         \* the thread: "recv", "feed", or how it left (see Left)
  out,        \* frames decoded and dispatched
  attempts,   \* number of frames the sender tried to send
  intact,     \* history: frames sent whole before anything went wrong
  spoiled     \* history: a torn or oversized frame is in the stream

vars == <<wire, closed, buf, pc, out, attempts, intact, spoiled>>

kFrameHeader == 4 + 2 + 1 + 4
kFrameTrailer == 4

Byte == {<<d>> : d \in 0..(Base - 1)}

\* What encode_frame relies on: the magic, the version, the types and the limit
\* fit the widths of their fields, and the caller's type is a valid one
\* (framing.hpp:38).  A payload has any length.
ASSUME FramingAssumption ==
  /\ Base \in Nat /\ Base >= 2
  /\ kFrameMagic \in Seq(Byte) /\ Len(kFrameMagic) = 4
  /\ protocol_version \in Nat /\ protocol_version < Base * Base
  /\ LastType \in Nat /\ LastType < Base
  /\ kMaxPayloadLength \in Nat /\ kMaxPayloadLength < ((Base * Base) * Base) * Base
  /\ \A f \in Frames : f \in [type : 1..LastType, payload : Seq(Byte)]
  /\ \A n \in TearPoints : n \in Nat

\* v >> 8
Shift(v) == v \div Base

\* ByteWriter::u8, u16, u32: most significant byte first; what does not fit is
\* cut off.
u8(v) == << <<v>> >>
u16(v) == << <<Shift(v) % Base>>, <<v % Base>> >>
u32(v) == << <<Shift(Shift(Shift(v))) % Base>>, <<Shift(Shift(v)) % Base>>,
             <<Shift(v) % Base>>, <<v % Base>> >>

\* ByteReader::u16, u32 at byte i of b.
read_u16(b, i) == b[i][1] * Base + b[i + 1][1]
read_u32(b, i) ==
  ((b[i][1] * Base + b[i + 1][1]) * Base + b[i + 2][1]) * Base + b[i + 3][1]

crc32(bytes) == [i \in 1..kFrameTrailer |-> <<bytes, i>>]

-----------------------------------------------------------------------------
\* encode_frame up to the payload's last byte: no check of the payload's length.
FrameBody(f) ==
  kFrameMagic \o u16(protocol_version) \o u8(f.type) \o u32(Len(f.payload)) \o f.payload

encode_frame(f) == FrameBody(f) \o crc32(FrameBody(f))

NeedMore == [result |-> "NeedMore"]
Error == [result |-> "Error"]

valid_message_type(t) == t \in 1..LastType

payload_len(b) == read_u32(b, 8)

\* The checks of a complete header, in feed.
Mut_BadHeader(b) ==
  \/ SubSeq(b, 1, 4) # kFrameMagic
  \/ read_u16(b, 5) # protocol_version
  \/ ~valid_message_type(b[7][1])
  \/ payload_len(b) >= kMaxPayloadLength

BadHeader(b) ==
  \/ SubSeq(b, 1, 4) # kFrameMagic
  \/ read_u16(b, 5) # protocol_version
  \/ ~valid_message_type(b[7][1])
  \/ payload_len(b) > kMaxPayloadLength

total_len(b) == kFrameHeader + payload_len(b) + kFrameTrailer

\* One byte more than the frame has is waited for.
Mut_WholeFrame(b) == Len(b) > total_len(b)

WholeFrame(b) == Len(b) >= total_len(b)

\* The stored checksum is the one of everything before it.
Mut_CrcMatches(b) == TRUE

CrcMatches(b) ==
  LET end == total_len(b) - kFrameTrailer
  IN  SubSeq(b, end + 1, total_len(b)) = crc32(SubSeq(b, 1, end))

\* FrameDecoder::feed once the new bytes are appended to buf_.
feed(b) ==
  IF Len(b) < kFrameHeader + kFrameTrailer THEN NeedMore
  ELSE IF BadHeader(b) THEN Error
  ELSE IF ~WholeFrame(b) THEN NeedMore
  ELSE IF ~CrcMatches(b) THEN Error
  ELSE [result |-> "FrameReady",
        frame |-> [type |-> b[7][1],
                   payload |-> SubSeq(b, kFrameHeader + 1, kFrameHeader + payload_len(b))],
        rest |-> SubSeq(b, total_len(b) + 1, Len(b))]

-----------------------------------------------------------------------------
Init ==
  /\ wire = <<>> /\ closed = FALSE
  /\ buf = <<>> /\ pc = "recv" /\ out = <<>>
  /\ attempts = 0 /\ intact = <<>> /\ spoiled = FALSE

Running == pc \in {"recv", "feed"}

\* The exits of handle_connection's loop: the peer closed, feed found an error,
\* decode_message did, or the link was reset under it or the coordinator stopped.
Left == {"ended", "error", "undecodable", "cut"}

\* TcpStream::send_all gets n of the frame's bytes out; a timeout or an error
\* may stop it before the last.  The sender then goes on with its next frame.
\* One damaged frame is enough: after it further frames are sent whole.
Send(f, n) ==
  /\ Running /\ ~closed /\ attempts < MaxFrames
  /\ LET bytes == encode_frame(f)
         whole == n = Len(bytes)
     IN  /\ whole \/ (n \in TearPoints /\ n < Len(bytes) /\ ~spoiled)
         /\ wire' = wire \o SubSeq(bytes, 1, n)
         /\ intact' = IF whole /\ ~spoiled /\ Len(f.payload) <= kMaxPayloadLength
                        THEN Append(intact, f) ELSE intact
         /\ spoiled' = (spoiled \/ (~whole /\ n > 0) \/ (whole /\ Len(f.payload) > kMaxPayloadLength))
  /\ attempts' = attempts + 1
  /\ UNCHANGED <<closed, buf, pc, out>>

Close ==
  /\ Running /\ ~closed
  /\ closed' = TRUE
  /\ UNCHANGED <<wire, buf, pc, out, attempts, intact, spoiled>>

\* handle_connection: recv_some_opt returns some of the bytes that are there.
Recv(n) ==
  /\ pc = "recv" /\ n \in 1..Len(wire)
  /\ buf' = buf \o SubSeq(wire, 1, n)
  /\ wire' = SubSeq(wire, n + 1, Len(wire))
  /\ pc' = "feed"
  /\ UNCHANGED <<closed, out, attempts, intact, spoiled>>

\* A receive of 0 bytes: the peer has closed; what is left in buf_ is dropped.
RecvEnd ==
  /\ pc = "recv" /\ wire = <<>> /\ closed
  /\ pc' = "ended"
  /\ UNCHANGED <<wire, closed, buf, out, attempts, intact, spoiled>>

\* recv_some_opt reports a reset or another error, or running_ is cleared:
\* the thread leaves, whatever is still buffered or on the way.
RecvFails ==
  /\ pc = "recv"
  /\ pc' = "cut"
  /\ UNCHANGED <<wire, closed, buf, out, attempts, intact, spoiled>>

\* One call of feed and what handle_connection does with its result: dispatch
\* and feed again; answer ERROR to a frame decode_message refuses and leave, with
\* the frames behind it still in buf_; go back to recv; or answer ERROR to a
\* stream that is no frame and leave.
Feed ==
  /\ pc = "feed"
  /\ LET r == feed(buf)
     IN  \/ /\ r.result = "NeedMore"
            /\ pc' = "recv"
            /\ UNCHANGED <<buf, out>>
         \/ /\ r.result = "FrameReady"
            /\ buf' = r.rest
            /\ IF r.frame \in Undecodable
                 THEN pc' = "undecodable" /\ UNCHANGED out
                 ELSE pc' = "feed" /\ out' = Append(out, r.frame)
         \/ /\ r.result = "Error"
            /\ pc' = "error"
            /\ UNCHANGED <<buf, out>>
  /\ UNCHANGED <<wire, closed, attempts, intact, spoiled>>

Thread == (\E n \in 1..Len(wire) : Recv(n)) \/ RecvEnd \/ Feed

Next ==
  \/ \E f \in Frames : \E n \in TearPoints \cup {Len(encode_frame(f))} : Send(f, n)
  \/ Close
  \/ \E n \in 1..Len(wire) : Recv(n)
  \/ RecvEnd
  \/ RecvFails
  \/ Feed

Spec == Init /\ [][Next]_vars

\* The connection thread runs until it leaves its loop.  A reset need not come.
FairSpec == Spec /\ WF_vars(Thread)

-----------------------------------------------------------------------------
(* Properties *)

\* The decoder and the loop around it implement the channel of FrameChannel:
\* for every segmentation the frames sent whole come out in order, each once
\* and unchanged; nothing comes out after a torn or oversized frame; and unless
\* the link is cut the thread leaves only when every sound frame before the
\* first one decode_message refuses has been dispatched.
Channel == INSTANCE FrameChannel
             WITH accepted <- intact, delivered <- out,
                  state <- IF Running THEN "open"
                           ELSE IF pc \in {"ended", "error"} THEN "finished" ELSE pc

ImplementsChannel == Channel!Spec

\* The thread answers ERROR to the stream itself (coordinator.cpp:117) only if
\* the stream really holds a torn or oversized frame: a sound sender is never
\* cut off there, whatever the segmentation, at whatever payload length up to
\* the limit.
SoundStreamNeverRefused == pc = "error" => spoiled

\* Every frame that was sent whole on a sound stream is dispatched at last,
\* unless the link is cut or decode_message refuses it or one before it: none
\* waits in buf_ for bytes that need not come (coordinator.cpp:115 feeds again
\* until the buffer holds no complete frame).
SentIsDispatched ==
  \A n \in 1..MaxFrames :
    (Len(intact) >= n) ~> \/ Len(out) >= n
                         \/ pc = "cut"
                         \/ \E i \in 1..Len(intact) : i <= n /\ intact[i] \in Undecodable

=============================================================================
