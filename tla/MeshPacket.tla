----------------------------- MODULE MeshPacket -----------------------------
(***************************************************************************)
(* internal/meshcore: the frames that observers hear, byte by byte.        *)
(*                                                                         *)
(* A message is sent as a frame (header, transport codes, path, payload).  *)
(* Repeaters copy it and add themselves to the path, so one message is     *)
(* heard as many frames, each with a hash of its own (HashPacket takes the *)
(* whole frame).  An observer may report a frame that is cut short.        *)
(***************************************************************************)
EXTENDS Integers, SequencesExt

CONSTANTS
  Headers,      \* first bytes of frames that are sent
  PathBytes,    \* bytes of repeaters' hashes
  TransportCodes,  \* four bytes each
  Payloads,     \* payloads (sequences of bytes)
  MaxHops       \* bound: how many repeaters copy a message

Byte == 0..255

\* Frames of version 0 are sent; the upper two bits of a header are the version.
ASSUME PacketAssumption ==
  /\ Headers \subseteq 0..63 /\ PathBytes \subseteq Byte
  /\ TransportCodes \subseteq [1..4 -> Byte]
  /\ Payloads \subseteq Seq(Byte)
  /\ MaxHops \in 0..63

VARIABLES
  origin,    \* the message: header, payload and bytes per hop
  hops,    \* repeaters on the way of this copy
  frame    \* the copy

packetVars == <<origin, hops, frame>>

-----------------------------------------------------------------------------
(* DecodePacket.  Indices begin at 1 here. *)

PayloadVersion(header) == header \div 64
PayloadType(header) == (header \div 4) % 16
RouteType(header) == header % 4

\* TRANSPORT_FLOOD and TRANSPORT_DIRECT.
HasTransportCodes(header) == RouteType(header) \in {0, 3}

Malformed == [payloadType |-> -1, path |-> <<>>, payload |-> <<>>]

\* Mutant: no route has transport codes.
PathLenAtTwo(raw) == 2

\* Where the path length byte is.
PathLenAt(raw) == IF HasTransportCodes(raw[1]) THEN 6 ELSE 2

PathLen(value) == value % 64

\* Mutant: every hop is one byte.
OneBytePerHop(value) == 1

BytesPerHop(value) == value \div 64 + 1

DecodePacket(raw) ==
  IF Len(raw) < 2 \/ Len(raw) < PathLenAt(raw) THEN Malformed
  ELSE LET at == PathLenAt(raw)
           size == BytesPerHop(raw[at])
           count == PathLen(raw[at])
           hop(i) == SubSeq(raw, at + (i - 1) * size + 1, at + i * size)
       IN  IF \/ PayloadVersion(raw[1]) # 0
              \/ size > 3
              \/ Len(raw) < at + count * size
           THEN Malformed
           ELSE [payloadType |-> PayloadType(raw[1]),
                 path |-> [i \in 1..count |-> hop(i)],
                 payload |-> SubSeq(raw, at + count * size + 1, Len(raw))]

-----------------------------------------------------------------------------
(* The mesh *)

PathLenByte(size, count) == 64 * (size - 1) + count

Originate(header, codes, size, payload) ==
  /\ origin = [header |-> header, size |-> size, payload |-> payload]
  /\ hops = <<>>
  /\ frame = <<header>> \o (IF HasTransportCodes(header) THEN codes ELSE <<>>)
               \o <<PathLenByte(size, 0)>> \o payload

PacketInit ==
  \E header \in Headers, codes \in TransportCodes,
     size \in 1..3, payload \in Payloads :
    Originate(header, codes, size, payload)

\* A repeater appends its hash to the path and sends the frame again.
Repeat(hop) ==
  LET at == PathLenAt(frame)
      end == at + Len(hops) * origin.size
  IN  /\ Len(hops) < MaxHops
      /\ hops' = Append(hops, hop)
      /\ frame' = SubSeq(frame, 1, at - 1)
                    \o <<PathLenByte(origin.size, Len(hops) + 1)>>
                    \o SubSeq(frame, at + 1, end) \o hop
                    \o SubSeq(frame, end + 1, Len(frame))
      /\ UNCHANGED origin

PacketNext == \E hop \in [1..origin.size -> PathBytes] : Repeat(hop)

PacketSpec == PacketInit /\ [][PacketNext]_packetVars

-----------------------------------------------------------------------------
\* Whichever way a copy took, it is decoded to the message that was sent and
\* to the repeaters it passed, so all copies yield the same check-in.
CopiesCarryTheMessage ==
  DecodePacket(frame) =
    [payloadType |-> PayloadType(origin.header),
     path |-> hops,
     payload |-> origin.payload]

\* In a frame that is cut short nothing is taken for what it is not: it is
\* malformed, or its path is whole and its payload the beginning of the
\* message.
CutFramesDoNotShift ==
  \A n \in 0..Len(frame) - 1 :
    LET packet == DecodePacket(SubSeq(frame, 1, n))
    IN  \/ packet = Malformed
        \/ packet.path = hops /\ IsStrictPrefix(packet.payload, origin.payload)
=============================================================================
