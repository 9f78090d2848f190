------------------------------ MODULE PacketBuilder ------------------------------
(***************************************************************************)
(* The wire format (core/PacketBuilder.{h,cpp}): the twelve octets of the  *)
(* header and the length of the payload, all of whose octets are zero, and *)
(* what a receiver reads off them as RFC 3550 lays the header out.         *)
(***************************************************************************)
EXTENDS Integers, Sequences

\* The number masked, but not shifted before.
OctetUnshifted(v, unit) == v % 256

\* A byte shifted and masked out of a number: unit is 1, 2^8, 2^16 or 2^24.
Octet(v, unit) == (v \div unit) % 256

\* Version 2, no padding, no extension, no CSRC; then the codec, a uint8_t whose
\* top bit nobody masks; then the three numbers, big-endian.
Header(s) ==
  <<128, s.codec,
    Octet(s.seq, 256), Octet(s.seq, 1),
    Octet(s.timestamp, 16777216), Octet(s.timestamp, 65536),
    Octet(s.timestamp, 256), Octet(s.timestamp, 1),
    Octet(s.ssrc, 16777216), Octet(s.ssrc, 65536), Octet(s.ssrc, 256), Octet(s.ssrc, 1)>>

\* A clock rate of 16 bits and a packetization time of 8: the product fits an int.
PayloadSize(s, ptime_in_packet) == (s.clockrate * ptime_in_packet) \div 1000

GenerateRtpPacket(s, ptime_in_packet) ==
  [header |-> Header(s), payload_size |-> PayloadSize(s, ptime_in_packet)]

-------------------------------------------------------------------------------
(* What a receiver reads.                                                   *)

\* The number that the octets of h from position i on spell.
Number16(h, i) == h[i] * 256 + h[i + 1]
Number32(h, i) == h[i] * 16777216 + h[i + 1] * 65536 + h[i + 2] * 256 + h[i + 3]

Received(p) ==
  [version |-> p.header[1] \div 64,
   flags |-> p.header[1] % 64,
   marker |-> p.header[2] \div 128,
   payload_type |-> p.header[2] % 128,
   seq |-> Number16(p.header, 3),
   timestamp |-> Number32(p.header, 5),
   ssrc |-> Number32(p.header, 9)]

===============================================================================
