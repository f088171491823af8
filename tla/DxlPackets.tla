----------------------------- MODULE DxlPackets -----------------------------
(***************************************************************************)
(* The packets of protocol 2 of the Dynamixel bus (dxl.cpp, crc16.cpp):    *)
(* how a packet is written as bytes, and the parser that is given the      *)
(* bytes that come, one at a time.                                         *)
(*                                                                         *)
(* The instruction field, which nobody reads in a reply, is left out of    *)
(* the packets that are parsed.                                            *)
(***************************************************************************)
EXTENDS Integers, FiniteSets, SequencesExt

CONSTANT DXL_MAX_PARAMS  (* the size of parameters[]: 140                  *)

(* With another remainder `dxl_state' would not follow `process', nor      *)
(* `process' the parameters, without a gap (see PushBeyond).               *)
ASSUME DxlPacketsAssumption ==
  DXL_MAX_PARAMS \in 0 .. 251 /\ DXL_MAX_PARAMS % 4 = 0

Byte == 0 .. 255

HEADER == <<255, 255, 253, 0>>

(* The two last values of dxl_state, for the bytes of the checksum.        *)
CRC_LOW == 2^16
CRC_HIGH == 2^16 + 1

-----------------------------------------------------------------------------
(* dxl_write_packet.                                                       *)

(* update_crc for one byte: the table of crc16.cpp is that of the          *)
(* polynomial 2^15 + 2^2 + 2^0, high bit first.                            *)
Word == 0 .. 2^16 - 1

Flip(word, k) == IF (word \div 2^k) % 2 = 0 THEN word + 2^k ELSE word - 2^k

Divided(bit) ==
  [word \in Word |->
     LET shifted == (2 * word) % 2^16
     IN  IF word \div 2^15 = bit THEN shifted ELSE Flip(Flip(Flip(shifted, 0), 2), 15)]

update_crc(crc, byte) ==
  LET D(k) == Divided((byte \div 2^k) % 2)
  IN  D(0)[D(1)[D(2)[D(3)[D(4)[D(5)[D(6)[D(7)[crc]]]]]]]]

(* update_crc for a buffer: the checksums of its beginnings.               *)
Checksums(bytes) ==
  LET crc[n \in 0 .. Len(bytes)] ==
        IF n = 0 THEN 0 ELSE update_crc(crc[n-1], bytes[n])
  IN  crc

(* Where 255 255 253 stands in a sequence, the 253 is doubled: it could be *)
(* taken for a header.                                                     *)
HeaderAt(s, i) == i >= 3 /\ s[i] = 253 /\ s[i-1] = 255 /\ s[i-2] = 255

Stuffed(s) ==
  FlattenSeq([i \in DOMAIN s |-> IF HeaderAt(s, i) THEN <<253, 253>> ELSE <<s[i]>>])

dxl_unstuff(s) ==
  FlattenSeq([i \in DOMAIN s |-> IF s[i] = 253 /\ HeaderAt(s, i - 1) THEN <<>> ELSE <<s[i]>>])

dxl_write_packet(id, instruction, parameters) ==
  LET body   == Stuffed(parameters)
      length == Len(body) + 3
      bytes  == HEADER \o <<id, length % 256, length \div 256, instruction>> \o body
      crc16  == Checksums(bytes)[Len(bytes)]
  IN  bytes \o <<crc16 % 256, crc16 \div 256>>

-----------------------------------------------------------------------------
(* dxl_packet_push_byte.                                                   *)

Blank == [id |-> 0, parameter_nb |-> 0, parameters |-> <<>>,
          process |-> FALSE, dxl_state |-> 0, crc16 |-> 0]

(* Back to the header.  The fields of a packet that was not accepted keep  *)
(* their values in the code; they are written anew before they are read,   *)
(* and forgotten here.                                                     *)
Restart(packet) ==
  IF packet.process THEN [packet EXCEPT !.dxl_state = 0, !.crc16 = 0] ELSE Blank

(* The bytes before the checksum.                                          *)
Expected(packet, b) ==
  CASE packet.dxl_state < 4 -> b = HEADER[packet.dxl_state + 1]
    [] packet.dxl_state = 5 -> b < DXL_MAX_PARAMS
    [] OTHER -> TRUE

Stored(packet, b) ==
  LET n == packet.dxl_state - 8
  IN  CASE packet.dxl_state < 4 -> packet
        [] packet.dxl_state = 4 -> [packet EXCEPT !.id = b]
        [] packet.dxl_state = 5 -> [packet EXCEPT !.parameter_nb = b]
        [] packet.dxl_state = 6 -> [packet EXCEPT !.parameter_nb = (@ - 3) % 256]
        [] packet.dxl_state = 7 -> packet
        [] OTHER -> [packet EXCEPT !.parameters =
                                     IF n < Len(@) THEN ReplaceAt(@, n + 1, b)
                                     ELSE Append(@, b)]

LastParameter(packet) ==
  packet.dxl_state >= 8 /\ packet.dxl_state - 7 >= packet.parameter_nb

PushContent(packet, b) ==
  LET stored == Stored(packet, b)
  IN  IF ~Expected(packet, b) THEN Restart(stored)
      ELSE [stored EXCEPT
             !.crc16 = update_crc(@, b),
             !.dxl_state = IF LastParameter(packet) THEN CRC_LOW ELSE @ + 1]

(* A length below 3 wraps around, and more parameters come than there is   *)
(* room for: their index is tested after they are stored, and one too      *)
(* late (the length itself, 253 or more, is not reached).  Behind          *)
(* `parameters' lies `process', then `dxl_state', of which the code built  *)
(* with -Os tests the value it has loaded before.                          *)
PushBeyond(packet, b) ==
  IF packet.dxl_state - 8 > DXL_MAX_PARAMS THEN Restart(packet)
  ELSE [packet EXCEPT !.process = (b # 0), !.crc16 = update_crc(@, b), !.dxl_state = @ + 1]

(* The checksum is taken away from the computed one, low byte first; what  *)
(* is left tells whether these bytes were a packet.                        *)
PushLow_AsHigh(packet, b) ==
  [packet EXCEPT !.crc16 = @ - 256 * b, !.dxl_state = CRC_HIGH]

PushLow(packet, b) == [packet EXCEPT !.crc16 = @ - b, !.dxl_state = CRC_HIGH]

PushEnd_Unchecked(packet, b) ==
  LET body == dxl_unstuff(SubSeq(packet.parameters, 1, packet.parameter_nb))
  IN  Restart([packet EXCEPT !.process = TRUE, !.parameters = body,
                             !.parameter_nb = Len(body)])

PushEnd(packet, b) ==
  LET body == dxl_unstuff(SubSeq(packet.parameters, 1, packet.parameter_nb))
  IN  Restart(IF packet.crc16 = 256 * b
              THEN [packet EXCEPT !.process = TRUE, !.parameters = body,
                                  !.parameter_nb = Len(body)]
              ELSE packet)

dxl_packet_push_byte(packet, b) ==
  CASE packet.dxl_state = CRC_LOW -> PushLow(packet, b)
    [] packet.dxl_state = CRC_HIGH -> PushEnd(packet, b)
    [] packet.dxl_state \in DXL_MAX_PARAMS + 8 .. CRC_LOW - 1 -> PushBeyond(packet, b)
    [] OTHER -> PushContent(packet, b)

(* The checksum fits its word until its low byte is taken away.            *)
Rest == -255 .. 2^16 - 1

Packet == [id : Byte, parameter_nb : Byte, parameters : Seq(Byte),
           process : BOOLEAN, dxl_state : 0 .. CRC_HIGH, crc16 : Rest]
=============================================================================
