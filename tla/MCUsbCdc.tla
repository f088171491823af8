------------------------------ MODULE MCUsbCdc ------------------------------
(* Packets of two bytes at most, one of them empty and one the magic one;  *)
(* writes that fill a packet, and that fill more than one.                 *)
EXTENDS UsbCdc

Magic == <<8, 9>>
HostPackets == {<<>>, <<8>>, Magic}
Buffers == {<<4, 5>>, <<4, 5, 6>>}
=============================================================================
