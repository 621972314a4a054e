---------------------------- MODULE MCPacketLink ----------------------------
(* Packets of bytes 0 to 3, with 3 as the header byte.                     *)
EXTENDS PacketLink

\* One without data, one whose data are header bytes, and one whose last
\* byte of data and check sum are.
ThreePackets == {[cmd |-> 1, data |-> <<>>],
                 [cmd |-> 2, data |-> <<3, 3>>],
                 [cmd |-> 2, data |-> <<0, 3>>]}
=============================================================================
