----------------------------- MODULE PacketLink -----------------------------
(***************************************************************************)
(* The packets of the boot protocol on the serial line: put_packet() and   *)
(* get_packet() of bootprotocol.c, com_channel_getc() of commuch.c and the *)
(* UART_Read() behind it.  The line loses, changes and adds bytes; the     *)
(* receiver of the UART drops what comes in while a handler runs and its   *)
(* FIFO is full; and a read that has waited too long returns a byte that   *)
(* nobody sent.                                                            *)
(*                                                                         *)
(* The data loop of get_packet() runs to the length it has received and    *)
(* does not look at BUFFERSIZE.  What it stores behind bl_buffer falls on  *)
(* other static variables and the heap, which only the handlers use, not   *)
(* on its own variables: those are on the stack, at the other end of the   *)
(* RAM.  The bytes there are not part of the model, only how many of them  *)
(* are overwritten and that a handler which uses them may never return.    *)
(*                                                                         *)
(* The programmer is external: it sends one packet of Outbox after the     *)
(* other, in whatever order it likes, and waits until the line is silent   *)
(* before it sends the next.  So is whoever resets a board that hangs.     *)
(***************************************************************************)
EXTENDS Integers, Sequences

CONSTANTS
  Base,        \* number of byte values, 256
  HEADER,      \* the byte a packet begins with, three times
  BUFFERSIZE,  \* bytes of bl_buffer
  FifoSize,    \* bytes the receiver of the UART holds, 16
  Outbox,      \* the packets of the programmer
  MaxFaults    \* bound: faults of the line, time-outs and early repeats

Byte == 0 .. Base - 1

ASSUME LinkAssumption ==
  /\ Base \in Nat \ {0, 1} /\ HEADER \in Byte
  /\ BUFFERSIZE \in 1 .. Base * Base - 1
  /\ FifoSize \in Nat \ {0} /\ MaxFaults \in Nat
  /\ Outbox \subseteq [cmd : Byte, data : UNION {[1 .. n -> Byte] : n \in 0 .. BUFFERSIZE}]

VARIABLES
  line,     \* bytes between the programmer and com_channel_getc()
  at,       \* the byte get_packet() waits for, or "handler" after it returned,
            \* or "hung" when the handler does not return
  cmd,      \* packet->cmd
  length,   \* packet->length
  buf,      \* bl_buffer, packet->data
  behind,   \* how many bytes behind bl_buffer have been overwritten
  n,        \* i, the index of the data loop
  chksum,   \* the sum so far
  slot,     \* the local variable of com_channel_getc()
  sent,     \* history: the packet sent last
  hurt,     \* history: a byte of its data or check sum was changed
  astray,   \* history: the receiver may not be where the sender is
  faults    \* faults so far

packetVars == <<at, cmd, length, buf, behind, n, chksum>>
linkVars == <<line, packetVars, slot, sent, hurt, astray, faults>>

At == {"head1", "head2", "head3", "cmd", "len_h", "len_l", "data", "sum",
       "handler", "hung"}

LinkTypeOK ==
  /\ line \in Seq(Byte) /\ at \in At
  /\ cmd \in Byte /\ length \in 0 .. Base * Base - 1
  /\ buf \in [1 .. BUFFERSIZE -> Byte] /\ behind \in 0 .. Base * Base - 1 - BUFFERSIZE
  /\ n \in 0 .. length /\ chksum \in Byte /\ slot \in Byte
  /\ sent \in Outbox /\ hurt \in BOOLEAN /\ astray \in BOOLEAN
  /\ faults \in 0 .. MaxFaults

-----------------------------------------------------------------------------
(* A packet as bytes.                                                      *)

\* Mutant of Checksum: the first byte is not added.
ChecksumShort(s) ==
  LET sum[k \in 0 .. Len(s)] == IF k <= 1 THEN 0 ELSE (sum[k - 1] + s[k]) % Base
  IN  sum[Len(s)]

\* A uint8_t to which the bytes are added.
Checksum(s) ==
  LET sum[k \in 0 .. Len(s)] == IF k = 0 THEN 0 ELSE (sum[k - 1] + s[k]) % Base
  IN  sum[Len(s)]

put_packet(c, data) ==
  <<HEADER, HEADER, HEADER, c, Len(data) \div Base, Len(data) % Base>>
    \o data \o <<Checksum(data)>>

\* What get_packet() has put into the packet.
Received == [cmd |-> cmd, data |-> SubSeq(buf, 1, length)]

-----------------------------------------------------------------------------
(* get_packet(), one byte at a time.  A byte that is not the expected one  *)
(* is thrown away: the next is compared with the first header byte.        *)

Again == at' = "head1" /\ UNCHANGED <<cmd, length, buf, behind, n, chksum>>

Header(b) ==
  /\ at \in {"head1", "head2", "head3"}
  /\ IF b = HEADER
     THEN /\ at' = IF at = "head1" THEN "head2"
                   ELSE IF at = "head2" THEN "head3" ELSE "cmd"
          /\ UNCHANGED <<cmd, length, buf, behind, n, chksum>>
     ELSE Again

\* Mutant of CommandByte: the index starts where the last packet ended.
CommandByteStale(b) ==
  /\ at = "cmd" /\ at' = "len_h"
  /\ cmd' = b /\ length' = 0 /\ chksum' = 0
  /\ UNCHANGED <<buf, behind, n>>

CommandByte(b) ==
  /\ at = "cmd" /\ at' = "len_h"
  /\ cmd' = b /\ length' = 0 /\ n' = 0 /\ chksum' = 0
  /\ UNCHANGED <<buf, behind>>

Length(b) ==
  /\ at \in {"len_h", "len_l"}
  /\ length' = length * Base + b
  /\ at' = IF at = "len_h" THEN "len_l" ELSE IF length' = 0 THEN "sum" ELSE "data"
  /\ UNCHANGED <<cmd, buf, behind, n, chksum>>

(* packet->data[i] = b, whether or not i is in bl_buffer.                  *)
Store(b) ==
  IF n < BUFFERSIZE
  THEN buf' = [buf EXCEPT ![n + 1] = b] /\ UNCHANGED behind
  ELSE behind' = (IF n - BUFFERSIZE < behind THEN behind ELSE n + 1 - BUFFERSIZE)
       /\ UNCHANGED buf

\* Mutant of Data: the loop goes one byte too far.
DataLong(b) ==
  /\ at = "data"
  /\ Store(b)
  /\ chksum' = (chksum + b) % Base /\ n' = n + 1
  /\ at' = IF n' > length THEN "sum" ELSE "data"
  /\ UNCHANGED <<cmd, length>>

Data(b) ==
  /\ at = "data"
  /\ Store(b)
  /\ chksum' = (chksum + b) % Base /\ n' = n + 1
  /\ at' = IF n' = length THEN "sum" ELSE "data"
  /\ UNCHANGED <<cmd, length>>

\* Mutant of Sum: the check sum is not compared.
SumIgnored(b) ==
  /\ at = "sum" /\ b \in Byte
  /\ at' = "handler"
  /\ UNCHANGED <<cmd, length, buf, behind, n, chksum>>

\* Mutant of Sum: a wrong check sum is waited away.
SumWaits(b) ==
  /\ at = "sum"
  /\ IF b = chksum
     THEN at' = "handler" /\ UNCHANGED <<cmd, length, buf, behind, n, chksum>>
     ELSE UNCHANGED packetVars

Sum(b) ==
  /\ at = "sum"
  /\ IF b = chksum
     THEN at' = "handler" /\ UNCHANGED <<cmd, length, buf, behind, n, chksum>>
     ELSE Again

Take(b) == Header(b) \/ CommandByte(b) \/ Length(b) \/ Data(b) \/ Sum(b)

com_channel_getc ==
  /\ line # <<>>
  /\ line' = Tail(line) /\ slot' = Head(line)
  /\ Take(Head(line))
  /\ UNCHANGED <<sent, hurt, astray, faults>>

Fault == faults < MaxFaults /\ faults' = faults + 1

(* UART_Read() gives up after 2^30 polls and com_channel_getc() returns    *)
(* its variable as it is.                                                  *)
TimeOut ==
  /\ line = <<>> /\ Fault
  /\ Take(slot)
  /\ astray' = TRUE
  /\ UNCHANGED <<line, slot, sent, hurt>>

(* The handler is done: the reply is one byte in the same buffer, and the  *)
(* stack below has been used.                                              *)
Handled ==
  /\ at = "handler" /\ at' = "head1"
  /\ \E status \in {0, 1} : buf' = [buf EXCEPT ![1] = status]
  /\ length' = 1 /\ n' = 0 /\ chksum' = 0
  /\ slot' \in Byte
  /\ UNCHANGED <<cmd, behind, line, sent, hurt, astray, faults>>

(* A handler that uses what was overwritten behind bl_buffer: it returns   *)
(* as ever (Handled), or never.                                            *)
HandlerHangs ==
  /\ at = "handler" /\ behind > 0
  /\ at' = "hung" /\ astray' = TRUE
  /\ UNCHANGED <<line, cmd, length, buf, behind, n, chksum, slot, sent, hurt, faults>>

(* The board is reset: the static variables are initialised again.         *)
Restart ==
  /\ at = "hung" /\ at' = "head1"
  /\ buf' = [k \in 1 .. BUFFERSIZE |-> 0]
  /\ cmd' = 0 /\ length' = 0 /\ behind' = 0 /\ n' = 0 /\ chksum' = 0
  /\ slot' \in Byte /\ line' = <<>>
  /\ UNCHANGED <<sent, hurt, astray, faults>>

-----------------------------------------------------------------------------
(* The programmer and the line.                                            *)

Send(p) ==
  /\ line = <<>> /\ at \notin {"handler", "hung"}
  /\ line' = put_packet(p.cmd, p.data)
  /\ sent' = p /\ hurt' = FALSE /\ astray' = (at # "head1")
  /\ UNCHANGED <<packetVars, slot, faults>>

\* The programmer does not wait for the handler, and the FIFO may fill up.
SendEarly(p) ==
  /\ line = <<>> /\ at = "handler" /\ Fault
  /\ LET f == put_packet(p.cmd, p.data)
     IN  /\ line' = IF Len(f) > FifoSize THEN SubSeq(f, 1, FifoSize) ELSE f
         /\ astray' = (Len(f) > FifoSize)
  /\ sent' = p /\ hurt' = FALSE
  /\ UNCHANGED <<packetVars, slot>>

\* The bytes on the line that are data or check sum of the packet sent last.
Payload == {k \in 1 .. Len(line) : Len(line) - k <= Len(sent.data)}

Change ==
  /\ Fault
  /\ \E k \in 1 .. Len(line), b \in Byte :
       /\ b # line[k] /\ line' = [line EXCEPT ![k] = b]
       /\ hurt' = TRUE
       /\ astray' = (astray \/ hurt \/ k \notin Payload)
  /\ UNCHANGED <<packetVars, slot, sent>>

Lose ==
  /\ Fault
  /\ \E k \in 1 .. Len(line) :
       line' = SubSeq(line, 1, k - 1) \o SubSeq(line, k + 1, Len(line))
  /\ astray' = TRUE
  /\ UNCHANGED <<packetVars, slot, sent, hurt>>

Noise ==
  /\ Fault
  /\ \E k \in 0 .. Len(line), b \in Byte :
       line' = SubSeq(line, 1, k) \o <<b>> \o SubSeq(line, k + 1, Len(line))
  /\ astray' = TRUE
  /\ UNCHANGED <<packetVars, slot, sent, hurt>>

-----------------------------------------------------------------------------

LinkInit ==
  /\ line = <<>> /\ at = "head1" /\ cmd = 0 /\ length = 0
  /\ buf = [k \in 1 .. BUFFERSIZE |-> 0]
  /\ behind = 0 /\ n = 0 /\ chksum = 0 /\ slot \in Byte
  /\ sent \in Outbox /\ hurt = FALSE /\ astray = FALSE /\ faults = 0

Device == com_channel_getc \/ Handled \/ HandlerHangs
Sender == \E p \in Outbox : Send(p)

LinkNext ==
  \/ Device \/ Sender \/ Restart
  \/ TimeOut \/ (\E p \in Outbox : SendEarly(p)) \/ Change \/ Lose \/ Noise

LinkSpec == LinkInit /\ [][LinkNext]_linkVars

(* The boot loader polls for bytes, and the programmer keeps trying.       *)
(* Nothing says that somebody resets a board that hangs.                   *)
FairLinkSpec == LinkSpec /\ WF_linkVars(Device) /\ WF_linkVars(Sender)

-----------------------------------------------------------------------------
(* Properties.                                                             *)

(* A packet that get_packet() accepts is the one sent last, command and    *)
(* data, unless bytes were lost, added or invented, two of its bytes were  *)
(* changed, or one outside its data: then a wrong one can pass.  One       *)
(* changed byte of data or check sum is always found.                      *)
AcceptedExact ==
  [][(at # "handler" /\ at' = "handler" /\ ~astray)
       => Received' = sent /\ ~hurt]_linkVars

(* Nothing is stored behind bl_buffer but by a receiver that was led       *)
(* astray: not by the packets of the programmer, with one byte changed,    *)
(* after packets given up half way, or after time-outs and lost bytes that *)
(* an earlier packet met.                                                  *)
BufferKept == [][behind' > behind => astray]_linkVars

(* A packet whose bytes cannot be taken for the head of another: no three  *)
(* header bytes in a row but the first, and none at the end.               *)
Unmistakable ==
  {p \in Outbox :
     LET f == put_packet(p.cmd, p.data)
     IN  /\ f[Len(f)] # HEADER
         /\ \A k \in 2 .. Len(f) - 2 : \E i \in k .. k + 2 : f[i] # HEADER}

(* The receiver finds back to the sender, from wherever lost, changed and  *)
(* added bytes, time-outs and packets that look like others have led it,   *)
(* also when it has to take all of a length that nobody sent.  Once the    *)
(* programmer sends packets that cannot be mistaken, each begins where     *)
(* get_packet() looks for its first byte, unless a handler has hung by     *)
(* what was overwritten meanwhile and nobody resets the board.             *)
Resynchronises == <>[](sent \in Unmistakable) => <>[](~astray \/ at = "hung")

(* commuch.h: com_channel_getc() returns received data.                    *)
ReturnsReceivedData == [][at' # at => line # <<>> \/ at \in {"handler", "hung"}]_linkVars
=============================================================================
