\* Four byte values, a buffer of two bytes, and a FIFO that holds the packet
\* without data but not the one with two bytes.
CONSTANTS
  Base = 4
  HEADER = 3
  BUFFERSIZE = 2
  FifoSize = 7
  Outbox <- ThreePackets
  MaxFaults = 2
SPECIFICATION FairLinkSpec
INVARIANTS LinkTypeOK
PROPERTIES AcceptedExact BufferKept Resynchronises
