\* One pause of the programmer.
CONSTANTS
  Base = 4
  HEADER = 3
  BUFFERSIZE = 2
  FifoSize = 7
  Outbox <- ThreePackets
  MaxFaults = 1
SPECIFICATION FairLinkSpec
PROPERTY ReturnsReceivedData
