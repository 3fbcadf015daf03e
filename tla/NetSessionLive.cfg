SPECIFICATION FairSpec
CONSTANTS
  a1 = a1
  a2 = a2
  NoAddr = NoAddr
  Addrs <- OneAddr
  Ip <- MCIp
  MaxSeq = 6
  BufferCap = 2
  PacketCap = 2
  MaxClients = 2
  MaxClientsPerIp = 2
  Duplicates = FALSE
  MaxConnects = 2
  MaxStreams = 3
  MaxSends = 1
  NetCap = 1
PROPERTIES SlotsSettle GhostsEnd HandshakeEnds
CHECK_DEADLOCK FALSE
