SPECIFICATION Spec
CONSTANTS
  a1 = a1
  a2 = a2
  NoAddr = NoAddr
  Addrs <- OneAddr
  Ip <- MCIp
  MaxSeq = 6
  BufferCap = 2
  PacketCap = 2
  MaxClients = 1
  MaxClientsPerIp = 1
  Duplicates = TRUE
  MaxConnects = 1
  MaxStreams = 2
  MaxSends = 1
  NetCap = 2
INVARIANTS OldMeansGot
CHECK_DEADLOCK FALSE
