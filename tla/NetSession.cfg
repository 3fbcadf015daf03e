SPECIFICATION Spec
CONSTANTS
  a1 = a1
  a2 = a2
  NoAddr = NoAddr
  Addrs <- TwoAddrs
  Ip <- MCIp
  MaxSeq = 6
  BufferCap = 2
  PacketCap = 2
  MaxClients = 3
  MaxClientsPerIp = 2
  Duplicates = FALSE
  MaxConnects = 2
  MaxStreams = 3
  MaxSends = 0
  NetCap = 1
INVARIANTS Inv GameFollowsNet PerIp
CHECK_DEADLOCK FALSE
