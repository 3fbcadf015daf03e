SPECIFICATION Spec
CONSTANTS
  server = server
  client = client
  ServerSends = 7
  ClientSends = 0
  Peers <- MCPeers
  Total <- MCTotal
  MaxSeq = 6
  BufferCap = 2
  PacketCap = 2
  Window = 2
  Lifetime = 1
  NetCap = 2
INVARIANTS Inv Resendable
PROPERTIES StreamsImplemented
CHECK_DEADLOCK FALSE
