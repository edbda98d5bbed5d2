SPECIFICATION Spec
CONSTANTS
  LastInode = 3
  Tcp = {1}
  Udp = {2, 3}
  Foreign = {3}
  Fds = {1, 2}
  Ports = {53, 1080}
  PeerOf <- MCPeerOf
  SocksPorts = {1080}
  DnsPort = 53
  DnsTrace = TRUE
  NoConn = NoConn
  EventCap = 1
  ReadFails = FALSE
  Forks = FALSE
  MaxChanges = 2
INVARIANTS TypeOK NetFaithful NoForeignSocket AddressShown NetEndedComplete
