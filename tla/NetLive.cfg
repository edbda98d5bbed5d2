SPECIFICATION FairSpec
CONSTANTS
  LastInode = 1
  Tcp = {1}
  Udp = {}
  Foreign = {}
  Fds = {1, 2}
  Ports = {53}
  PeerOf <- MCPeerOf
  SocksPorts = {}
  DnsPort = 53
  DnsTrace = TRUE
  NoConn = NoConn
  EventCap = 1
  ReadFails = TRUE
  Forks = TRUE
  MaxChanges = 3
INVARIANTS NetFaithful CloseExplained
PROPERTIES NetEventuallySeen NetExitEnds NetCloseStops
