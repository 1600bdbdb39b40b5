SPECIFICATION FairSSpec
CONSTANTS
  Port <- TwoApart
  Bond <- None
  SlaveIf = {}
  Vlan = {1}
  SNSD_MAX_LISTENER = 1
  SNSD_MAX_IP_PHYPORT = 2
  Fd = {f1}
  NoFd = nofd
  MAX_PHY_PORT = 1
  MAX_NAME_INDEX = 1
  LLDP_OLD_TIME = 1
  LLDP_WAIT_OLD_TIME = 1
  LLDP_INTERVAL_CLOCK = 1
  SWITCH_POLL_INTEVAL = 2
  EpollMayFail = FALSE
  MaxUpset = 1
INVARIANTS HeardOrRetried RefsExact
PROPERTIES LostLinkDisconnected PortServed
