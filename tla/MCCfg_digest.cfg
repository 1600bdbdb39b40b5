SPECIFICATION Spec
CONSTANTS
  File <- WithDigest
  Ipv4 = {"h1", "h2", "h3", "t1", "t2"}
  Ipv6 = {"v6"}
  Unknown <- Refused
  SavedNqn <- Nqn
  SNSD_NVME_RDMA_TRSVCID = 4420
CHECK_DEADLOCK FALSE
INVARIANT WellFormedIsAccepted
