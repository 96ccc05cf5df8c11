\* Two processes; a disk whose blocks run out, a cache of one block, files of a
\* few blocks, and a namespace with room for the prefixes that are mounted.
CONSTANTS
  Parts = {"rds", "lfs", "rfs", "nam"}
  RdProcs = {p1, p2}
  RdBlocks = {1, 2}
  RD_QNODES = 3
  RD_CNODES = 1
  RD_RETRIES = 2
  RdBounds <- RdLimits
  LfProcs = {p1, p2}
  LfNames = {"f", "g"}
  LfModes <- Modes
  LfBytes = {1, 2}
  Nlfl = 2
  LF_BLKSIZ = 2
  LF_IBLEN = 1
  LF_NUM_DIR_ENT = 2
  LfPerSector = 2
  LfWanted = 3
  LfSectors = 6
  LfBounds <- LfLimits
  RfProcs = {p1, p2}
  RfNames = {"f"}
  RfModes <- RemoteModes
  RfBytes = {1}
  RfCounts = {0, 1}
  Nrfl = 1
  RF_RETRIES = 2
  RF_DATALEN = 1
  RfCalls = 3
  RfKills = 1
  NmChars <- Characters
  NmDevices <- Devices
  NAMESPACE = 2
  NULLDEV = 1
  RFILESYS = 3
  LFILESYS = 4
  NM_PRELEN = 5
  NM_REPLLEN = 6
  NM_MAXLEN = 16
  NNAMES = 14
  NmCharBit = 8
  NmPrefixes <- MountPoints
  NmRepls <- Replacements
  NmNames <- Opened
SPECIFICATION StorSpec
CONSTRAINT StorBound
SYMMETRY StorSymmetry
INVARIANTS RdReadsFresh RdRequestsQueued LfReadsBack LfBlocksOwned RfAnswered RfMutexBalanced NamMapsRest
CHECK_DEADLOCK FALSE
