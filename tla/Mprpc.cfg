\* A caller whose request was cut may wait for ever, so the system may stop
\* with nobody at its end: no check for deadlock.
SPECIFICATION FairSpec
CONSTANTS
  Services = {"user", "friend"}
  MaxPairs = 1
  MaxReads = 2
  MaxCrashes = 1
  MaxPartitions = 1
INVARIANT MprpcTypeOK CallsAreFaithful RegistryFollowsSessions
PROPERTY CallsEnd
CHECK_DEADLOCK FALSE
