CONSTANTS
  ChannelCap = 2
  TriggerCap = 1
  SyncReliable = TRUE
  MaxApplied = 4
SPECIFICATION Spec
INVARIANTS TypeOK AlwaysLoadable
PROPERTIES NeverOlder
