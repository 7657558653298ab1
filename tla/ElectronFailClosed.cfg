SPECIFICATION StoreSpec
CONSTANTS
  ElectronIds = {e1}
  MaxSealed = 2
  MaxReceipts = 2
  MaxCommands = 5
  MaxErrors = 0
  MaxCrashes = 0
INVARIANT RecoveryIsRestore
CHECK_DEADLOCK FALSE
