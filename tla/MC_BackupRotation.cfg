\* A retention of two days, and faults enough for every backup of it to fail.
SPECIFICATION Spec
CONSTANTS
  Retention = 2
  MaxFaults = 4
  MaxRestores = 2
  NoFile = NoFile
INVARIANTS
    BackupInv
PROPERTIES
    BackupsResume
