SPECIFICATION Spec
CONSTANTS
  Absent = Absent
INVARIANTS
  BackupUnpatched
  ObcStacks
