CONSTANTS
  m1 = m1  m2 = m2
  Maps = {m1, m2}
  Faults = {"crash"}
  Replaces = TRUE
  MaxSaves = 2
  SavesAfterCrash = FALSE
SPECIFICATION SlotSpec
SYMMETRY MapSymmetry
INVARIANTS BackupFound
