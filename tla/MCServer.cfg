SPECIFICATION Spec
CONSTANTS
  t1 = t1
  t2 = t2
  Threads = {t1, t2}
  Docs <- MCDocs
  Texts <- MCTexts
  ClientRules = {"client"}
  MaxEdits = 1
SYMMETRY MCSymmetry
INVARIANTS
  PassIsWarranted
  BlockIsWarranted
PROPERTY
  ReloadTakesTheFile
