\* Two requests at once, two wizards, three starts.
SPECIFICATION Spec
CONSTANTS
  a = a
  b = b
  Blank = Blank
  Mixed = Mixed
  DefaultPath = DefaultPath
  Absent = Absent
  NoService = NoService
  Values = {a, b}
  Requests = {r1, r2}
  Forms <- MCForms
  Environments <- MCEnvironments
  HandWritten <- MCHandWritten
  MaxPosts = 5
  MaxWizards = 2
  MaxStarts = 3
INVARIANTS
  TypeOK
  ServesAsDrafted
  SavedIsReady
  OneWizardKeepsTheKey
SYMMETRY MCSymmetry
CHECK_DEADLOCK FALSE
