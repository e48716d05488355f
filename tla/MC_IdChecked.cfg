\* A checked kind (validate = ...): every entry point and conversion.
CONSTANTS
  Checked = TRUE
  InlineBytes = 4
  MaxStrCap = 5
  MaxAllocs = 3
  Slots = {s1, s2, s3}
  Inputs <- CheckedInputs
  Validate <- MCValidate
SYMMETRY MCSymmetry
SPECIFICATION Spec
INVARIANTS
  MemorySafe
  ContentPreserved
  ValidIds
  StorageModeByLength
