\* An unchecked kind (no validate): every entry point and conversion.
CONSTANTS
  Checked = FALSE
  InlineBytes = 2
  MaxStrCap = 3
  MaxAllocs = 3
  Slots = {s1, s2, s3}
  Inputs <- UncheckedInputs
  Validate <- MCValidate
SYMMETRY MCSymmetry
SPECIFICATION Spec
INVARIANTS
  MemorySafe
  ContentPreserved
