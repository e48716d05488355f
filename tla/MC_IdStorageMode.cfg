\* An unchecked kind: is an OwnedId stored inline exactly when it is short?
CONSTANTS
  Checked = FALSE
  InlineBytes = 2
  MaxStrCap = 3
  MaxAllocs = 3
  Slots = {s1, s2, s3}
  Inputs <- UncheckedInputs
  Validate <- MCValidate
SYMMETRY MCSymmetry
SPECIFICATION Spec
INVARIANT StorageModeByLength
