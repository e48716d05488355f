\* As MC_IdJson.cfg: an id read from JSON, written back by its Serialize
\* impl and read again.
CONSTANTS
  Validate <- MCValidate
  EscapedChars <- MCEscaped
  Chars <- MCChars
  MaxLen = 5
SPECIFICATION Spec
CHECK_DEADLOCK FALSE
INVARIANTS
  SerializedIdsDeserialize
