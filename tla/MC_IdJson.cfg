\* A RoomId-like checked kind; the characters "!", ":", "a" and the quote,
\* which serde_json must escape; string tokens of up to 5 characters.  A
\* JSON value is finite, so the character enumeration stops.
CONSTANTS
  Validate <- MCValidate
  EscapedChars <- MCEscaped
  Chars <- MCChars
  MaxLen = 5
SPECIFICATION Spec
CHECK_DEADLOCK FALSE
INVARIANTS
  OnlyValidStringsBecomeIds
  EntryPointsAgree
