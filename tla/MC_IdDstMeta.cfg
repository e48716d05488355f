\* Identifiers validate, inline_bytes and the path f; the literal 8 and one
\* beyond usize::MAX; every single attribute of up to 7 tokens, and lists of
\* up to two sample attributes.  An attribute list is finite, so the token
\* enumeration stops.
CONSTANTS
  Idents <- MCIdents
  IntLits <- MCIntLits
  LitValue <- MCLitValue
  MaxTokens = 7
  AttrSamples <- MCAttrSamples
SPECIFICATION Spec
CHECK_DEADLOCK FALSE
INVARIANTS
  ExpandHonoursArguments
