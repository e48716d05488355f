\* Two AuthData objects, {} and an object AuthData rejects, one scalar.
CONSTANTS
  AuthObjects = {authPassword, authSession}
  OtherObjects = {objEmpty, objOther}
  EmptyObject = objEmpty
  Scalars = {jsonString}
  Null = Null
  Absent = Absent
SPECIFICATION Spec
INVARIANTS
  RequestRoundTrip
  EmptyAuthIsNone
