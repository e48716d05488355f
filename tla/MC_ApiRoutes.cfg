\* Every request of the four endpoints the client can build, by ruma and
\* by MSC2815 clients, under every router behaviour.
CONSTANTS
  RoomIds <- MCRoomIds
  EventIds <- MCEventIds
  EventTypes <- MCEventTypes
  StateKeys <- MCStateKeys
  Limits <- MCLimits
  VersionSets <- MCVersionSets
  ValidRoomId <- MCValidRoomId
  ValidEventId <- MCValidEventId
  None = None
SPECIFICATION Spec
INVARIANTS
  RoundTrip
