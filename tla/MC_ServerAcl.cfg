\* Hosts a, a.b and b.b and the IP literal 1; patterns *, *.b, a and 1;
\* allow and deny lists of up to two patterns.
CONSTANTS
  Hosts <- MCHosts
  IpHosts <- MCIpHosts
  AclPatterns <- MCAclPatterns
  MaxList = 2
  Absent = Absent
SPECIFICATION AclSpec
INVARIANTS
  AclTypeOK
  SerdeRoundTrip
