------------------------------ MODULE ServerAcl ------------------------------
(***************************************************************************)
(* The m.room.server_acl state of a room (ruma-events room/server_acl.rs). *)
(* The room's current RoomServerAclEventContent is replaced whenever a new *)
(* m.room.server_acl event is deserialized, and every server that talks to *)
(* the room is checked with is_allowed against the content current then.  *)
(* A server name is its host, whether it carries a port, and whether the   *)
(* host is an IP literal.                                                  *)
(***************************************************************************)
EXTENDS Naturals, Sequences, SequencesExt, WildMatch

CONSTANTS
  Hosts,       \* host parts of server names, as character sequences
  IpHosts,     \* the hosts among Hosts that are IP literals
  AclPatterns, \* patterns that may appear in allow and deny
  MaxList,     \* longest allow or deny list
  Absent       \* a model value: a field missing from the event's JSON content

ASSUME IpHosts \subseteq Hosts

VARIABLES acl, last
aclVars == <<acl, last>>

Lists == BoundedSeq(AclPatterns, MaxList)
Contents == [allow_ip_literals : BOOLEAN, allow : Lists, deny : Lists]
Json == [allow_ip_literals : BOOLEAN \cup {Absent}, allow : Lists \cup {Absent},
         deny : Lists \cup {Absent}]
Servers == [host : Hosts, port : BOOLEAN]

\* ServerName::host: the name without its port.
Host(sn) == sn.host
\* ServerName::is_ip_literal.
IsIpLiteral(sn) == sn.host \in IpHosts

\* Deserialize: allow_ip_literals defaults to true (default_true), the lists
\* to empty.
DeserializeNoDefault(j) ==
  [allow_ip_literals |-> j.allow_ip_literals,
   allow |-> IF j.allow = Absent THEN <<>> ELSE j.allow,
   deny |-> IF j.deny = Absent THEN <<>> ELSE j.deny]

Deserialize(j) ==
  [allow_ip_literals |-> IF j.allow_ip_literals = Absent THEN TRUE ELSE j.allow_ip_literals,
   allow |-> IF j.allow = Absent THEN <<>> ELSE j.allow,
   deny |-> IF j.deny = Absent THEN <<>> ELSE j.deny]

\* Plausible fault: skip_serializing_if = is_false on allow_ip_literals.
SerializeSkipFalse(c) ==
  [allow_ip_literals |-> IF ~c.allow_ip_literals THEN Absent ELSE c.allow_ip_literals,
   allow |-> IF c.allow = <<>> THEN Absent ELSE c.allow,
   deny |-> IF c.deny = <<>> THEN Absent ELSE c.deny]
\* Serialize: allow_ip_literals is left out when true (is_true), a list
\* when empty (Vec::is_empty).
Serialize(c) ==
  [allow_ip_literals |-> IF c.allow_ip_literals THEN Absent ELSE c.allow_ip_literals,
   allow |-> IF c.allow = <<>> THEN Absent ELSE c.allow,
   deny |-> IF c.deny = <<>> THEN Absent ELSE c.deny]

\* RoomServerAclEventContent::matches: some pattern of the list matches
\* (WildMatch::new(a).matches(s)).
Matches(list, s) == \E i \in DOMAIN list : Glob(list[i], s)

\* allow_matches / deny_matches: matches on the allow or the deny list.
AllowMatches(c, s) == Matches(c.allow, s)
DenyMatches(c, s) == Matches(c.deny, s)

\* is_allowed: an IP literal is refused unless allow_ip_literals; otherwise
\* the host must match no deny pattern and some allow pattern.
IsAllowed(c, sn) ==
  /\ ~(~c.allow_ip_literals /\ IsIpLiteral(sn))
  /\ ~DenyMatches(c, Host(sn)) /\ AllowMatches(c, Host(sn))

\* A new m.room.server_acl event becomes the room's ACL.  last only keeps
\* decisions made under the current ACL, so it is cleared.
ReceiveAcl(j) ==
  /\ acl' = Deserialize(j)
  /\ last' = Absent

\* A server is checked against the current ACL; last records the decision.
CheckServer(sn) ==
  /\ last' = [server |-> sn, allowed |-> IsAllowed(acl, sn)]
  /\ UNCHANGED acl

\* The room holds an ACL built by RoomServerAclEventContent::new; no server
\* has been checked yet.
AclInit ==
  /\ acl \in Contents
  /\ last = Absent

AclNext ==
  \/ \E j \in Json : ReceiveAcl(j)
  \/ \E sn \in Servers : CheckServer(sn)

AclSpec == AclInit /\ [][AclNext]_aclVars

-----------------------------------------------------------------------------
AclTypeOK ==
  /\ acl \in Contents
  /\ last \in [server : Servers, allowed : BOOLEAN] \cup {Absent}

\* The current ACL survives being sent on: serializing it with the skip
\* rules and deserializing it with the default rules gives it back, for
\* every ACL a room can hold.
SerdeRoundTrip == Deserialize(Serialize(acl)) = acl
=============================================================================
