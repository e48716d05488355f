------------------------------ MODULE WildMatch ------------------------------
(***************************************************************************)
(* The wildcard rule of m.room.server_acl patterns, which                  *)
(* RoomServerAclEventContent::matches evaluates with WildMatch: "*"       *)
(* matches zero or more characters and "?" exactly one; every other       *)
(* character matches itself.  The wildmatch crate is outside this         *)
(* repository; Glob states its documented rule recursively.                *)
(***************************************************************************)
EXTENDS Naturals, Sequences

\* WildMatch::new(p).matches(s): "*" either matches nothing or eats one
\* more character; "?" eats exactly one; a literal eats itself.
RECURSIVE Glob(_, _)
Glob(p, s) ==
  IF p = <<>> THEN s = <<>>
  ELSE IF Head(p) = "*" THEN Glob(Tail(p), s) \/ (s # <<>> /\ Glob(p, Tail(s)))
  ELSE s # <<>> /\ Head(p) \in {"?", Head(s)} /\ Glob(Tail(p), Tail(s))

=============================================================================
