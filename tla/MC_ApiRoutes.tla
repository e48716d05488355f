---------------------------- MODULE MC_ApiRoutes ----------------------------
(***************************************************************************)
(* Model-checking instance of ApiRoutes.                                   *)
(***************************************************************************)
EXTENDS ApiRoutes

\* The RoomId and EventId grammars: the sigil, a non-empty opaque local
\* part (which may hold "/"), and for room ids the delimiter ":" and a
\* non-empty server name.  Event ids of room versions 3 and later have no
\* server name.
MCValidRoomId(s) ==
  /\ Len(s) >= 4
  /\ s[1] = "!"
  /\ \E i \in 3..(Len(s) - 1) : s[i] = ":" /\ \A j \in 2..(i - 1) : s[j] # ":"
MCValidEventId(s) == Len(s) >= 2 /\ s[1] = "$"

\* A plain room id and one whose local part holds "/".
MCRoomIds == {<<"!", "a", ":", "b">>, <<"!", "/", ":", "b">>}
\* A plain event id and one holding "/" (base64 event ids do).
MCEventIds == {<<"$", "e">>, <<"$", "/">>}
\* A plain event type and one holding "%".
MCEventTypes == {<<"t">>, <<"t", "%">>}
\* The empty state key, a plain one, one ending in "/", one holding "?"
\* (which would end the path if it were not escaped) and one that reads
\* like an escape ("%2F"), which must not be decoded twice.
MCStateKeys == {<<>>, <<"k">>, <<"k", "/">>, <<"k", "?">>, <<"%", "2", "F">>}
\* A limit of zero and one of two digits.
MCLimits == {0, 10}
\* No stable version (the request cannot be built), r0 only, v3 only
\* (where the federation endpoint's 1.0 path still applies), r0 and v3.
MCVersionSets == {{}, {"1.0"}, {"1.1"}, {"1.0", "1.1"}}
=============================================================================
