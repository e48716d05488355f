------------------------ MODULE MC_UploadSigningKeys ------------------------
(***************************************************************************)
(* Every Request over a few values, and every body over the JSON values    *)
(* of the model: the state is the one under check.                         *)
(***************************************************************************)
EXTENDS UploadSigningKeys

VARIABLE input

\* A key field holds None or some JSON object kept raw.
KeyOptions == {NoneV} \cup {Some(o) : o \in OtherObjects}
Requests == [auth : {NoneV} \cup {Some(a) : a \in AuthObjects},
             master_key : KeyOptions, self_signing_key : KeyOptions,
             user_signing_key : KeyOptions]
\* Bodies: auth any JSON value or missing; a key field missing, null or an
\* object.
Bodies == [auth : Json \cup {Absent},
           master_key : {Absent, Null} \cup OtherObjects,
           self_signing_key : {Absent, Null} \cup OtherObjects,
           user_signing_key : {Absent, Null} \cup OtherObjects]

Init == input \in Requests \cup Bodies
Next == input' \in Requests \cup Bodies
Spec == Init /\ [][Next]_input

\* Every Request the client builds serializes to a body that the server
\* deserializes back to the same Request: or_empty must give back the
\* auth that Serialize wrote.
RequestRoundTrip ==
  input \in Requests => DeserializeRequest(SerializeRequest(input)) = input

\* or_empty exists so that a body whose auth is {} (as some clients send
\* before a UIAA session exists) is read as no auth instead of being
\* rejected; a missing or null auth is likewise None, whatever the other
\* fields hold.
EmptyAuthIsNone ==
  LET r == DeserializeRequest(input) IN
  input \in Bodies /\ input.auth \in {Absent, Null, EmptyObject}
    => r # Failed /\ r.auth = NoneV
=============================================================================
