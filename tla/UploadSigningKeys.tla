-------------------------- MODULE UploadSigningKeys --------------------------
(***************************************************************************)
(* The JSON body of POST /_matrix/client/v3/keys/device_signing/upload     *)
(* (ruma-client-api, keys/upload_signing_keys.rs): serde's derived         *)
(* Serialize and Deserialize of Request, with or_empty on the auth field.  *)
(*                                                                         *)
(* A JSON value is a model value of one of the sets below; a body is a     *)
(* record of its four fields, where Absent stands for a missing field.     *)
(***************************************************************************)
EXTENDS Naturals

CONSTANTS
  AuthObjects,   \* JSON objects that AuthData's Deserialize accepts
  OtherObjects,  \* JSON objects that it rejects
  EmptyObject,   \* the object {}, one of OtherObjects
  Scalars,       \* JSON strings, numbers and booleans
  Null,          \* JSON null
  Absent         \* a field missing from the body

ASSUME EmptyObject \in OtherObjects

Objects == AuthObjects \cup OtherObjects
Json == Objects \cup Scalars \cup {Null}

\* Option<T> and Result<_, serde Error>.
NoneV == [some |-> FALSE]
Some(v) == [some |-> TRUE, val |-> v]
Failed == [error |-> "invalid type"]

\* AuthData's Deserialize (crate::uiaa, outside this slice).
AuthDataAccepts(v) == v \in AuthObjects

\* Plausible fault: the untagged enum's variants in the other order, so
\* Empty {} (which ignores unknown fields) is tried first.
OrEmptyEmptyFirst(v) ==
  IF v = Null THEN NoneV
  ELSE IF v \in Objects THEN NoneV
  ELSE Failed
\* Plausible fault: a plain Option<T> without the Empty {} variant.
OrEmptyNoEmptyVariant(v) ==
  IF v = Null THEN NoneV
  ELSE IF AuthDataAccepts(v) THEN Some(v)
  ELSE Failed
\* or_empty: Option<OrEmpty<T>>; null is None, then the untagged variants
\* in order: NotEmpty(T) when T accepts the value, else Empty {}, which
\* accepts any object; Some(NotEmpty(a)) becomes Some(a), the rest None.
OrEmpty(v) ==
  IF v = Null THEN NoneV
  ELSE IF AuthDataAccepts(v) THEN Some(v)
  ELSE IF v \in Objects THEN NoneV
  ELSE Failed

\* Option<Raw<CrossSigningKey>>: null is None, any other value is kept raw.
RawOption(v) == IF v = Null THEN NoneV ELSE Some(v)

\* A field of the derived Deserialize: auth is #[serde(default)] with
\* deserialize_with = "or_empty"; the key fields are Options, which serde
\* takes as None when missing.
DeserializeField(name, v) ==
  IF v = Absent THEN NoneV
  ELSE IF name = "auth" THEN OrEmpty(v)
  ELSE RawOption(v)

Fields == {"auth", "master_key", "self_signing_key", "user_signing_key"}

\* Request's derived Deserialize: the first field that fails fails it.
DeserializeRequest(j) ==
  IF \E f \in Fields : DeserializeField(f, j[f]) = Failed THEN Failed
  ELSE [f \in Fields |-> DeserializeField(f, j[f])]

\* Request's derived Serialize: every field is skip_serializing_if
\* Option::is_none; Some(a) writes a.
SerializeRequest(r) == [f \in Fields |-> IF r[f].some THEN r[f].val ELSE Absent]

=============================================================================
