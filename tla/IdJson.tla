------------------------------- MODULE IdJson -------------------------------
(***************************************************************************)
(* The JSON entry points of an identifier kind (expand_checked_impls,      *)
(* expand_unchecked_impls, expand_as_str_impls): Deserialize for Box<Id>,  *)
(* OwnedId and &Id, TryFrom<&str>, TryFrom for JSON values and optional    *)
(* JSON values, and Serialize.  The ownership of the results is IdHandles' *)
(* concern; here a result is the text of the id or an error.               *)
(*                                                                         *)
(* A JSON value is what the deserializer sees: a string token, with its    *)
(* text and whether its source spells some character with an escape       *)
(* (\", \\, \/, \u0061), another kind of value, or, for the Option      *)
(* impls, no value at all.  A text is a sequence of characters.            *)
(***************************************************************************)
EXTENDS Sequences

CONSTANTS
  Validate(_),  \* the kind's grammar validator, TRUE when it returns Ok
  EscapedChars  \* the characters serde_json must escape in a string token

JsonKinds == {"string", "null", "number", "object", "missing"}

Str(s, esc) == [kind |-> "string", text |-> s, escaped |-> esc]
Other(k) == [kind |-> k]

Ok(s) == [ok |-> s]
Err(e) == [error |-> e]
IsOk(r) == "ok" \in DOMAIN r

-----------------------------------------------------------------------------
(* The serde_json side, which the generated impls call.                    *)

\* String::deserialize: any string token, unescaped into a new String.
StringDe(v) ==
  IF v.kind = "string" THEN Ok(v.text) ELSE Err("invalid type")

\* <&'de str>::deserialize: the text must be borrowed from the input, which
\* serde_json can do only for a token without escapes; for one with escapes
\* it unescapes into a scratch buffer and the &str visitor refuses it.
BorrowedStrDe(v) ==
  CASE v.kind # "string" -> Err("invalid type")
    [] v.escaped         -> Err("expected a borrowed string")
    [] OTHER             -> Ok(v.text)

\* serialize_str of serde_json: a string token, with an escape exactly when
\* the text holds a character that must be escaped.
Serialize(s) ==
  Str(s, \E i \in DOMAIN s : s[i] \in EscapedChars)

-----------------------------------------------------------------------------
(* The generated impls.                                                    *)

\* match #validate(s) { Ok(_) => Ok(..), Err(e) => Err(D::Error::custom(e)) }
Validated(r) ==
  IF IsOk(r) /\ ~Validate(r.ok) THEN Err("invalid id") ELSE r

\* Deserialize for Box<Id> and for OwnedId: String::deserialize, then
\* parse_box / parse, which validate.
DeserializeOwning(v) == Validated(StringDe(v))

\* A plausible fault: the borrowed impl of an unchecked kind used for a
\* checked one, so the text is not validated.
DeserializeRefUnvalidated(v) == BorrowedStrDe(v)
\* Deserialize for &'de Id: <&'de str>::deserialize, validate, from_borrowed.
DeserializeRef(v) == Validated(BorrowedStrDe(v))

\* TryFrom<&str> for &Id: validate(s)?, then from_borrowed(s).
TryFromStr(s) == IF Validate(s) THEN Ok(s) ELSE Err("invalid id")

\* A plausible fault: v.to_string() for v.as_str(), which gives the JSON
\* text of the value, quotes included.
AsStrToString(v) ==
  IF v.kind = "string" THEN <<"\"">> \o v.text \o <<"\"">> ELSE <<"n">>
\* v.as_str().unwrap_or_default() and, for the Option impls,
\* v.and_then(|v| v.as_str()).unwrap_or_default(): the text of a string,
\* and "" for any other value or none.
AsStr(v) == IF v.kind = "string" THEN v.text ELSE <<>>

\* TryFrom<&Value>, <&CanonicalJsonValue>, <Option<&Value>> and
\* <Option<&CanonicalJsonValue>> for &Id: AsStr, then TryFrom<&str>.
TryFromValue(v) == TryFromStr(AsStr(v))

\* Deserialize for &'de Id of an unchecked kind: from_borrowed of the
\* borrowed &str, no validation.
DeserializeRefUnchecked(v) == BorrowedStrDe(v)

\* The checked entry points that take a JSON value.
CheckedEntries(v) == {DeserializeOwning(v), DeserializeRef(v), TryFromValue(v)}
=============================================================================
