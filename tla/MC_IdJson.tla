------------------------------ MODULE MC_IdJson ------------------------------
(***************************************************************************)
(* Checks the JSON entry points of a checked kind whose validator is       *)
(* RoomId-like ("!", a local part without ":", ":", a non-empty server)    *)
(* and of an unchecked kind.  The input is one JSON value: null, a number, *)
(* an object, no value, or a string token built one character at a time   *)
(* up to MaxLen characters, each of which its producer may write escaped.  *)
(***************************************************************************)
EXTENDS IdJson, Naturals

CONSTANTS Chars, MaxLen

VARIABLE input

\* The characters of the string tokens: the quote, which serde_json must
\* escape, and three it need not.
MCQuote == "\""
MCChars == {"!", ":", "a", MCQuote}
MCEscaped == {MCQuote}

\* The validator of the checked kind (as in MC_IdHandles).
MCValidate(s) ==
  /\ Len(s) >= 4
  /\ s[1] = "!"
  /\ \E i \in 3..(Len(s) - 1) : s[i] = ":" /\ \A j \in 2..(i - 1) : s[j] # ":"

Init == input \in {Str(<<>>, FALSE)} \cup {Other(k) : k \in JsonKinds \ {"string"}}

\* The next character of a string token; a character serde_json must escape
\* is always written escaped, any other one may be (\/ or \uXXXX).
AddChar ==
  /\ input.kind = "string" /\ Len(input.text) < MaxLen
  /\ \E c \in Chars :
       \E esc \in {input.escaped \/ c \in EscapedChars, TRUE} :
         input' = Str(Append(input.text, c), esc)

Next == AddChar

Spec == Init /\ [][Next]_input

-----------------------------------------------------------------------------

\* Whatever JSON value a checked entry point (Deserialize for OwnedId, Box
\* or &Id, TryFrom<&Value> and the Option / CanonicalJsonValue variants) is
\* given, an id comes out only of a string token, with exactly its text,
\* and only when the validator accepts that text; the unchecked &Id
\* Deserialize also takes only a string token, as it is.  as_str()
\* .unwrap_or_default() turns null, a number, an object or no value into ""
\* and relies on the validator to refuse it.
OnlyValidStringsBecomeIds ==
  /\ \A r \in CheckedEntries(input) :
       IsOk(r) => input.kind = "string" /\ r.ok = input.text /\ Validate(input.text)
  /\ IsOk(DeserializeRefUnchecked(input)) =>
       input.kind = "string" /\ DeserializeRefUnchecked(input).ok = input.text

\* The checked entry points are interchangeable on a string token written
\* without escapes: Deserialize for OwnedId / Box, Deserialize for &Id and
\* TryFrom<&Value> all give the result TryFrom<&str> gives for its text.
EntryPointsAgree ==
  (input.kind = "string" /\ ~input.escaped) =>
    CheckedEntries(input) = {TryFromStr(input.text)}

\* An id serializes to a JSON string that every Deserialize impl of its
\* kind reads back as the same id: Serialize writes as_str(), and the
\* spec (section 6) says deserialization of a checked kind fails only when
\* the validator does.
SerializedIdsDeserialize ==
  \A r \in CheckedEntries(input) :
    IsOk(r) =>
      /\ DeserializeOwning(Serialize(r.ok)) = r
      /\ DeserializeRef(Serialize(r.ok)) = r
=============================================================================
