---------------------------- MODULE MC_IdDstMeta ----------------------------
(***************************************************************************)
(* Checks the ruma_id attribute parser and merge of IdDstMeta against a    *)
(* reference: the argument lists a single attribute may hold, written as a *)
(* set of token texts with the metas they stand for.  The input is a list  *)
(* of ruma_id attributes: every single attribute of at most MaxTokens      *)
(* tokens, built one token at a time, and lists of up to two attributes    *)
(* drawn from AttrSamples.                                                 *)
(***************************************************************************)
EXTENDS IdDstMeta, FiniteSets

CONSTANTS MaxTokens, AttrSamples

VARIABLE input

MCIdents == {"validate", "inline_bytes", "f"}
\* "8" and a literal beyond usize::MAX.
MCIntLits == {"8", "99999999999999999999"}
MCLitValue == [l \in {"8"} |-> 8]
\* Attributes longer than MaxTokens: the full form, an out-of-range literal,
\* two metas in one attribute (with the doubled comma the parser needs,
\* after a full meta, and with a single comma), and inline_bytes alone.
MCAttrSamples ==
  {<<"validate", "=", "f">>,
   <<"validate", "=", "f", ",", "inline_bytes", "=", "8">>,
   <<"inline_bytes", "=", "8">>,
   <<"validate", "=", "f", ",", "inline_bytes", "=", "99999999999999999999">>,
   <<"validate", "=", "f", ",", ",", "validate", "=", "f">>,
   <<"validate", "=", "f", ",", "inline_bytes", "=", "8", ",", "validate", "=", "f">>,
   <<"validate", "=", "f", ",", "validate", "=", "f">>}

\* The meta texts of Parse for IdDstMeta, and the meta each stands for.
RefMetas ==
  {[text |-> <<"validate", "=", p>> \o c \o k \o e \o i,
    meta |-> [validate |-> Some(p),
              inline_bytes |-> IF i = <<>> THEN NoneV ELSE Some(LitValue[i[1]])]] :
     p \in Idents, c \in {<<>>, <<",">>}, k \in {<<>>, <<"inline_bytes">>},
     e \in {<<>>, <<"=">>}, i \in {<<>>} \cup {<<l>> : l \in DOMAIN LitValue}}

\* Attribute texts of at most two metas, with an optional trailing ",".  A
\* meta that ends at its path takes the "," after it as its own optional
\* comma, so a second meta can only follow a meta with more than 3 tokens.
RefLists ==
  {[text |-> <<>>, metas |-> <<>>]}
  \cup {[text |-> m.text \o t, metas |-> <<m.meta>>] : m \in RefMetas, t \in {<<>>, <<",">>}}
  \cup {[text |-> m.text \o <<",">> \o n.text \o t, metas |-> <<m.meta, n.meta>>] :
          m \in {x \in RefMetas : Len(x.text) > 3}, n \in RefMetas, t \in {<<>>, <<",">>}}

RefFun == [t \in {x.text : x \in RefLists} |-> (CHOOSE x \in RefLists : x.text = t).metas]

SampleLists == {<<>>} \cup {<<a>> : a \in AttrSamples} \cup (AttrSamples \X AttrSamples)

Init == input \in {<<<<>>>>} \cup SampleLists

\* The next token of a single attribute.
AddToken ==
  /\ Len(input) = 1 /\ Len(input[1]) < MaxTokens
  /\ \E t \in Tokens : input' = <<Append(input[1], t)>>

Next == AddToken

Spec == Init /\ [][Next]_input

-----------------------------------------------------------------------------

\* The ruma_id attributes of a type, in any number and order, configure the
\* kind exactly as written: expansion succeeds exactly when every attribute
\* parses and neither argument is given twice across all of them, and then
\* the kind has the validator given (or none) and the inline_bytes given
\* (or 32).  An attribute the reference does not accept fails it.
ExpandHonoursArguments ==
  LET r == KindConfig(input)
      ok == \A i \in DOMAIN input : input[i] \in DOMAIN RefFun
  IN IF ~ok THEN IsError(r)
     ELSE
       LET all == FlattenSeq([i \in DOMAIN input |-> RefFun[input[i]]])
           given(f) == {j \in DOMAIN all : all[j][f].some}
           pick(f) == all[CHOOSE j \in given(f) : TRUE][f]
       IN /\ ~IsError(r) <=> Cardinality(given("validate")) <= 1
                             /\ Cardinality(given("inline_bytes")) <= 1
          /\ ~IsError(r) =>
               r = [validate |-> IF given("validate") = {} THEN NoneV ELSE pick("validate"),
                    inline_bytes |-> IF given("inline_bytes") = {} THEN 32
                                     ELSE pick("inline_bytes").val]
\* Every kind the spec describes can be declared: a kind has a validator
\* or none, and an inline capacity that defaults to 32 and can be
\* overridden per kind (spec, sections 3 and 4.6).  So the single attribute
\* #[ruma_id(inline_bytes = N)] declares an unchecked kind of capacity N.
UncheckedInlineBytes ==
  \A l \in DOMAIN LitValue :
    input = <<<<"inline_bytes", "=", l>>>> =>
      KindConfig(input) = [validate |-> NoneV, inline_bytes |-> LitValue[l]]

=============================================================================
