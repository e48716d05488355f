----------------------------- MODULE IdDstMeta -----------------------------
(***************************************************************************)
(* The #[ruma_id(...)] attributes of an identifier type (ruma-macros,      *)
(* identifiers.rs): each attribute's arguments are parsed as a             *)
(* comma-punctuated list of IdDstMeta (Parse for IdDstMeta), every         *)
(* IdDstMeta of every attribute is folded into one with IdDstMeta::merge,  *)
(* and expand_id_dst reads the kind's configuration off the result: a      *)
(* validator makes the kind checked, and inline_bytes defaults to 32.      *)
(*                                                                         *)
(* An attribute's arguments are a sequence of tokens, each a string: the   *)
(* punctuation "=" and ",", identifiers (the keywords validate and         *)
(* inline_bytes are identifiers too, and any identifier parses as a Path)  *)
(* and integer literals, kept as their digits.                             *)
(***************************************************************************)
EXTENDS Naturals, Sequences, SequencesExt

CONSTANTS
  Idents,        \* identifier tokens, "validate" and "inline_bytes" included
  IntLits,       \* integer literal tokens
  LitValue       \* base10_digits().parse::<usize>() of the literals in range

ASSUME {"validate", "inline_bytes"} \subseteq Idents
ASSUME DOMAIN LitValue \subseteq IntLits

Tokens == Idents \cup IntLits \cup {"=", ","}

\* Option<T> and the three ways the macro can fail.
NoneV == [some |-> FALSE]
Some(v) == [some |-> TRUE, val |-> v]
ParseError == [error |-> "syn parse error"]
Duplicate == [error |-> "duplicate attribute argument"]
Panicked == [error |-> "panic: inline_bytes is an integer"]
IsError(x) == "error" \in DOMAIN x

\* IdDstMeta::default().
DefaultMeta == [validate |-> NoneV, inline_bytes |-> NoneV]

\* syn's Option<T> for a peekable token: consumes the next token when it
\* is one of ts, else nothing.
Skip(s, ts) == IF s # <<>> /\ s[1] \in ts THEN Tail(s) ELSE s

\* Parse for IdDstMeta: the keyword validate, "=", a Path, then an optional
\* ",", an optional inline_bytes keyword, an optional "=" and an optional
\* integer literal, parsed to a usize with expect.  The result is the meta
\* and the tokens left for the list parser, or an error.
ParseMeta(s) ==
  IF Len(s) < 3 \/ s[1] # "validate" \/ s[2] # "=" \/ s[3] \notin Idents
  THEN ParseError
  ELSE LET r == Skip(Skip(Skip(SubSeq(s, 4, Len(s)), {","}), {"inline_bytes"}), {"="})
           lit == r # <<>> /\ r[1] \in IntLits
       IN IF lit /\ r[1] \notin DOMAIN LitValue THEN Panicked
          ELSE [meta |-> [validate |-> Some(s[3]),
                          inline_bytes |-> IF lit THEN Some(LitValue[r[1]]) ELSE NoneV],
                rest |-> IF lit THEN Tail(r) ELSE r]

\* Punctuated::<IdDstMeta, Token![,]>::parse_terminated: metas separated
\* by ",", with an optional trailing ","; an empty list is accepted.
RECURSIVE ParseTerminated(_)
ParseTerminated(s) ==
  IF s = <<>> THEN [metas |-> <<>>]
  ELSE LET m == ParseMeta(s)
       IN IF IsError(m) THEN m
          ELSE IF m.rest = <<>> THEN [metas |-> <<m.meta>>]
          ELSE IF m.rest[1] # "," THEN ParseError
          ELSE LET t == ParseTerminated(Tail(m.rest))
               IN IF IsError(t) THEN t ELSE [metas |-> <<m.meta>> \o t.metas]

\* Plausible fault: merge without the duplicate check, the later value
\* winning.
MergeArgLastWins(a, b) == IF b.some THEN b ELSE a
\* One argument of merge: the value of whichever side has one; both
\* having one is an error.
MergeArg(a, b) ==
  IF a.some /\ b.some THEN Duplicate ELSE IF a.some THEN a ELSE b

\* IdDstMeta::merge: validate is merged first, then inline_bytes.
Merge(self, other) ==
  LET v == MergeArg(self.validate, other.validate)
      i == MergeArg(self.inline_bytes, other.inline_bytes)
  IN IF IsError(v) THEN v ELSE IF IsError(i) THEN i
     ELSE [validate |-> v, inline_bytes |-> i]

\* try_fold of merge over a list of metas, stopping at the first error.
MergeAll(acc, metas) ==
  FoldLeft(LAMBDA a, m : IF IsError(a) THEN a ELSE Merge(a, m), acc, metas)

\* expand_id_dst's try_fold over the ruma_id attributes, in order: each
\* attribute's list is parsed, then merged into what came before.
ExpandMeta(attrs) ==
  FoldLeft(LAMBDA acc, attr :
             IF IsError(acc) THEN acc
             ELSE LET l == ParseTerminated(attr)
                  IN IF IsError(l) THEN l ELSE MergeAll(acc, l.metas),
           DefaultMeta, attrs)

\* The kind expand_id_dst generates: its validator (Some: checked, with
\* expand_checked_impls; None: expand_unchecked_impls) and its inline
\* capacity, INLINE_BYTES = 32 unless inline_bytes was given.
KindConfig(attrs) ==
  LET m == ExpandMeta(attrs)
  IN IF IsError(m) THEN m
     ELSE [validate |-> m.validate,
           inline_bytes |-> IF m.inline_bytes.some THEN m.inline_bytes.val ELSE 32]

=============================================================================
