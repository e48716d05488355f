---------------------------- MODULE MC_IdHandles ----------------------------
(***************************************************************************)
(* Model-checking instances of IdHandles.  Texts are byte sequences over   *)
(* the bytes "!", "a" and ":".                                             *)
(***************************************************************************)
EXTENDS IdHandles, TLC

\* A RoomId-like grammar (spec 8): the sigil "!", a non-empty local part
\* without ":", the delimiter ":", and a non-empty server name.
MCValidate(s) ==
  /\ Len(s) >= 4
  /\ s[1] = "!"
  /\ \E i \in 3..(Len(s) - 1) : s[i] = ":" /\ \A j \in 2..(i - 1) : s[j] # ":"

\* Checked kind with an inline threshold of 4: one valid text of exactly
\* the threshold (inline), one valid text one byte longer (spilled), and a
\* text without the sigil.
CheckedInputs == {<<"!", "a", ":", "a">>, <<"!", "a", "a", ":", "a">>, <<"a", ":", "a">>}

\* Unchecked kind with an inline threshold of 2: texts at the threshold
\* and one byte past it.
UncheckedInputs == {<<"a", "a">>, <<"a", "a", "a">>}

MCSymmetry == Permutations(Slots)
=============================================================================
