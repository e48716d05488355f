------------------------------ MODULE IdHandles ------------------------------
(***************************************************************************)
(* The ownership forms that expand_id_dst (ruma-macros, identifiers.rs)    *)
(* generates for one identifier kind Id:                                   *)
(*   Owned  OwnedId, a SmallVec<[u8; InlineBytes]> (inline or spilled),    *)
(*   Box    Box<Id>,   Rc  Rc<Id>,   Arc  Arc<Id>,                         *)
(*   Str    a String or Box<str> handed to or returned by a conversion.    *)
(* Every generated constructor and conversion is one action.  The heap is  *)
(* a sequence of allocations that is only appended to, so an allocation   *)
(* that was freed stays visible and a pointer into it is a dangling        *)
(* pointer rather than a pointer into some later value.                    *)
(*                                                                         *)
(* A slot holds one value owned by the caller.  A handle records its form, *)
(* the allocation it points to (0 for inline Owned storage), its inline    *)
(* bytes, the length of its fat pointer, and, as a history variable, the   *)
(* caller text it was first built from (origin).                           *)
(***************************************************************************)
EXTENDS Naturals, Sequences, FiniteSets

CONSTANTS
  Checked,      \* TRUE for a kind declared with #[ruma_id(validate = ...)]
  InlineBytes,  \* the kind's inline_bytes (INLINE_BYTES = 32 by default)
  Inputs,       \* caller texts, as byte sequences, given to the entry points
  MaxStrCap,    \* largest capacity of a String the caller builds
  Slots,        \* places where the caller keeps a value
  MaxAllocs,    \* bound on the heap allocations of one behaviour
  Validate(_)   \* the kind's grammar validator

ASSUME Checked \in BOOLEAN /\ InlineBytes \in Nat /\ MaxAllocs \in Nat
ASSUME \A s \in Inputs : Len(s) <= MaxStrCap

VARIABLES heap, hold
vars == <<heap, hold>>

IdForms == {"Owned", "Box", "Rc", "Arc"}
Forms == IdForms \cup {"Str", "none"}
\* The allocation kind that a pointer of each form must point into.
AllocOf == [Owned |-> "buf", Box |-> "buf", Str |-> "buf", Rc |-> "rc", Arc |-> "arc"]

Empty == [form |-> "none", ptr |-> 0, inl |-> <<>>, len |-> 0, origin |-> <<>>]
Handle(f, p, inl, n, o) == [form |-> f, ptr |-> p, inl |-> inl, len |-> n, origin |-> o]

\* A byte read from memory that no longer holds the text.
Junk == "#"
Read(bytes, n) == [i \in 1..n |-> IF i <= Len(bytes) THEN bytes[i] ELSE Junk]

\* as_str() of a handle (Deref / AsRef<str>): the inline bytes, or the
\* first len bytes of the allocation it points to.
ViewIn(hp, h) ==
  IF h.ptr = 0 THEN h.inl
  ELSE Read(IF hp[h.ptr].live THEN hp[h.ptr].bytes ELSE <<>>, h.len)
View(h) == ViewIn(heap, h)

-----------------------------------------------------------------------------
(* The heap.  strong is the Rc/Arc strong count; a unique buffer           *)
(* (Box<str>, Vec<u8>, String, spilled SmallVec) has strong = 1.           *)

NewAlloc(kind, bytes, cap) ==
  [kind |-> kind, live |-> TRUE, bytes |-> bytes, cap |-> cap, strong |-> 1, frees |-> 0]

Free(hp, a) == [hp EXCEPT ![a].live = FALSE, ![a].bytes = <<>>, ![a].frees = @ + 1]

\* Drop glue of a value pointing to allocation a: a unique buffer is freed,
\* a shared one loses one strong count and is freed when none is left.
\* Dropping a pointer into freed memory frees it again.
Release(hp, a) ==
  IF a = 0 THEN hp
  ELSE IF hp[a].strong <= 1 THEN Free([hp EXCEPT ![a].strong = 0], a)
  ELSE [hp EXCEPT ![a].strong = @ - 1]

Pow2s(n) == {2^k : k \in 0..n}
NextPow2(n) == CHOOSE p \in Pow2s(n) : p >= n /\ \A q \in Pow2s(n) : q >= n => p <= q

(* Results of the helpers below are records [h, hp]: the new handle and    *)
(* the heap after it was built.                                            *)

\* SmallVec::from(&[u8]) (the .into() of to_owned and of From<Arc<Id>>):
\* inline when the slice fits, else a buffer grown to the next power of two.
FromSlice(hp, bytes, o) ==
  IF Len(bytes) <= InlineBytes
  THEN [h |-> Handle("Owned", 0, bytes, Len(bytes), o), hp |-> hp]
  ELSE [h |-> Handle("Owned", Len(hp) + 1, <<>>, Len(bytes), o),
        hp |-> Append(hp, NewAlloc("buf", bytes, NextPow2(Len(bytes))))]

\* SmallVec::from_vec(v) for the Vec in allocation a holding n bytes: the
\* mode is chosen by the Vec's capacity; an inline copy frees the Vec.
FromVec(hp, a, n, o) ==
  IF hp[a].cap <= InlineBytes
  THEN [h |-> Handle("Owned", 0, Read(IF hp[a].live THEN hp[a].bytes ELSE <<>>, n), n, o),
        hp |-> Release(hp, a)]
  ELSE [h |-> Handle("Owned", a, <<>>, n, o), hp |-> hp]

\* Box<str>::from(&str) followed by Id::from_box: a buffer of exact size.
BoxOf(hp, bytes, o) ==
  [h |-> Handle("Box", Len(hp) + 1, <<>>, Len(bytes), o),
   hp |-> Append(hp, NewAlloc("buf", bytes, Len(bytes)))]

\* Plausible faults of from_rc / from_arc: Rc::as_ptr in place of
\* Rc::into_raw, so that the source Rc<str> is dropped as well.
FromSharedNoForget(hp, a) == Release(hp, a)
\* Id::from_rc / from_arc: into_raw then from_raw, so the strong count
\* moves with the pointer and is neither incremented nor decremented.
FromShared(hp, a) == hp

\* Rc<str>::from / Arc<str>::from(&str), then from_rc / from_arc.
SharedOf(hp, f, bytes, o) ==
  LET a == Len(hp) + 1
      kind == IF f = "Rc" THEN "rc" ELSE "arc"
  IN [h |-> Handle(f, a, <<>>, Len(bytes), o),
      hp |-> FromShared(Append(hp, NewAlloc(kind, bytes, Len(bytes))), a)]

\* Plausible faults of into_owned: Vec::from_raw_parts(p, len, len + 1)
\* (a capacity one too large), Vec::from_raw_parts(p, len - 1, len) (a
\* length one too short), and &*self in place of Box::into_raw(self), so
\* that the Box is still dropped at the end of the function.
IntoOwnedCapPlusOne(hp, h) == FromVec([hp EXCEPT ![h.ptr].cap = h.len + 1], h.ptr, h.len, h.origin)
IntoOwnedShort(hp, h) == FromVec([hp EXCEPT ![h.ptr].cap = h.len], h.ptr, h.len - 1, h.origin)
IntoOwnedNoForget(hp, h) == FromVec(Release(hp, h.ptr), h.ptr, h.len, h.origin)
\* Id::into_owned: the Box<Id>'s allocation becomes a Vec<u8> with
\* length = capacity = len and is handed to SmallVec::from_vec.
IntoOwned(hp, h) == FromVec([hp EXCEPT ![h.ptr].cap = h.len], h.ptr, h.len, h.origin)

-----------------------------------------------------------------------------
(* Actions.  t is the slot that receives a new value, u the slot of the    *)
(* value a conversion reads (by reference) or consumes (by value).         *)

Vacant(t) == hold[t].form = "none"

\* Store result r into slot t, within the allocation bound.
Commit(r, t) ==
  /\ Len(r.hp) <= MaxAllocs
  /\ heap' = r.hp
  /\ hold' = [hold EXCEPT ![t] = r.h]

(* Entry points of a checked kind (expand_checked_impls).  Each runs the   *)
(* validator first; an Err leaves no handle.  The Deserialize, FromStr and *)
(* TryFrom<&str> impls call the same functions.                            *)

\* Id::parse: validate, then from_borrowed(s).to_owned().
Parse(s, t) ==
  /\ Checked /\ Validate(s) /\ Vacant(t)
  /\ Commit(FromSlice(heap, s, s), t)

\* Id::parse_box: validate, then from_box(s.into()).
ParseBox(s, t) ==
  /\ Checked /\ Validate(s) /\ Vacant(t)
  /\ Commit(BoxOf(heap, s, s), t)

\* Plausible fault of parse_rc / parse_arc: the #validate(...)? line lost.
ParseSharedUnvalidated(s, f, t) ==
  /\ Checked /\ Vacant(t)
  /\ Commit(SharedOf(heap, f, s, s), t)
\* Id::parse_rc / parse_arc: validate, then from_rc / from_arc(s.into()).
ParseShared(s, f, t) ==
  /\ Checked /\ Validate(s) /\ Vacant(t)
  /\ Commit(SharedOf(heap, f, s, s), t)

\* TryFrom<String> for OwnedId and Box<Id>, parse_rc / parse_arc given a
\* String: the String is moved in and is dropped when validation fails.
\* Owned: parse copies the text, then drops the String.  Box: the String
\* is shrunk by into_boxed_str and becomes the Box.  Rc / Arc: the text is
\* copied into a new shared allocation and the String dropped.
TryFromString(u, f) ==
  LET h == hold[u]
      txt == View(h)
      copy == CASE f = "Owned" -> FromSlice(heap, txt, h.origin)
                [] f = "Box"   -> [h |-> [h EXCEPT !.form = "Box"],
                                   hp |-> [heap EXCEPT ![h.ptr].cap = h.len]]
                [] OTHER       -> SharedOf(heap, f, txt, h.origin)
  IN /\ Checked /\ h.form = "Str"
     /\ \/ /\ ~Validate(txt)
           /\ heap' = Release(heap, h.ptr)
           /\ hold' = [hold EXCEPT ![u] = Empty]
        \/ /\ Validate(txt)
           /\ IF f = "Box" THEN Commit(copy, u)
              ELSE Commit([copy EXCEPT !.hp = Release(@, h.ptr)], u)

(* Entry points of an unchecked kind (expand_unchecked_impls): no grammar  *)
(* check, the text is taken as it is.                                       *)

\* From<&str> for OwnedId (via From<&Id>) and for Box<Id> (via
\* s.to_owned().into_boxed_str()).
FromStr(s, f, t) ==
  /\ ~Checked /\ Vacant(t)
  /\ Commit(IF f = "Owned" THEN FromSlice(heap, s, s) ELSE BoxOf(heap, s, s), t)

\* From<String> / From<Box<str>> for OwnedId: Self::new(s.into_bytes().into()),
\* i.e. SmallVec::from_vec of the String's own buffer.  From<String> /
\* From<Box<str>> for Box<Id>: into_boxed_str, then from_box.
FromString(u, f) ==
  LET h == hold[u] IN
  /\ ~Checked /\ h.form = "Str"
  /\ Commit(IF f = "Owned" THEN FromVec(heap, h.ptr, h.len, h.origin)
            ELSE [h |-> [h EXCEPT !.form = "Box"], hp |-> [heap EXCEPT ![h.ptr].cap = h.len]], u)

\* Deserialize for OwnedId of an unchecked kind: Box<str>::deserialize,
\* from_box, then From<Box<Id>> (into_owned).
DeserializeOwned(s, t) ==
  LET b == BoxOf(heap, s, s) IN
  /\ ~Checked /\ Vacant(t)
  /\ Commit(IntoOwned(b.hp, b.h), t)

\* From<Box<Id>> for Box<str>: Id::into_box, a cast of the same pointer.
BoxIntoStr(u) ==
  /\ ~Checked /\ hold[u].form = "Box"
  /\ hold' = [hold EXCEPT ![u].form = "Str"]
  /\ UNCHANGED heap

(* Conversions generated for every kind.  A conversion by reference reads  *)
(* the source through as_str() and leaves it in place.                     *)

\* ToOwned for Id: Self::Owned::new(self.as_bytes().into()); From<&Id> for
\* OwnedId is the same code.
ToOwned(u, t) ==
  /\ hold[u].form \in IdForms /\ Vacant(t)
  /\ Commit(FromSlice(heap, View(hold[u]), hold[u].origin), t)

\* Clone for OwnedId: Self::new(self.inner.clone()).
OwnedClone(u, t) == hold[u].form = "Owned" /\ ToOwned(u, t)

\* From<&Id> for Box<Id>: from_box(id.as_str().into()); Clone for Box<Id>
\* is (**self).into(), the same code.
BoxFromRef(u, t) ==
  /\ hold[u].form \in IdForms /\ Vacant(t)
  /\ Commit(BoxOf(heap, View(hold[u]), hold[u].origin), t)

\* From<&Id> for Rc<Id> / Arc<Id>: Rc<str>::from(s.as_str()), then from_rc.
SharedFromRef(u, f, t) ==
  /\ hold[u].form \in IdForms /\ Vacant(t)
  /\ Commit(SharedOf(heap, f, View(hold[u]), hold[u].origin), t)

\* From<&Id> for String: id.as_str().to_owned().
StringFromRef(u, t) ==
  LET txt == View(hold[u]) IN
  /\ hold[u].form \in IdForms /\ Vacant(t)
  /\ Commit([h |-> Handle("Str", Len(heap) + 1, <<>>, Len(txt), hold[u].origin),
             hp |-> Append(heap, NewAlloc("buf", txt, Len(txt)))], t)

(* Conversions by value: the source value is moved into the function.      *)

\* From<Box<Id>> for OwnedId: Self::new(Id::into_owned(b)).
OwnedFromBox(u) ==
  /\ hold[u].form = "Box"
  /\ Commit(IntoOwned(heap, hold[u]), u)

\* From<Arc<Id>> for OwnedId: Self::new(a.as_bytes().into()), then the Arc
\* is dropped at the end of the function.
OwnedFromArc(u) ==
  LET h == hold[u]
      r == FromSlice(heap, View(h), h.origin)
  IN /\ h.form = "Arc"
     /\ Commit([r EXCEPT !.hp = Release(@, h.ptr)], u)

\* From<OwnedId> for Box<Id> / Arc<Id>: Box::from / Arc::from of
\* from_borrowed(a.as_str()), a copy; the OwnedId is dropped at the end.
OwnedIntoCopy(u, f) ==
  LET h == hold[u]
      r == IF f = "Box" THEN BoxOf(heap, View(h), h.origin)
           ELSE SharedOf(heap, "Arc", View(h), h.origin)
  IN /\ h.form = "Owned"
     /\ Commit([r EXCEPT !.hp = Release(@, h.ptr)], u)

\* From<OwnedId> for String: String::from_utf8_unchecked(id.inner.into_vec()).
\* A spilled SmallVec hands over its buffer; an inline one is collected
\* into a new Vec of exact capacity.
StringFromOwned(u) ==
  LET h == hold[u] IN
  /\ h.form = "Owned"
  /\ Commit(IF h.ptr # 0 THEN [h |-> [h EXCEPT !.form = "Str"], hp |-> heap]
            ELSE [h |-> Handle("Str", Len(heap) + 1, <<>>, h.len, h.origin),
                  hp |-> Append(heap, NewAlloc("buf", h.inl, h.len))], u)

\* From<Box<Id>> for String: String::from(Id::into_box(id)), same buffer.
StringFromBox(u) ==
  /\ hold[u].form = "Box"
  /\ hold' = [hold EXCEPT ![u].form = "Str"]
  /\ UNCHANGED heap

(* The caller and the standard library.                                    *)

\* The caller builds a String of some capacity holding s.
MakeString(s, cap, t) ==
  /\ Vacant(t)
  /\ Commit([h |-> Handle("Str", Len(heap) + 1, <<>>, Len(s), s),
             hp |-> Append(heap, NewAlloc("buf", s, cap))], t)

\* Rc::clone / Arc::clone: one more strong count.
CloneShared(u, t) ==
  /\ hold[u].form \in {"Rc", "Arc"} /\ Vacant(t)
  /\ heap' = [heap EXCEPT ![hold[u].ptr].strong = @ + 1]
  /\ hold' = [hold EXCEPT ![t] = hold[u]]

\* The value in slot u goes out of scope.
Drop(u) ==
  /\ hold[u].form # "none"
  /\ heap' = Release(heap, hold[u].ptr)
  /\ hold' = [hold EXCEPT ![u] = Empty]

-----------------------------------------------------------------------------
Init ==
  /\ heap = <<>>
  /\ hold = [s \in Slots |-> Empty]

Next ==
  \/ \E s \in Inputs, t \in Slots :
       \/ Parse(s, t) \/ ParseBox(s, t) \/ DeserializeOwned(s, t)
       \/ \E f \in {"Rc", "Arc"} : ParseShared(s, f, t)
       \/ \E f \in {"Owned", "Box"} : FromStr(s, f, t)
       \/ \E cap \in {Len(s), MaxStrCap} : MakeString(s, cap, t)
  \/ \E u \in Slots :
       \/ \E f \in {"Owned", "Box", "Rc", "Arc"} : TryFromString(u, f)
       \/ \E f \in {"Owned", "Box"} : FromString(u, f)
       \/ \E f \in {"Box", "Arc"} : OwnedIntoCopy(u, f)
       \/ BoxIntoStr(u) \/ OwnedFromBox(u) \/ OwnedFromArc(u)
       \/ StringFromOwned(u) \/ StringFromBox(u) \/ Drop(u)
       \/ \E t \in Slots \ {u} :
            \/ ToOwned(u, t) \/ OwnedClone(u, t) \/ BoxFromRef(u, t)
            \/ StringFromRef(u, t) \/ CloneShared(u, t)
            \/ \E f \in {"Rc", "Arc"} : SharedFromRef(u, f, t)

Spec == Init /\ [][Next]_vars

-----------------------------------------------------------------------------
(* Properties.                                                             *)

\* Every byte a value can hold, including bytes read from freed memory.
Bytes == UNION {{s[i] : i \in DOMAIN s} : s \in Inputs} \cup {Junk}

TypeOK ==
  /\ heap \in Seq([kind : {"buf", "rc", "arc"}, live : BOOLEAN, bytes : Seq(Bytes),
                   cap : Nat, strong : Nat, frees : Nat])
  /\ Len(heap) <= MaxAllocs
  /\ hold \in [Slots -> [form : Forms, ptr : 0..Len(heap), inl : Seq(Bytes),
                         len : Nat, origin : Inputs \cup {<<>>}]]

Holders(a) == {s \in Slots : hold[s].ptr = a}

\* Memory safety of the unsafe casts in from_box, from_rc, from_arc,
\* into_owned and into_box and of the conversions built on them: no value
\* points into freed memory or into an allocation of the wrong kind (an
\* Rc<Id> is never backed by an Arc's count, nor a Box by either), every
\* live allocation has exactly as many holders as its strong count (a
\* unique buffer exactly one: no double ownership, no leak), and nothing
\* is freed twice.
MemorySafe ==
  /\ \A s \in Slots : hold[s].ptr # 0 =>
        /\ heap[hold[s].ptr].live
        /\ heap[hold[s].ptr].kind = AllocOf[hold[s].form]
  /\ \A a \in DOMAIN heap :
        /\ heap[a].frees <= 1
        /\ heap[a].live => heap[a].strong = Cardinality(Holders(a))

\* Content preservation (spec invariant 2): whatever chain of conversions
\* produced a value, as_str() of it is exactly the caller text it was
\* first built from, with no truncation and no bytes of freed memory.
ContentPreserved ==
  \A s \in Slots : hold[s].form # "none" => View(hold[s]) = hold[s].origin

\* Content validity (spec invariant 1): no identifier value of a checked
\* kind, in any ownership form, holds a text its validator rejects.
ValidIds ==
  \A s \in Slots : hold[s].form \in IdForms => Validate(View(hold[s]))

\* Storage selection (spec 4.4): an OwnedId is stored inline exactly when
\* its length is at most the kind's inline threshold.
StorageModeByLength ==
  \A s \in Slots : hold[s].form = "Owned" => ((hold[s].ptr = 0) <=> (hold[s].len <= InlineBytes))

=============================================================================
