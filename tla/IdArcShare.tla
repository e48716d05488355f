----------------------------- MODULE IdArcShare -----------------------------
(***************************************************************************)
(* One Arc<Id> shared between threads (identifiers.rs, expand_id_dst and   *)
(* expand_owned_id).  The owner thread makes it with From<&Id> for         *)
(* Arc<Id> (or parse_arc): Arc::<str>::from allocates the text with a      *)
(* strong count of 1 and from_arc casts the pointer.  While it shares, it  *)
(* hands clones to worker threads.  Every holder then either turns its     *)
(* clone into an OwnedId (From<Arc<Id>> for OwnedId copies the bytes, then *)
(* drops the Arc) or just drops it.  Arc's drop is std's: an atomic        *)
(* fetch_sub on the strong count, and the thread that saw the count at 1   *)
(* frees the buffer.                                                       *)
(*                                                                         *)
(* Each thread runs a program, a sequence of steps; pc is the index of its *)
(* next step.  A worker that has not been handed a clone has the empty     *)
(* program.                                                                *)
(***************************************************************************)
EXTENDS Naturals, Sequences, FiniteSets

CONSTANTS
  Owner,     \* the thread that creates the Arc<Id>
  Workers    \* the threads it may hand clones to

Threads == {Owner} \cup Workers

VARIABLES
  count,   \* the strong count of the allocation
  live,    \* the buffer is allocated
  frees,   \* how many times it was freed
  holds,   \* holds[t]: thread t owns an Arc<Id> of the allocation
  prog,    \* prog[t]: the steps thread t runs
  pc,      \* pc[t]: the index of thread t's next step
  old      \* old[t]: the count fetch_sub returned to thread t
vars == <<count, live, frees, holds, prog, pc, old>>

\* From<Arc<Id>> for OwnedId: Self::new(a.as_bytes().into()) copies the
\* bytes, then a is dropped at the end of the function.
IntoOwnedSteps == <<"copy", "dec", "release">>
\* drop of an Arc<Id>.
DropSteps == <<"dec", "release">>

Programs == {IntoOwnedSteps, DropSteps}

\* Plausible fault: the cast made on a clone (Arc::into_raw(Arc::clone(&s))),
\* leaving one count that no handle owns.
FromArcCloned(c) == c + 1
\* Plausible fault: the Arc<Id> made from Arc::as_ptr(&s) while s is
\* dropped, so the new handle owns no count.
FromArcAsPtr(c) == c - 1
\* from_arc: Arc::from_raw(Arc::into_raw(s) as _) moves the pointer, and with
\* it the count, into the Arc<Id>.
FromArc(c) == c

\* Plausible fault: the last-holder test made on the count read again after
\* the decrement, not on the value fetch_sub returned.
LastHolderReread(t) == count = 0
\* Arc's drop: the thread whose fetch_sub returned 1 frees the buffer.
LastHolder(t) == old[t] = 1

Step(t, k) == pc[t] <= Len(prog[t]) /\ prog[t][pc[t]] = k
Advance(t) == pc' = [pc EXCEPT ![t] = @ + 1]

-----------------------------------------------------------------------------

Init ==
  /\ count = 0 /\ live = FALSE /\ frees = 0
  /\ holds = [t \in Threads |-> FALSE]
  /\ prog \in {[t \in Threads |-> IF t = Owner THEN <<"create", "share">> \o p ELSE <<>>] :
                 p \in Programs}
  /\ pc = [t \in Threads |-> 1]
  /\ old = [t \in Threads |-> 0]

\* From<&Id> for Arc<Id>: Arc::<str>::from(s.as_str()) allocates the text
\* with count 1, and from_arc makes it an Arc<Id>, held by the owner.
Create ==
  /\ Step(Owner, "create")
  /\ live' = TRUE
  /\ count' = FromArc(1)
  /\ holds' = [holds EXCEPT ![Owner] = TRUE]
  /\ Advance(Owner)
  /\ UNCHANGED <<frees, prog, old>>

\* Arc::clone (fetch_add) by a thread t holding a handle, the clone moved
\* to worker w, which will turn it into an OwnedId or drop it.  The owner
\* clones while it shares; a worker clones its own handle before its first
\* step, i.e. before it copies from or drops that handle.
Clone(t, w) ==
  /\ holds[t] /\ w # t
  /\ IF t = Owner THEN Step(Owner, "share") ELSE pc[t] = 1
  /\ prog[w] = <<>>
  /\ count' = count + 1
  /\ holds' = [holds EXCEPT ![w] = TRUE]
  /\ \E p \in Programs : prog' = [prog EXCEPT ![w] = p]
  /\ UNCHANGED <<live, frees, pc, old>>

\* The owner stops handing out clones.
EndShare ==
  /\ Step(Owner, "share")
  /\ Advance(Owner)
  /\ UNCHANGED <<count, live, frees, holds, prog, old>>

\* a.as_bytes().into(): the bytes are read through the pointer.
Copy(t) ==
  /\ Step(t, "copy")
  /\ Advance(t)
  /\ UNCHANGED <<count, live, frees, holds, prog, old>>

\* Arc's drop, first half: strong.fetch_sub(1, Release).
Dec(t) ==
  /\ Step(t, "dec")
  /\ old' = [old EXCEPT ![t] = count]
  /\ count' = count - 1
  /\ holds' = [holds EXCEPT ![t] = FALSE]
  /\ Advance(t)
  /\ UNCHANGED <<live, frees, prog>>

\* Arc's drop, second half: if fetch_sub returned 1, the Acquire fence and
\* drop_slow free the buffer; otherwise the drop returns.
Release(t) ==
  /\ Step(t, "release")
  /\ IF LastHolder(t)
       THEN live' = FALSE /\ frees' = frees + 1
       ELSE UNCHANGED <<live, frees>>
  /\ Advance(t)
  /\ UNCHANGED <<count, holds, prog, old>>

\* The next step of thread t's own program.
Run(t) ==
  \/ t = Owner /\ (Create \/ EndShare)
  \/ Copy(t) \/ Dec(t) \/ Release(t)

\* Every thread has run its program.
Finished == \A t \in Threads : pc[t] > Len(prog[t])

Next ==
  \/ \E t \in Threads : Run(t)
  \/ \E t \in Threads, w \in Workers : Clone(t, w)

\* No thread blocks: a thread with a step left gets to run it.  Handing out
\* clones is the holders' choice and is not fair.
Spec == Init /\ [][Next]_vars /\ \A t \in Threads : WF_vars(Run(t))

-----------------------------------------------------------------------------

TypeOK ==
  /\ count \in Nat /\ live \in BOOLEAN /\ frees \in Nat
  /\ holds \in [Threads -> BOOLEAN]
  /\ pc \in [Threads -> Nat \ {0}]
  /\ old \in [Threads -> Nat]

\* The refinement mapping to SharedId.  A thread whose fetch_sub returned
\* 1 has dropped the last handle: the text is dead from that step on, and
\* its free is counted then, whether or not Release has run yet.
PendingFree == {t \in Threads : Step(t, "release") /\ old[t] = 1}
Copied == {t \in Threads : \E i \in 1..(pc[t] - 1) : prog[t][i] = "copy"}
Abstract == INSTANCE SharedId WITH
  holders <- {t \in Threads : holds[t]},
  alive <- live /\ PendingFree = {},
  freed <- frees + Cardinality(PendingFree),
  copied <- Copied

\* Seen through the handles, the threads' interleaved steps are steps of
\* SharedId: a thread copies the bytes into its OwnedId only while it holds
\* a handle (so never after the free), and the drop whose fetch_sub returns
\* 1 is the last handle going away and frees the text exactly once, however
\* the other threads' decrements and tests interleave with it.
ImplementsSharedId == Abstract!Spec

\* While the buffer is allocated its strong count is the number of
\* Arc<Id> handles alive, and it is freed at most once, only when no
\* thread holds a handle.
FreedOnceWhenUnheld ==
  /\ live => count = Cardinality({t \in Threads : holds[t]})
  /\ frees <= 1
  /\ frees = 1 => \A t \in Threads : ~holds[t]

\* However the threads interleave and whatever the owner shares, the
\* buffer is eventually freed (spec section 8: freed exactly once).
EventuallyFreed == <>(frees = 1)

=============================================================================
