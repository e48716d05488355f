------------------------------ MODULE SharedId ------------------------------
(***************************************************************************)
(* What an Arc<Id> promises the threads that share it, with the reference  *)
(* count left out: the text exists while some thread holds a handle, a     *)
(* thread reads it only through a handle it holds, a handle can only be    *)
(* cloned from a held one, and dropping the last handle frees the text,    *)
(* in the same step, exactly once.                                         *)
(***************************************************************************)
EXTENDS Naturals

CONSTANTS Threads

VARIABLES
  holders,  \* the threads that hold a handle
  alive,    \* the text is allocated
  freed,    \* how many times it was freed
  copied    \* the threads that have read the text into an OwnedId
vars == <<holders, alive, freed, copied>>

Init == holders = {} /\ alive = FALSE /\ freed = 0 /\ copied = {}

\* The text is allocated and thread t holds the only handle.
Make(t) ==
  /\ ~alive /\ freed = 0
  /\ holders' = {t} /\ alive' = TRUE
  /\ UNCHANGED <<freed, copied>>

\* A holder t clones its handle for thread w.
Share(t, w) ==
  /\ t \in holders /\ w \notin holders
  /\ holders' = holders \cup {w}
  /\ UNCHANGED <<alive, freed, copied>>

\* A holder reads the text.
Read(t) ==
  /\ t \in holders /\ t \notin copied
  /\ copied' = copied \cup {t}
  /\ UNCHANGED <<holders, alive, freed>>

\* A holder drops its handle; the last one frees the text.
Drop(t) ==
  /\ t \in holders
  /\ holders' = holders \ {t}
  /\ IF holders' = {}
       THEN alive' = FALSE /\ freed' = freed + 1
       ELSE UNCHANGED <<alive, freed>>
  /\ UNCHANGED copied

Next ==
  \E t \in Threads :
    \/ Make(t) \/ Read(t) \/ Drop(t)
    \/ \E w \in Threads : Share(t, w)

Spec == Init /\ [][Next]_vars
=============================================================================
