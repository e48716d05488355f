\* The owner and three workers: every order of clones, copies and drops of
\* four handles, each holder turning its clone into an OwnedId or dropping
\* it.  The run ends when every thread has finished its program.
CONSTANTS
  Owner = owner
  Workers = {w1, w2, w3}
SPECIFICATION Spec
CHECK_DEADLOCK FALSE
INVARIANTS
  TypeOK
  FreedOnceWhenUnheld
PROPERTIES
  EventuallyFreed
  ImplementsSharedId
