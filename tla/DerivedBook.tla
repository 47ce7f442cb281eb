---------------------------- MODULE DerivedBook ----------------------------
(***************************************************************************)
(* What the financial core promises, without runs, locks or crashes: a     *)
(* history of accepted events in which an event id occurs once, and a book *)
(* that is at every moment the projection of exactly that history.  A step *)
(* records a batch of new events and derives the book again; it happens    *)
(* completely or not at all.  PaymentBook fixes the projection;            *)
(* LedgerStore implements this specification.                              *)
(***************************************************************************)
CONSTANTS
  Arrivals,        \* the sets of events one batch can add
  Rules,           \* the posting rules a batch may be processed under
  EmptyBook,       \* the derived tables before any event
  Project(_, _),   \* the derived tables of a history under posting rules
  Sound(_)         \* what the code asserts of derived tables

VARIABLES
  accepted,        \* accepted_event
  book             \* the derived tables

vars == <<accepted, book>>

OneEventPerId(events) == \A e, f \in events : e.id = f.id => e = f

Init == accepted = {} /\ book = EmptyBook

Record(batch, rules) ==
  /\ accepted' = accepted \cup batch
  /\ OneEventPerId(accepted')
  /\ book' = Project(accepted', rules)
  /\ Sound(book')

Next == \E batch \in Arrivals, rules \in Rules : Record(batch, rules)

Spec == Init /\ [][Next]_vars
=============================================================================
