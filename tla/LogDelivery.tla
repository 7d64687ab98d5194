---------------------------- MODULE LogDelivery ----------------------------
(***************************************************************************)
(* What a subscription to the event log promises: of the rows that become  *)
(* visible it delivers none twice, in whatever order they show up.         *)
(***************************************************************************)
EXTENDS Naturals, Sequences

CONSTANT Row        \* the ids a row may have

VARIABLES visible,   \* the rows the subscription owes its reader
          delivered  \* the rows it has delivered, in order

vars == <<visible, delivered>>

Delivered == {delivered[n] : n \in DOMAIN delivered}

Init == visible = {} /\ delivered = << >>

Publish == /\ visible' \in SUBSET Row /\ visible \subseteq visible'
           /\ UNCHANGED delivered

Deliver(r) == /\ r \in visible \ Delivered
              /\ delivered' = Append(delivered, r)
              /\ UNCHANGED visible

\* Another subscription begins, with rows of its own to deliver.
Reopen == /\ visible' \in SUBSET Row
          /\ delivered' = << >>

Next == Publish \/ Reopen \/ \E r \in Row : Deliver(r)

Spec == Init /\ [][Next]_vars
=============================================================================
