--------------------------- MODULE ParkLifecycle ---------------------------
(***************************************************************************)
(* What the confirmation gate of DARWIN promises, with no locks, threads,  *)
(* prompts or clocks in sight.                                             *)
(*                                                                         *)
(* Every consequential action that is parked becomes a ticket.  At most    *)
(* one ticket waits for an answer at a time; parking another one drops the *)
(* ticket that waited.  A waiting ticket is answered at most once.  An     *)
(* answered ticket either fires once or is dropped, and a ticket that      *)
(* fired or was dropped is never seen again.                               *)
(***************************************************************************)
CONSTANT Tickets      \* the identities a park may be given

VARIABLES waiting,    \* tickets in the slot: the empty set or a singleton
          answered,   \* tickets taken out of the slot, not yet decided
          fired,      \* tickets whose action was replayed
          dropped     \* tickets that will never fire

vars == <<waiting, answered, fired, dropped>>

Seen == waiting \cup answered \cup fired \cup dropped

Init == /\ waiting = {}
        /\ answered = {}
        /\ fired = {}
        /\ dropped = {}

\* A fresh ticket takes the slot; the one that waited there is dropped.
Park(k) == /\ k \notin Seen
           /\ waiting' = {k}
           /\ dropped' = dropped \cup waiting
           /\ UNCHANGED <<answered, fired>>

\* The slot is emptied without an answer: denied, expired, or cleared.
Retire == /\ waiting # {}
          /\ dropped' = dropped \cup waiting
          /\ waiting' = {}
          /\ UNCHANGED <<answered, fired>>

\* Somebody answers the waiting ticket, which leaves the slot for good.
Answer(k) == /\ waiting = {k}
             /\ waiting' = {}
             /\ answered' = answered \cup {k}
             /\ UNCHANGED <<fired, dropped>>

\* The answer was a yes and the action is replayed.
Fire(k) == /\ k \in answered
           /\ answered' = answered \ {k}
           /\ fired' = fired \cup {k}
           /\ UNCHANGED <<waiting, dropped>>

\* The answer was anything else.
Abandon(k) == /\ k \in answered
              /\ answered' = answered \ {k}
              /\ dropped' = dropped \cup {k}
              /\ UNCHANGED <<waiting, fired>>

Next == \/ Retire
        \/ \E k \in Tickets : Park(k) \/ Answer(k) \/ Fire(k) \/ Abandon(k)

Spec == Init /\ [][Next]_vars
=============================================================================
