------------------------------ MODULE Mailbox ------------------------------
(***************************************************************************)
(* What CnetworkPool's request queue promises, without its threads, lock,  *)
(* deques and wakeups: requests are numbered as they are submitted, each   *)
(* is handled at most once, and a request waits for the earlier ones of    *)
(* its own kind and of the kinds that are handled before it.  When the     *)
(* pool is torn down the box closes and nothing more is handled.           *)
(***************************************************************************)
EXTENDS Integers

CONSTANTS Requests, KindOf

VARIABLES clock, stamp, handled, closed

vars == <<clock, stamp, handled, closed>>

Init ==
    /\ clock = 0
    /\ stamp = [r \in Requests |-> 0]
    /\ handled = {}
    /\ closed = FALSE

Submit(r) ==
    /\ ~closed
    /\ stamp[r] = 0
    /\ clock' = clock + 1
    /\ stamp' = [stamp EXCEPT ![r] = clock + 1]
    /\ UNCHANGED <<handled, closed>>

\* The earlier requests that r may not overtake.
Before(r) == {q \in Requests : /\ 0 < stamp[q]
                               /\ stamp[q] < stamp[r]
                               /\ KindOf[q] <= KindOf[r]}

Handle(r) ==
    /\ ~closed
    /\ stamp[r] > 0
    /\ r \notin handled
    /\ Before(r) \subseteq handled
    /\ handled' = handled \union {r}
    /\ UNCHANGED <<clock, stamp, closed>>

CloseBox ==
    /\ ~closed
    /\ closed' = TRUE
    /\ UNCHANGED <<clock, stamp, handled>>

Next == \/ \E r \in Requests : Submit(r) \/ Handle(r)
        \/ CloseBox

Spec == Init /\ [][Next]_vars
=============================================================================
