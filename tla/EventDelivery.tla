---------------------------- MODULE EventDelivery ----------------------------
(***************************************************************************)
(* What v8.3 event reconciliation promises about each event, without the   *)
(* tables, leases and snapshots that keep the promise: an event is queued, *)
(* worked on by one worker at a time -- and no two events of one object at *)
(* once -- and it ends closed, back in the queue, or waiting for Ryan.  A  *)
(* closed event stays closed unless an operator releases it.               *)
(* EventProcessor implements this while leases are timely.                 *)
(***************************************************************************)
CONSTANTS Events, ObjectOf

VARIABLE status   \* status[e]

Statuses == {"absent", "queued", "working", "waiting", "closed", "stranded"}

DeliveryTypeOK == status \in [Events -> Statuses]

DeliveryInit == status = [e \in Events |-> "absent"]

Move(e, from, to) ==
    /\ status[e] = from
    /\ status' = [status EXCEPT ![e] = to]

Arrive(e) == \E s \in {"queued", "closed"} : Move(e, "absent", s)

\* Work starts only on an object nobody works on.
Start(e) ==
    /\ \A f \in Events : ObjectOf[f] = ObjectOf[e] => status[f] # "working"
    /\ Move(e, "queued", "working")

Finish(e) == \E s \in {"closed", "waiting", "queued"} : Move(e, "working", s)

\* A worker crash: the event returns to the queue, or is stranded half way.
Abandon(e) == Move(e, "working", "stranded")

\* An operator rejects a waiting proposal, or releases a dead letter.
Reject(e) == Move(e, "waiting", "closed")
Release(e) == Move(e, "closed", "queued")

DeliveryNext ==
    \E e \in Events : \/ Arrive(e) \/ Start(e) \/ Finish(e)
                      \/ Abandon(e) \/ Reject(e) \/ Release(e)

DeliverySpec == DeliveryInit /\ [][DeliveryNext]_status
=============================================================================
