--------------------------- MODULE EnvironmentSlot ---------------------------
(***************************************************************************)
(* What deploying promises about one environment, without a word on jobs,  *)
(* requests or containers.  The environment is a slot, which at most one   *)
(* deployment holds while it is being deployed, and a service.  The holder *)
(* leaves the slot as the deployment that serves, or as a failure that     *)
(* leaves the service as it was.  It takes the service over from what      *)
(* served before, and does not fail while it does.                         *)
(*                                                                         *)
(* The slot is kept whatever goes wrong.  The service is promised as long  *)
(* as nothing has failed outside the deployments themselves: no restart,   *)
(* no rejected database call, no container that fails.                     *)
(***************************************************************************)

CONSTANTS Deployment, \* the deployments of the environment
          None        \* no deployment, and not one of them

VARIABLES slot,    \* the deployment that is being deployed
          service, \* "none", "up", or "handover" while the holder takes over
          calm     \* nothing has failed

slotVars == <<slot, service, calm>>

SlotInit == slot = None /\ service = "none" /\ calm = TRUE

Begin(d) == /\ slot = None /\ slot' = d
            /\ calm' => service' = service

Fail == /\ slot # None /\ slot' = None
        /\ calm' => service' = service /\ service # "handover"

\* The holder serves, whether it is the first to, takes over, or joins another.
Promote == /\ slot # None /\ slot' = None
           /\ service' = "up"

\* The last deployment that served is superseded; the holder is ready.
HandOver == /\ slot # None /\ slot' = slot
            /\ service = "up" /\ service' = "handover"

\* A request puts an earlier deployment back in service meanwhile.
Wake == /\ slot # None /\ slot' = slot
        /\ service = "handover" /\ service' = "up"

\* After a fault anything may become of the service.
Disturb == ~calm' /\ slot' = slot

SlotNext ==
  /\ calm' => calm
  /\ \/ \E d \in Deployment : Begin(d)
     \/ Fail \/ Promote \/ HandOver \/ Wake \/ Disturb

SlotSpec == SlotInit /\ [][SlotNext]_slotVars
=============================================================================
