----------------------------- MODULE WorkerFsm ------------------------------
(***************************************************************************)
(* The status of a worker in team.json (transitionWorkerFsm): one operator *)
(* per event, giving the status it leads to.  The code returns a patch and *)
(* leaves it to the caller to write it, so from which copy of the status   *)
(* an event is computed is the caller's business, not this module's.       *)
(***************************************************************************)

WorkerStatus ==
  {"offline", "pending_delivery", "idle", "queued", "running", "draining", "error"}

\* Most events leave a running worker running.
RunningPreservingStatus(from, to) == IF from = "running" THEN "running" ELSE to

SpawnReserved == "pending_delivery"

BridgeLeasePublished(from) ==
  IF from = "pending_delivery" THEN from ELSE RunningPreservingStatus(from, "idle")

DeliveryRequested(from) == RunningPreservingStatus(from, "pending_delivery")
DeliverySubmitted(from) == RunningPreservingStatus(from, "queued")
DeliveryFailed(from)    == RunningPreservingStatus(from, "queued")

AgentStarted == "running"

AgentEnded(busy, hasPendingDelivery) ==
  IF busy THEN "draining" ELSE IF hasPendingDelivery THEN "pending_delivery" ELSE "idle"

NativeBusy == "pending_delivery"

SessionShutdown(from) == IF from = "error" THEN "error" ELSE "offline"

ManualRecovered == "idle"
=============================================================================
