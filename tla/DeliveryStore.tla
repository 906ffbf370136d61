--------------------------- MODULE DeliveryStore ----------------------------
(***************************************************************************)
(* The delivery requests of one member (the `delivery' section of          *)
(* runtime.json) and what each locked update of the store does to them.    *)
(* Requests are numbered in the order of their creation (createdAt).       *)
(*                                                                         *)
(* Time is abstracted to comparisons: `due' says expiresAt <= now and      *)
(* `lapsed' says claim.expiresAt <= now; `age' orders the updatedAt of     *)
(* submitted and started requests: the transitions of others since.        *)
(***************************************************************************)
EXTENDS Naturals, FiniteSets

CONSTANTS Messages,     \* mailbox message ids
          MaxRequests   \* how many requests are ever created (a bound)

ASSUME MaxRequestsType == MaxRequests \in Nat \ {0}

Ids == 1 .. MaxRequests

RequestStatus == {"absent", "pending", "claimed", "submitted", "started",
                  "completed", "failed", "expired"}

TerminalStatus == {"completed", "failed", "expired"}

\* claim: the incarnation of the worker that claimed it, 0 for no claim;
\* promptMsgs: claim.messageIds, the messages of the claim's prompt.
Request == [status: RequestStatus, msgs: SUBSET Messages, claim: Nat,
            promptMsgs: SUBSET Messages, lapsed: BOOLEAN, due: BOOLEAN, age: Nat]

NoRequest == [status |-> "absent", msgs |-> {}, claim |-> 0, promptMsgs |-> {},
              lapsed |-> FALSE, due |-> FALSE, age |-> 0]

NewRequest(msgs) ==
  [status |-> "pending", msgs |-> msgs, claim |-> 0, promptMsgs |-> {},
   lapsed |-> FALSE, due |-> FALSE, age |-> 0]

\* requestHasExpired: only what was not submitted yet expires.
RequestHasExpired(request) ==
  \/ request.status = "expired"
  \/ request.status \in {"pending", "claimed"} /\ request.due

\* activeClaim
ActiveClaim(request) ==
  request.status \in {"claimed", "submitted", "started"} /\ request.claim # 0 /\ ~request.lapsed

\* (An operator named ...Mutant... is a plausible bug in the operator after it;
\* it is used only to see that a property notices.)
AllowedTransitionsMutantNoSubmit ==
  [pending   |-> {"claimed", "expired"},
   claimed   |-> {"failed", "expired"},
   submitted |-> {"started", "failed", "expired"},
   started   |-> {"completed", "failed", "expired"},
   completed |-> {}, failed |-> {}, expired |-> {}]

\* allowedTransitions, without `cancelled', which nothing in src/ requests.
AllowedTransitions ==
  [pending   |-> {"claimed", "expired"},
   claimed   |-> {"submitted", "failed", "expired"},
   submitted |-> {"started", "failed", "expired"},
   started   |-> {"completed", "failed", "expired"},
   completed |-> {}, failed |-> {}, expired |-> {}]

CanTransition(from, to) == from # "absent" /\ to \in AllowedTransitions[from]

-----------------------------------------------------------------------------
PendingIds(store) == {i \in Ids : store[i].status = "pending"}

\* The oldest request of a set: the one created first.
Oldest(ids) == CHOOSE i \in ids : \A j \in ids : i <= j

MaintainedMutantNoRecovery(store) ==
  [i \in Ids |-> IF RequestHasExpired(store[i])
                   THEN [store[i] EXCEPT !.status = "expired"] ELSE store[i]]

MaintainedMutantAnyLapsed(store) ==
  [i \in Ids |->
     IF RequestHasExpired(store[i]) THEN [store[i] EXCEPT !.status = "expired"]
     ELSE IF store[i].lapsed /\ store[i].status \in {"claimed", "submitted"}
       THEN [store[i] EXCEPT !.status = "pending", !.claim = 0,
                             !.promptMsgs = {}, !.lapsed = FALSE]
     ELSE store[i]]

\* maintainDeliveryRequestsInState: a request that is due expires (and keeps
\* its claim), a claim that lapsed is taken back.
Maintained(store) ==
  [i \in Ids |->
     IF RequestHasExpired(store[i]) THEN [store[i] EXCEPT !.status = "expired"]
     ELSE IF store[i].status = "claimed" /\ store[i].lapsed
       THEN [store[i] EXCEPT !.status = "pending", !.claim = 0,
                             !.promptMsgs = {}, !.lapsed = FALSE]
     ELSE store[i]]

\* Is there a pending request to join, or one left to open?  The code can
\* always open one; the model's sender waits if the bound is reached, and the
\* instances choose MaxRequests such that it never is.
CanRequest(store) ==
  PendingIds(Maintained(store)) # {} \/ \E i \in Ids : store[i].status = "absent"

RequestedMutantAlwaysNew(store, msgs) ==
  LET kept == Maintained(store)
      free == {i \in Ids : kept[i].status = "absent"}
  IN IF free # {} THEN [kept EXCEPT ![Oldest(free)] = NewRequest(msgs)] ELSE kept

\* createOrRefreshDeliveryRequest, after requestOrRefreshDelivery's own
\* maintenance: join the oldest pending request, or open a new one.
Requested(store, msgs) ==
  LET kept == Maintained(store)
      live == PendingIds(kept)
      free == {i \in Ids : kept[i].status = "absent"}
  IN IF live # {}
       THEN [kept EXCEPT ![Oldest(live)].msgs = @ \cup msgs, ![Oldest(live)].due = FALSE]
       ELSE [kept EXCEPT ![Oldest(free)] = NewRequest(msgs)]

ClaimedForMutantWholeRequest(store, i, incarnation, promptMsgs) ==
  [store EXCEPT ![i].status = "claimed", ![i].claim = incarnation,
                ![i].promptMsgs = store[i].msgs, ![i].lapsed = FALSE]

\* claimNextEligibleDeliveryRequest: the oldest pending request is claimed for
\* a prompt of promptMsgs.
ClaimedFor(store, i, incarnation, promptMsgs) ==
  [store EXCEPT ![i].status = "claimed", ![i].claim = incarnation,
                ![i].promptMsgs = promptMsgs, ![i].lapsed = FALSE]

\* transitionDeliveryRequest: the locked part of a transition.
Transitioned(store, i, to) ==
  [j \in Ids |->
     IF j = i THEN [store[i] EXCEPT !.status = to, !.age = 0]
     ELSE IF store[j].status \in {"submitted", "started"}
       THEN [store[j] EXCEPT !.age = @ + 1]
     ELSE store[j]]

\* markLatestDelivery...: of some requests the one that was updated last.
Latest(store, ids) ==
  CHOOSE i \in ids : \A j \in ids :
    \/ store[i].age < store[j].age
    \/ store[i].age = store[j].age /\ j <= i
=============================================================================
