------------------------ MODULE BridgeDeliveryProofs ------------------------
(***************************************************************************)
(* Proofs about BridgeDelivery for any messages, senders, requests,        *)
(* starts, faults and turns.                                               *)
(*                                                                         *)
(* The pump writes its answer some steps after it claimed a request, with  *)
(* the lock released in between.  What makes that right is what the claim  *)
(* of its own incarnation tells it (OwnClaim); what keeps a message out of *)
(* a second prompt is that each is in one request, which is pending no     *)
(* more once it is claimed (OneRequestEach), as long as nothing takes a    *)
(* claim back (OnlyOwnClaims).                                             *)
(***************************************************************************)
EXTENDS BridgeDelivery, FiniteSetTheorems, WellFoundedInduction, TLAPS

\* The pump has composed a prompt that did not go out yet; it holds the id of
\* a request; it may still write its answer to that request.
Composed == {"claim", "heartbeat", "submit"}
InFlight == {"heartbeat", "submit", "sending", "checkSubmitted", "writeSubmitted",
             "recordSubmitted", "checkFailed", "writeFailed", "recordFailed"}
Claiming == InFlight \ {"recordSubmitted", "recordFailed"}

PumpShape ==
  /\ ~worker.up => pump = IdlePump /\ worker.hook = "none" /\ agent = "none"
  /\ worker.up => worker.incarnation # 0
  /\ pump.pc \in InFlight => pump.id \in Ids
  /\ pump.pc \notin {"idle", "sending"} => worker.hook = "none"
  /\ pump.pc \in Composed => agent = "none"

RequestShape ==
  \A i \in Ids : /\ store[i].status = "absent" => store[i] = NoRequest
                 /\ store[i].status = "pending" => store[i].claim = 0

\* The claim the pump finds with its own incarnation is that of its prompt.
OwnClaim ==
  pump.pc \in Claiming /\ store[pump.id].claim = worker.incarnation =>
    store[pump.id].status \in {"claimed", "expired"} /\ store[pump.id].promptMsgs = pump.todo

\* The prompt's messages: new while it is composed, prompted once it went out.
PromptOfPump ==
  /\ pump.pc \in Claiming \cup {"claim"} => pump.todo # {}
  /\ pump.pc \in Composed => pump.todo \cap (delivered \cup read) = {}
  /\ pump.pc \in {"sending", "checkSubmitted", "writeSubmitted"} =>
       \A m \in pump.todo : prompted[m] > 0

\* As long as no claim outlived its prompt, what is claimed is what the pump
\* is about, and no request comes back beside another.
OnlyOwnClaims ==
  trouble \cap {"lapse", "restart"} = {} =>
    /\ ~worker.up => worker.incarnation = 0
    /\ \A i \in Ids : store[i].status = "claimed" =>
         /\ pump.pc \in Claiming /\ pump.id = i
         /\ store[i].claim = worker.incarnation /\ ~store[i].lapsed
    /\ \A i, j \in PendingIds(store) : i = j

\* The messages a sender has not put into a request yet.
Asking(s) == IF sender[s].pc \in {"snapshot", "patch", "request"} THEN sender[s].msgs ELSE {}

\* Without cause for a resend, each message is in one request at most, and in
\* none that is pending once it is prompted.
OneRequestEach ==
  trouble \cap {"lapse", "sendFailed", "restart", "rerequest"} = {} =>
    /\ \A i \in Ids : store[i].msgs \subseteq inbox
    /\ \A i, j \in Ids : \A m \in store[i].msgs \cap store[j].msgs : i = j
    /\ \A s \in Senders :
         /\ Asking(s) \subseteq inbox
         /\ \A i \in Ids : Asking(s) \cap store[i].msgs = {}
         /\ \A r \in Senders : Asking(s) \cap Asking(r) # {} => s = r
    /\ \A m \in Messages :
         /\ prompted[m] < 2
         /\ prompted[m] > 0 => \E i \in Ids : m \in store[i].msgs /\ store[i].status # "pending"
    /\ pump.pc \in Composed =>
         \A m \in pump.todo :
           /\ prompted[m] = 0
           /\ \E i \in Ids : m \in store[i].msgs /\ (pump.pc = "claim" \/ store[i].status # "pending")

IInv ==
  /\ TypeOK
  /\ PumpShape /\ RequestShape /\ OwnClaim /\ PromptOfPump /\ SubmittedWasPrompted
  /\ OnlyOwnClaims /\ OneRequestEach

-----------------------------------------------------------------------------
(***************************************************************************)
(* What the updates of the store do to each request.                       *)
(***************************************************************************)

LEMMA LeastOfSet ==
  ASSUME NEW S \in SUBSET Nat, S # {}
  PROVE  \E i \in S : \A j \in S : i <= j
<1>1. PICK i \in S : \A j \in S : ~ (<<j, i>> \in OpToRel(<, Nat))
  BY NatLessThanWellFounded, WFMin
<1>2. ASSUME NEW j \in S PROVE i <= j
  <2>1. <<j, i>> \in Nat \X Nat /\ <<j, i>>[1] = j /\ <<j, i>>[2] = i
    OBVIOUS
  <2>2. ~ (j < i)
    BY <1>1, <2>1 DEF OpToRel
  <2> QED BY <2>2
<1> QED BY <1>2

LEMMA OldestIs ==
  ASSUME NEW S \in SUBSET Ids, S # {}
  PROVE  Oldest(S) \in S
<1>1. \E i \in S : \A j \in S : i <= j
  BY LeastOfSet, MaxRequestsType DEF Ids
<1> QED BY <1>1 DEF Oldest

LEMMA LatestIs ==
  ASSUME NEW st \in [Ids -> Request], NEW S \in SUBSET Ids, S # {}
  PROVE  Latest(st, S) \in S
<1>0. \A i \in S : st[i].age \in Nat /\ i \in Nat /\ i <= MaxRequests
  BY MaxRequestsType DEF Ids, Request
<1> DEFINE Ages == {st[i].age : i \in S}
<1>1. Ages \in SUBSET Nat /\ Ages # {}
  BY <1>0
<1>2. PICK a \in Ages : \A b \in Ages : a <= b
  BY <1>1, LeastOfSet
<1> DEFINE Gaps == {k \in Nat : \E i \in S : st[i].age = a /\ k = MaxRequests - i}
<1>3. Gaps \in SUBSET Nat /\ Gaps # {}
  <2>1. PICK i \in S : st[i].age = a
    BY <1>2
  <2>2. MaxRequests - i \in Nat
    BY <1>0, MaxRequestsType
  <2>3. MaxRequests - i \in Gaps
    BY <2>1, <2>2
  <2> QED BY <2>3
<1>4. PICK k \in Gaps : \A l \in Gaps : k <= l
  <2> HIDE DEF Gaps
  <2> QED BY <1>3, LeastOfSet
<1>5. PICK i \in S : st[i].age = a /\ k = MaxRequests - i
  BY <1>4
<1>6. ASSUME NEW j \in S
      PROVE  \/ st[i].age < st[j].age
             \/ st[i].age = st[j].age /\ j <= i
  <2>1. st[i].age <= st[j].age
    BY <1>2, <1>5
  <2>2. ASSUME st[j].age = a PROVE j <= i
    <3>1. MaxRequests - j \in Nat
      BY <1>0, MaxRequestsType
    <3>2. MaxRequests - j \in Gaps
      BY <2>2, <3>1
    <3>3. k <= MaxRequests - j
      BY <1>4, <3>2
    <3> HIDE DEF Gaps
    <3> QED BY <1>0, <1>5, <3>3, MaxRequestsType
  <2> HIDE DEF Ages, Gaps
  <2> QED BY <1>0, <1>5, <2>1, <2>2
<1>7. \E x \in S : \A j \in S :
        \/ st[x].age < st[j].age
        \/ st[x].age = st[j].age /\ j <= x
  BY <1>6
<1> QED BY <1>7 DEF Latest

-----------------------------------------------------------------------------
\* What happens to a request that the pump is not about: it stays, expires,
\* is taken back, or is opened.
Stays(r, q) == r.status # "absent" /\ q.status = r.status /\ q.claim = r.claim /\ q.promptMsgs = r.promptMsgs
Expires(r, q) ==
  /\ r.status \in {"pending", "claimed"} /\ q.status = "expired"
  /\ q.claim = r.claim /\ q.promptMsgs = r.promptMsgs
TakenBack(r, q) == r.status = "claimed" /\ r.lapsed /\ q.status = "pending" /\ q.claim = 0
Opened(r, q) == r.status = "absent" /\ q.status = "pending" /\ q.claim = 0
Moved(r, q) ==
  /\ r.msgs \subseteq q.msgs
  /\ q = r \/ Stays(r, q) \/ Expires(r, q) \/ TakenBack(r, q) \/ Opened(r, q)

\* The fields of a request.
LEMMA RequestFields ==
  ASSUME NEW r \in Request
  PROVE  /\ r.status \in RequestStatus /\ r.msgs \in SUBSET Messages /\ r.claim \in Nat
         /\ r.promptMsgs \in SUBSET Messages /\ r.lapsed \in BOOLEAN /\ r.due \in BOOLEAN
         /\ r.age \in Nat
BY DEF Request

LEMMA MaintainedMoves ==
  ASSUME NEW st \in [Ids -> Request], NEW i \in Ids
  PROVE  /\ Maintained(st)[i] \in Request /\ Maintained(st)[i].msgs = st[i].msgs
         /\ Maintained(st)[i].lapsed => st[i].lapsed
         /\ \/ Maintained(st)[i] = st[i]
            \/ Stays(st[i], Maintained(st)[i])
            \/ Expires(st[i], Maintained(st)[i])
            \/ TakenBack(st[i], Maintained(st)[i])
<1> DEFINE r == st[i]
           q == Maintained(st)[i]
<1>0. r \in Request
  OBVIOUS
<1>1. q = IF RequestHasExpired(r) THEN [r EXCEPT !.status = "expired"]
          ELSE IF r.status = "claimed" /\ r.lapsed
            THEN [r EXCEPT !.status = "pending", !.claim = 0, !.promptMsgs = {}, !.lapsed = FALSE]
          ELSE r
  BY DEF Maintained
<1> HIDE DEF r, q
<1>2. CASE RequestHasExpired(r)
  <2>1. q = [r EXCEPT !.status = "expired"]
    BY <1>1, <1>2
  <2>2. /\ q \in Request /\ q.status = "expired" /\ q.claim = r.claim /\ q.promptMsgs = r.promptMsgs
        /\ q.msgs = r.msgs /\ q.lapsed = r.lapsed
    BY <1>0, <2>1 DEF Request, RequestStatus
  <2>3. r.status = "expired" \/ r.status \in {"pending", "claimed"}
    BY <1>2 DEF RequestHasExpired
  <2> QED BY <2>2, <2>3 DEF Stays, Expires, r, q
<1>3. CASE ~ RequestHasExpired(r) /\ r.status = "claimed" /\ r.lapsed
  <2>1. q = [r EXCEPT !.status = "pending", !.claim = 0, !.promptMsgs = {}, !.lapsed = FALSE]
    BY <1>1, <1>3
  <2>2. /\ q \in Request /\ q.status = "pending" /\ q.claim = 0 /\ q.msgs = r.msgs
        /\ q.lapsed = FALSE
    BY <1>0, <2>1 DEF Request, RequestStatus
  <2> QED BY <1>3, <2>2 DEF TakenBack, r, q
<1>4. CASE ~ RequestHasExpired(r) /\ ~ (r.status = "claimed" /\ r.lapsed)
  <2>1. q = r
    BY <1>1, <1>4
  <2> QED BY <1>0, <2>1 DEF r, q
<1> QED BY <1>2, <1>3, <1>4

\* A request is asked for: one request gets the messages, the one that was
\* pending or, if there was none, a new one.
LEMMA RequestedMoves ==
  ASSUME NEW st \in [Ids -> Request], CanRequest(st), NEW msgs \in SUBSET Messages,
         \A i \in Ids : st[i].status = "absent" => st[i] = NoRequest
  PROVE  /\ Requested(st, msgs) \in [Ids -> Request]
         /\ \A i \in Ids : Moved(st[i], Requested(st, msgs)[i])
         /\ \A i \in Ids : Requested(st, msgs)[i].lapsed => st[i].lapsed
         /\ \E k \in Ids :
              /\ Requested(st, msgs)[k].status = "pending"
              /\ Requested(st, msgs)[k].msgs = st[k].msgs \cup msgs
              /\ \A i \in Ids : i # k => /\ Requested(st, msgs)[i] = Maintained(st)[i]
                                         /\ Requested(st, msgs)[i].msgs = st[i].msgs
              /\ \/ \A i \in PendingIds(Maintained(st)) : i = k
                 \/ k \in PendingIds(Maintained(st))
<1> DEFINE kept == Maintained(st)
           live == PendingIds(kept)
           free == {i \in Ids : kept[i].status = "absent"}
           new == Requested(st, msgs)
<1>1. \A i \in Ids :
        /\ kept[i] \in Request /\ kept[i].msgs = st[i].msgs /\ (kept[i].lapsed => st[i].lapsed)
        /\ \/ kept[i] = st[i] \/ Stays(st[i], kept[i])
           \/ Expires(st[i], kept[i]) \/ TakenBack(st[i], kept[i])
  BY MaintainedMoves
<1>2. kept \in [Ids -> Request]
  BY <1>1 DEF Maintained
<1>3. live \subseteq Ids /\ free \subseteq Ids /\ \A i \in live : kept[i].status = "pending"
  BY DEF PendingIds
<1>4. new = IF live # {}
              THEN [kept EXCEPT ![Oldest(live)].msgs = @ \cup msgs, ![Oldest(live)].due = FALSE]
              ELSE [kept EXCEPT ![Oldest(free)] = NewRequest(msgs)]
  BY DEF Requested
<1> HIDE DEF kept, live, new
<1>5. CASE live # {}
  <2> DEFINE k == Oldest(live)
             r == kept[k]
             q == [r EXCEPT !.msgs = r.msgs \cup msgs, !.due = FALSE]
  <2>1. k \in live /\ k \in Ids /\ r.status = "pending" /\ r \in Request
    BY <1>1, <1>3, <1>5, OldestIs
  <2>2. /\ q \in Request /\ q.status = "pending" /\ q.claim = r.claim /\ q.promptMsgs = r.promptMsgs
        /\ q.msgs = r.msgs \cup msgs /\ q.lapsed = r.lapsed
    <3> HIDE DEF r
    <3> QED BY <2>1 DEF Request
  <2>3. new = [kept EXCEPT ![k] = q]
    BY <1>2, <1>4, <1>5, <2>1
  <2> HIDE DEF k, q
  <2>4. /\ new \in [Ids -> Request] /\ new[k] = q
        /\ \A i \in Ids : i # k => new[i] = kept[i]
    BY <1>2, <2>1, <2>2, <2>3
  <2>5. ASSUME NEW i \in Ids PROVE Moved(st[i], new[i]) /\ (new[i].lapsed => st[i].lapsed)
    <3>1. CASE i = k
      <4>1. \/ r = st[k] \/ Stays(st[k], r) \/ TakenBack(st[k], r)
        BY <1>1, <2>1 DEF Expires
      <4>2. r.msgs = st[k].msgs /\ (r.lapsed => st[k].lapsed)
        BY <1>1, <2>1
      <4>3. \/ Stays(st[k], q) \/ TakenBack(st[k], q)
        <5>1. ASSUME TakenBack(st[k], r) PROVE TakenBack(st[k], q)
          BY <2>1, <2>2, <5>1 DEF TakenBack
        <5>2. ASSUME r = st[k] PROVE Stays(st[k], q)
          BY <2>1, <2>2, <5>2 DEF Stays
        <5>3. ASSUME Stays(st[k], r) PROVE Stays(st[k], q)
          BY <2>1, <2>2, <5>3 DEF Stays
        <5> QED BY <4>1, <5>1, <5>2, <5>3
      <4> HIDE DEF r
      <4> QED BY <2>2, <2>4, <3>1, <4>2, <4>3 DEF Moved
    <3>2. CASE i # k
      BY <1>1, <2>4, <3>2 DEF Moved
    <3> QED BY <3>1, <3>2
  <2>6. new[k].status = "pending" /\ new[k].msgs = st[k].msgs \cup msgs
    BY <1>1, <2>1, <2>2, <2>4
  <2>7. \A i \in Ids : i # k => new[i] = kept[i] /\ new[i].msgs = st[i].msgs
    BY <1>1, <2>4
  <2>8. k \in Ids /\ k \in live
    BY <2>1
  <2> HIDE DEF r
  <2> QED BY <2>4, <2>5, <2>6, <2>7, <2>8 DEF new, kept, live
<1>6. CASE live = {}
  <2> DEFINE k == Oldest(free)
             q == NewRequest(msgs)
  <2>1. PICK i \in Ids : st[i].status = "absent"
    BY <1>6 DEF CanRequest, live, kept
  <2>2. kept[i].status = "absent"
    BY <1>1, <2>1 DEF Stays, Expires, TakenBack
  <2>3. k \in free /\ k \in Ids
    BY <1>3, <2>2, OldestIs
  <2>4. st[k].status = "absent" /\ st[k] = NoRequest /\ st[k].msgs = {}
    <3>1. kept[k].status = "absent"
      BY <2>3
    <3>2. st[k].status = "absent"
      BY <1>1, <2>3, <3>1 DEF Stays, Expires, TakenBack
    <3> HIDE DEF k
    <3>3. st[k] = NoRequest
      BY <2>3, <3>2
    <3> QED BY <3>2, <3>3 DEF NoRequest
  <2>5. q \in Request /\ q.status = "pending" /\ q.claim = 0 /\ q.msgs = msgs /\ q.lapsed = FALSE
    BY DEF NewRequest, Request, RequestStatus
  <2>6. new = [kept EXCEPT ![k] = q]
    BY <1>4, <1>6
  <2> HIDE DEF k, q, free
  <2>7. /\ new \in [Ids -> Request] /\ new[k] = q
        /\ \A j \in Ids : j # k => new[j] = kept[j]
    BY <1>2, <2>3, <2>5, <2>6
  <2>8. ASSUME NEW j \in Ids PROVE Moved(st[j], new[j]) /\ (new[j].lapsed => st[j].lapsed)
    <3>1. CASE j = k
      BY <2>4, <2>5, <2>7, <3>1 DEF Moved, Opened
    <3>2. CASE j # k
      BY <1>1, <2>7, <3>2 DEF Moved
    <3> QED BY <3>1, <3>2
  <2>9. new[k].status = "pending" /\ new[k].msgs = st[k].msgs \cup msgs
    BY <2>4, <2>5, <2>7
  <2>10. \A j \in Ids : j # k => new[j] = kept[j] /\ new[j].msgs = st[j].msgs
    BY <1>1, <2>7
  <2>11. \A j \in live : j = k
    BY <1>6
  <2> QED BY <2>3, <2>7, <2>8, <2>9, <2>10, <2>11 DEF new, kept, live
<1> QED BY <1>5, <1>6

LEMMA ClaimedMoves ==
  ASSUME NEW st \in [Ids -> Request], NEW k \in Ids, NEW c \in Nat, NEW msgs \in SUBSET Messages
  PROVE  /\ ClaimedFor(st, k, c, msgs) \in [Ids -> Request]
         /\ ClaimedFor(st, k, c, msgs)[k].status = "claimed"
         /\ ClaimedFor(st, k, c, msgs)[k].claim = c
         /\ ClaimedFor(st, k, c, msgs)[k].promptMsgs = msgs
         /\ ClaimedFor(st, k, c, msgs)[k].msgs = st[k].msgs
         /\ ~ClaimedFor(st, k, c, msgs)[k].lapsed
         /\ \A i \in Ids : i # k => ClaimedFor(st, k, c, msgs)[i] = st[i]
<1> DEFINE r == st[k]
           q == [r EXCEPT !.status = "claimed", !.claim = c, !.promptMsgs = msgs, !.lapsed = FALSE]
<1>1. /\ q \in Request /\ q.status = "claimed" /\ q.claim = c /\ q.promptMsgs = msgs
      /\ q.msgs = r.msgs /\ q.lapsed = FALSE
  <2>1. r \in Request
    OBVIOUS
  <2> HIDE DEF r
  <2> QED BY <2>1 DEF Request, RequestStatus
<1>2. ClaimedFor(st, k, c, msgs) = [st EXCEPT ![k] = q]
  BY DEF ClaimedFor
<1> HIDE DEF q
<1> QED BY <1>1, <1>2

LEMMA TransitionedMoves ==
  ASSUME NEW st \in [Ids -> Request], NEW k \in Ids, NEW to \in RequestStatus
  PROVE  /\ Transitioned(st, k, to) \in [Ids -> Request]
         /\ Transitioned(st, k, to)[k].status = to
         /\ \A i \in Ids : LET q == Transitioned(st, k, to)[i]
                           IN  /\ q.claim = st[i].claim /\ q.promptMsgs = st[i].promptMsgs
                               /\ q.msgs = st[i].msgs /\ q.lapsed = st[i].lapsed
                               /\ i # k => Moved(st[i], q) /\ q.status = st[i].status
<1> DEFINE new == Transitioned(st, k, to)
<1>1. ASSUME NEW i \in Ids
      PROVE  /\ new[i] \in Request
             /\ new[i].claim = st[i].claim /\ new[i].promptMsgs = st[i].promptMsgs
             /\ new[i].msgs = st[i].msgs /\ new[i].lapsed = st[i].lapsed
             /\ i = k => new[i].status = to
             /\ i # k => Moved(st[i], new[i]) /\ new[i].status = st[i].status
  <2> DEFINE r == st[i]
             q == new[i]
  <2>0. r \in Request
    OBVIOUS
  <2>1. q = IF i = k THEN [r EXCEPT !.status = to, !.age = 0]
            ELSE IF r.status \in {"submitted", "started"} THEN [r EXCEPT !.age = r.age + 1]
            ELSE r
    BY DEF Transitioned
  <2> HIDE DEF r, q, new
  <2>2. CASE i = k
    <3>1. q = [r EXCEPT !.status = to, !.age = 0]
      BY <2>1, <2>2
    <3>2. /\ q \in Request /\ q.status = to /\ q.claim = r.claim /\ q.promptMsgs = r.promptMsgs
          /\ q.msgs = r.msgs /\ q.lapsed = r.lapsed
      BY <2>0, <3>1 DEF Request
    <3> QED BY <2>2, <3>2 DEF r, q
  <2>3. CASE i # k /\ r.status \in {"submitted", "started"}
    <3>1. q = [r EXCEPT !.age = r.age + 1]
      BY <2>1, <2>3
    <3>2. /\ q \in Request /\ q.status = r.status /\ q.claim = r.claim
          /\ q.promptMsgs = r.promptMsgs /\ q.msgs = r.msgs /\ q.lapsed = r.lapsed
      BY <2>0, <3>1 DEF Request
    <3> QED BY <2>3, <3>2 DEF r, q, Moved, Stays
  <2>4. CASE i # k /\ r.status \notin {"submitted", "started"}
    <3>1. q = r
      BY <2>1, <2>4
    <3> QED BY <2>0, <2>4, <3>1 DEF r, q, Moved
  <2> QED BY <2>2, <2>3, <2>4
<1>2. new \in [Ids -> Request]
  BY <1>1 DEF Transitioned
<1> QED BY <1>1, <1>2

\* A request grows old, or its claim does.
LEMMA AgedMoves ==
  ASSUME NEW st \in [Ids -> Request], NEW k \in Ids, st[k].status # "absent", NEW new,
         \/ new = [st EXCEPT ![k].due = TRUE]
         \/ new = [st EXCEPT ![k].lapsed = TRUE]
  PROVE  /\ new \in [Ids -> Request]
         /\ \A i \in Ids : /\ Moved(st[i], new[i]) /\ new[i].status = st[i].status
                           /\ new[i].claim = st[i].claim /\ new[i].msgs = st[i].msgs
                           /\ i # k => new[i] = st[i]
<1> DEFINE r == st[k]
<1>0. r \in Request /\ r.status # "absent"
  OBVIOUS
<1>1. ASSUME NEW q \in Request, new = [st EXCEPT ![k] = q], q.status = r.status,
             q.claim = r.claim, q.promptMsgs = r.promptMsgs, q.msgs = r.msgs
      PROVE  /\ new \in [Ids -> Request]
             /\ \A i \in Ids : /\ Moved(st[i], new[i]) /\ new[i].status = st[i].status
                               /\ new[i].claim = st[i].claim /\ new[i].msgs = st[i].msgs
                               /\ i # k => new[i] = st[i]
  <2>1. /\ new \in [Ids -> Request] /\ new[k] = q /\ \A i \in Ids : i # k => new[i] = st[i]
    BY <1>1
  <2>2. Moved(r, q)
    BY <1>0, <1>1 DEF Moved, Stays
  <2>3. \A i \in Ids : i # k => Moved(st[i], new[i])
    BY <2>1 DEF Moved
  <2> QED BY <1>1, <2>1, <2>2, <2>3
<1>2. CASE new = [st EXCEPT ![k].due = TRUE]
  <2> DEFINE q == [r EXCEPT !.due = TRUE]
  <2>1. new = [st EXCEPT ![k] = q]
    BY <1>2
  <2> HIDE DEF r
  <2>2. /\ q \in Request /\ q.status = r.status /\ q.claim = r.claim
        /\ q.promptMsgs = r.promptMsgs /\ q.msgs = r.msgs
    BY <1>0 DEF Request
  <2> HIDE DEF q
  <2> QED BY <1>1, <2>1, <2>2
<1>3. CASE new = [st EXCEPT ![k].lapsed = TRUE]
  <2> DEFINE q == [r EXCEPT !.lapsed = TRUE]
  <2>1. new = [st EXCEPT ![k] = q]
    BY <1>3
  <2> HIDE DEF r
  <2>2. /\ q \in Request /\ q.status = r.status /\ q.claim = r.claim
        /\ q.promptMsgs = r.promptMsgs /\ q.msgs = r.msgs
    BY <1>0 DEF Request
  <2> HIDE DEF q
  <2> QED BY <1>1, <2>1, <2>2
<1> QED BY <1>2, <1>3

-----------------------------------------------------------------------------
(***************************************************************************)
(* What keeps the parts of the invariant.                                  *)
(***************************************************************************)

LEMMA RequestShapeKept ==
  ASSUME RequestShape,
         \A i \in Ids : Moved(store[i], store'[i]) \/ store'[i].status \notin {"absent", "pending"}
  PROVE  RequestShape'
<1> SUFFICES ASSUME NEW i \in Ids
             PROVE  /\ store'[i].status = "absent" => store'[i] = NoRequest
                    /\ store'[i].status = "pending" => store'[i].claim = 0
  BY DEF RequestShape
<1>1. /\ store[i].status = "absent" => store[i] = NoRequest
      /\ store[i].status = "pending" => store[i].claim = 0
  BY DEF RequestShape
<1>2. Moved(store[i], store'[i]) \/ store'[i].status \notin {"absent", "pending"}
  OBVIOUS
<1> QED BY <1>1, <1>2 DEF Moved, Stays, Expires, TakenBack, Opened

\* The pump goes on with its prompt, or stops.
LEMMA OwnClaimKept ==
  ASSUME TypeOK, PumpShape, OwnClaim, worker'.incarnation = worker.incarnation,
         pump'.pc \in Claiming =>
           /\ pump.pc \in Claiming /\ pump'.id = pump.id /\ pump'.todo = pump.todo
           /\ Moved(store[pump.id], store'[pump.id]) \/ store'[pump.id].claim # worker.incarnation
  PROVE  OwnClaim'
<1> SUFFICES ASSUME pump'.pc \in Claiming, store'[pump'.id].claim = worker'.incarnation
             PROVE  /\ store'[pump'.id].status \in {"claimed", "expired"}
                    /\ store'[pump'.id].promptMsgs = pump'.todo
  BY DEF OwnClaim
<1> DEFINE r == store[pump.id]
           q == store'[pump.id]
<1>1. /\ pump.pc \in Claiming /\ pump'.id = pump.id /\ pump'.todo = pump.todo /\ Moved(r, q)
      /\ q.claim = worker.incarnation
  OBVIOUS
<1>2. worker.incarnation # 0
  BY <1>1 DEF PumpShape, IdlePump, Claiming, InFlight
<1>3. r.claim = worker.incarnation => r.status \in {"claimed", "expired"} /\ r.promptMsgs = pump.todo
  BY <1>1 DEF OwnClaim
<1> HIDE DEF r, q
<1>4. /\ r.claim = worker.incarnation
      /\ q.status \in {"claimed", "expired"} /\ q.promptMsgs = pump.todo
  BY <1>1, <1>2, <1>3 DEF Moved, Stays, Expires, TakenBack, Opened
<1> QED BY <1>1, <1>4 DEF q

Answering == {"sending", "checkSubmitted", "writeSubmitted"}

LEMMA PromptKept ==
  ASSUME PromptOfPump,
         pump'.pc \in Claiming \cup {"claim"} =>
           pump.pc \in Claiming \cup {"claim"} /\ pump'.todo = pump.todo,
         pump'.pc \in Composed => /\ pump.pc \in Composed /\ pump'.todo = pump.todo
                                  /\ delivered' = delivered /\ read' = read,
         pump'.pc \in Answering => pump.pc \in Answering /\ pump'.todo = pump.todo,
         pump'.pc \in Answering => \A m \in pump.todo : prompted[m] > 0 => prompted'[m] > 0
  PROVE  PromptOfPump'
BY DEF PromptOfPump, Answering

LEMMA SubmittedKept ==
  ASSUME SubmittedWasPrompted, TypeOK,
         \A m \in Messages : prompted[m] > 0 => prompted'[m] > 0,
         \A i \in Ids :
           \/ Moved(store[i], store'[i])
           \/ store'[i].status \notin {"submitted", "started", "completed"}
           \/ /\ store[i].status \in {"submitted", "started", "completed"}
              /\ store'[i].promptMsgs = store[i].promptMsgs
           \/ /\ store'[i].promptMsgs # {} /\ store'[i].promptMsgs \subseteq Messages
              /\ \A m \in store'[i].promptMsgs : prompted'[m] > 0
  PROVE  SubmittedWasPrompted'
<1> SUFFICES ASSUME NEW i \in Ids, store'[i].status \in {"submitted", "started", "completed"}
             PROVE  /\ store'[i].promptMsgs # {}
                    /\ \A m \in store'[i].promptMsgs : prompted'[m] > 0
  BY DEF SubmittedWasPrompted
<1>1. store[i].promptMsgs \subseteq Messages
  BY DEF TypeOK, Request
<1>2. store[i].status \in {"submitted", "started", "completed"} =>
        /\ store[i].promptMsgs # {}
        /\ \A m \in store[i].promptMsgs : prompted[m] > 0
  BY DEF SubmittedWasPrompted
<1>3. CASE Moved(store[i], store'[i])
  <2>1. /\ store[i].status \in {"submitted", "started", "completed"}
        /\ store'[i].promptMsgs = store[i].promptMsgs
    BY <1>3 DEF Moved, Stays, Expires, TakenBack, Opened
  <2> QED BY <1>1, <1>2, <2>1
<1>4. CASE /\ store[i].status \in {"submitted", "started", "completed"}
           /\ store'[i].promptMsgs = store[i].promptMsgs
  BY <1>1, <1>2, <1>4
<1> QED BY <1>3, <1>4

LEMMA OnlyOwnKept ==
  ASSUME OnlyOwnClaims, trouble \subseteq trouble',
         trouble' \cap {"lapse", "restart"} = {} =>
           /\ worker'.incarnation = worker.incarnation /\ worker'.up = worker.up
           /\ \A i \in Ids : store'[i].status = "claimed" =>
                /\ store[i].status = "claimed" /\ store'[i].claim = store[i].claim
                /\ store'[i].lapsed => store[i].lapsed
                /\ pump.pc \in Claiming /\ pump.id = i => pump'.pc \in Claiming /\ pump'.id = i
           /\ \A i \in Ids : store'[i].status = "pending" => store[i].status = "pending"
  PROVE  OnlyOwnClaims'
<1> SUFFICES ASSUME trouble' \cap {"lapse", "restart"} = {}
             PROVE  /\ ~worker'.up => worker'.incarnation = 0
                    /\ \A i \in Ids : store'[i].status = "claimed" =>
                         /\ pump'.pc \in Claiming /\ pump'.id = i
                         /\ store'[i].claim = worker'.incarnation /\ ~store'[i].lapsed
                    /\ \A i, j \in PendingIds(store') : i = j
  BY DEF OnlyOwnClaims
<1>1. trouble \cap {"lapse", "restart"} = {}
  OBVIOUS
<1>2. /\ ~worker.up => worker.incarnation = 0
      /\ \A i \in Ids : store[i].status = "claimed" =>
           /\ pump.pc \in Claiming /\ pump.id = i
           /\ store[i].claim = worker.incarnation /\ ~store[i].lapsed
      /\ \A i, j \in PendingIds(store) : i = j
  BY <1>1 DEF OnlyOwnClaims
<1>3. ~worker'.up => worker'.incarnation = 0
  BY <1>2
<1>4. ASSUME NEW i \in Ids, store'[i].status = "claimed"
      PROVE  /\ pump'.pc \in Claiming /\ pump'.id = i
             /\ store'[i].claim = worker'.incarnation /\ ~store'[i].lapsed
  BY <1>2, <1>4
<1>5. ASSUME NEW i \in PendingIds(store'), NEW j \in PendingIds(store') PROVE i = j
  BY <1>2 DEF PendingIds
<1> QED BY <1>3, <1>4, <1>5

LEMMA OneRequestKept ==
  ASSUME OneRequestEach, trouble \subseteq trouble',
         trouble' \cap {"lapse", "sendFailed", "restart", "rerequest"} = {} =>
           /\ inbox \subseteq inbox' /\ prompted' = prompted
           /\ \A i \in Ids : /\ store'[i].msgs = store[i].msgs
                             /\ store[i].status # "pending" => store'[i].status # "pending"
           /\ \A s \in Senders : Asking(s)' \subseteq Asking(s)
           /\ pump'.pc \in Composed => /\ pump.pc \in Composed /\ pump'.todo = pump.todo
                                       /\ pump'.pc = "claim" \/ pump.pc # "claim"
  PROVE  OneRequestEach'
<1> SUFFICES ASSUME trouble' \cap {"lapse", "sendFailed", "restart", "rerequest"} = {}
    PROVE /\ \A i \in Ids : store'[i].msgs \subseteq inbox'
          /\ \A i, j \in Ids : \A m \in store'[i].msgs \cap store'[j].msgs : i = j
          /\ \A s \in Senders :
               /\ Asking(s)' \subseteq inbox'
               /\ \A i \in Ids : Asking(s)' \cap store'[i].msgs = {}
               /\ \A r \in Senders : Asking(s)' \cap Asking(r)' # {} => s = r
          /\ \A m \in Messages :
               /\ prompted'[m] < 2
               /\ prompted'[m] > 0 => \E i \in Ids : m \in store'[i].msgs /\ store'[i].status # "pending"
          /\ pump'.pc \in Composed =>
               \A m \in pump'.todo :
                 /\ prompted'[m] = 0
                 /\ \E i \in Ids : /\ m \in store'[i].msgs
                                   /\ pump'.pc = "claim" \/ store'[i].status # "pending"
  BY DEF OneRequestEach
<1>1. trouble \cap {"lapse", "sendFailed", "restart", "rerequest"} = {}
  OBVIOUS
<1>2. /\ \A i \in Ids : store[i].msgs \subseteq inbox
      /\ \A i, j \in Ids : \A m \in store[i].msgs \cap store[j].msgs : i = j
      /\ \A s \in Senders :
           /\ Asking(s) \subseteq inbox
           /\ \A i \in Ids : Asking(s) \cap store[i].msgs = {}
           /\ \A r \in Senders : Asking(s) \cap Asking(r) # {} => s = r
      /\ \A m \in Messages :
           /\ prompted[m] < 2
           /\ prompted[m] > 0 => \E i \in Ids : m \in store[i].msgs /\ store[i].status # "pending"
      /\ pump.pc \in Composed =>
           \A m \in pump.todo :
             /\ prompted[m] = 0
             /\ \E i \in Ids : m \in store[i].msgs /\ (pump.pc = "claim" \/ store[i].status # "pending")
  BY <1>1 DEF OneRequestEach
<1>3. /\ inbox \subseteq inbox' /\ prompted' = prompted
      /\ \A i \in Ids : /\ store'[i].msgs = store[i].msgs
                        /\ store[i].status # "pending" => store'[i].status # "pending"
      /\ \A s \in Senders : Asking(s)' \subseteq Asking(s)
      /\ pump'.pc \in Composed => /\ pump.pc \in Composed /\ pump'.todo = pump.todo
                                  /\ pump'.pc = "claim" \/ pump.pc # "claim"
  OBVIOUS
<1>4. \A i, j \in Ids : \A m \in store'[i].msgs \cap store'[j].msgs : i = j
  BY <1>2, <1>3
<1>5. ASSUME NEW s \in Senders
      PROVE  /\ Asking(s)' \subseteq inbox'
             /\ \A i \in Ids : Asking(s)' \cap store'[i].msgs = {}
             /\ \A r \in Senders : Asking(s)' \cap Asking(r)' # {} => s = r
  <2>1. Asking(s)' \subseteq inbox' /\ \A i \in Ids : Asking(s)' \cap store'[i].msgs = {}
    BY <1>2, <1>3
  <2>2. ASSUME NEW r \in Senders, Asking(s)' \cap Asking(r)' # {} PROVE s = r
    <3>1. Asking(s) \cap Asking(r) # {}
      BY <1>3, <2>2
    <3> QED BY <1>2, <3>1
  <2> QED BY <2>1, <2>2
<1>6. \A m \in Messages :
        /\ prompted'[m] < 2
        /\ prompted'[m] > 0 => \E i \in Ids : m \in store'[i].msgs /\ store'[i].status # "pending"
  BY <1>2, <1>3
<1>7. ASSUME pump'.pc \in Composed, NEW m \in pump'.todo
      PROVE  /\ prompted'[m] = 0
             /\ \E i \in Ids : m \in store'[i].msgs /\ (pump'.pc = "claim" \/ store'[i].status # "pending")
  <2>1. PICK i \in Ids : m \in store[i].msgs /\ (pump.pc = "claim" \/ store[i].status # "pending")
    BY <1>2, <1>3, <1>7
  <2>2. prompted'[m] = 0
    BY <1>2, <1>3, <1>7
  <2>3. m \in store'[i].msgs /\ (pump'.pc = "claim" \/ store'[i].status # "pending")
    BY <1>3, <1>7, <2>1
  <2> QED BY <2>2, <2>3
<1>8. \A i \in Ids : store'[i].msgs \subseteq inbox'
  BY <1>2, <1>3
<1> QED BY <1>4, <1>5, <1>6, <1>7, <1>8

-----------------------------------------------------------------------------
(***************************************************************************)
(* Steps that leave the store and the history alone.                       *)
(***************************************************************************)

LEMMA Passes ==
  ASSUME IInv, TypeOK', PumpShape',
         store' = store, inbox' = inbox, prompted' = prompted, trouble \subseteq trouble',
         worker'.incarnation = worker.incarnation, worker'.up = worker.up,
         trouble' \cap {"lapse", "sendFailed", "restart", "rerequest"} = {} =>
           \A s \in Senders : Asking(s)' \subseteq Asking(s),
         pump'.pc \in Claiming =>
           pump.pc \in Claiming /\ pump'.id = pump.id /\ pump'.todo = pump.todo,
         pump.pc \in Claiming /\ pump'.pc \notin Claiming =>
           store[pump.id].status # "claimed" \/ store[pump.id].claim # worker.incarnation,
         pump'.pc \in Composed => /\ pump.pc \in Composed /\ pump'.todo = pump.todo
                                  /\ delivered' = delivered /\ read' = read
                                  /\ pump'.pc = "claim" \/ pump.pc # "claim",
         pump'.pc \in Answering => pump.pc \in Answering /\ pump'.todo = pump.todo
  PROVE  IInv'
<1>0. /\ TypeOK /\ PumpShape /\ RequestShape /\ OwnClaim /\ PromptOfPump
      /\ SubmittedWasPrompted /\ OnlyOwnClaims /\ OneRequestEach
  BY DEF IInv
<1>1. \A i \in Ids : Moved(store[i], store'[i])
  BY DEF Moved
<1>2. pump.pc \in Claiming => pump.id \in Ids
  BY <1>0 DEF PumpShape, Claiming
<1>3. RequestShape'
  BY <1>0, <1>1, RequestShapeKept
<1>4. OwnClaim'
  BY <1>0, <1>1, <1>2, OwnClaimKept
<1>5. PromptOfPump'
  <2>1. pump'.pc \in Composed \ {"claim"} => pump'.pc \in Claiming
    BY DEF Composed, Claiming, InFlight
  <2>2. pump.pc \in Composed => pump.pc \in Claiming \cup {"claim"}
    BY DEF Composed, Claiming, InFlight
  <2>3. "claim" \in Composed
    BY DEF Composed
  <2>4. pump'.pc \in Claiming \cup {"claim"} =>
          pump.pc \in Claiming \cup {"claim"} /\ pump'.todo = pump.todo
    BY <2>2, <2>3
  <2> QED BY <1>0, <2>4, PromptKept
<1>6. SubmittedWasPrompted'
  BY <1>0, <1>1, SubmittedKept
<1>7. OnlyOwnClaims'
  <2>1. ASSUME trouble' \cap {"lapse", "restart"} = {}, NEW i \in Ids, store[i].status = "claimed",
               pump.pc \in Claiming, pump.id = i
        PROVE  pump'.pc \in Claiming /\ pump'.id = i
    <3>1. store[i].claim = worker.incarnation
      BY <1>0, <2>1 DEF OnlyOwnClaims
    <3> QED BY <2>1, <3>1
  <2> QED BY <1>0, <2>1, OnlyOwnKept
<1>8. OneRequestEach'
  BY <1>0, OneRequestKept
<1> QED BY <1>3, <1>4, <1>5, <1>6, <1>7, <1>8 DEF IInv

\* The statuses are closed under the events.
LEMMA FsmType ==
  ASSUME NEW x \in WorkerStatus
  PROVE  /\ BridgeLeasePublished(x) \in WorkerStatus /\ DeliveryRequested(x) \in WorkerStatus
         /\ DeliverySubmitted(x) \in WorkerStatus /\ DeliveryFailed(x) \in WorkerStatus
         /\ SessionShutdown(x) \in WorkerStatus
         /\ AgentStarted \in WorkerStatus /\ NativeBusy \in WorkerStatus
         /\ ManualRecovered \in WorkerStatus /\ SpawnReserved \in WorkerStatus /\ "idle" \in WorkerStatus
         /\ \A b, p \in BOOLEAN : AgentEnded(b, p) \in WorkerStatus
BY DEF WorkerStatus, BridgeLeasePublished, DeliveryRequested, DeliverySubmitted, DeliveryFailed,
       SessionShutdown, AgentStarted, NativeBusy, ManualRecovered, SpawnReserved, AgentEnded,
       RunningPreservingStatus

\* A step of a sender beside its request.
LEMMA SenderKeeps ==
  ASSUME IInv, sender' \in [Senders -> SenderState], status' \in WorkerStatus,
         trouble \subseteq trouble', trouble' \subseteq Trouble, faults' \in 0 .. MaxFaults,
         UNCHANGED <<store, mailbox, senderUnchanged>>,
         trouble' \cap {"lapse", "sendFailed", "restart", "rerequest"} = {} =>
           \A s \in Senders : Asking(s)' \subseteq Asking(s)
  PROVE  IInv'
<1>0. TypeOK /\ PumpShape
  BY DEF IInv
<1>1. /\ store' = store /\ inbox' = inbox /\ delivered' = delivered /\ read' = read
      /\ lease' = lease /\ worker' = worker /\ pump' = pump /\ agent' = agent
      /\ prompted' = prompted /\ turns' = turns
  BY DEF mailbox, senderUnchanged
<1>2. leaseFresh' = leaseFresh
  BY DEF senderUnchanged
<1>3. TypeOK'
  <2>1. leaseFresh' \in BOOLEAN
    BY <1>0, <1>2 DEF TypeOK
  <2> QED BY <1>0, <1>1, <2>1 DEF TypeOK
<1>4. PumpShape'
  BY <1>0, <1>1 DEF PumpShape
<1> QED BY <1>1, <1>3, <1>4, Passes

LEMMA RerequestKeeps ==
  ASSUME IInv, NEW s \in Senders, NEW m \in Messages, Rerequest(s, m)
  PROVE  IInv'
<1>0. TypeOK
  BY DEF IInv
<1>1. sender' \in [Senders -> SenderState]
  BY <1>0 DEF Rerequest, TypeOK, SenderState, IdleSender, WorkerStatus
<1>2. status' \in WorkerStatus
  BY <1>0 DEF Rerequest, TypeOK
<1>3. /\ trouble \subseteq trouble' /\ trouble' \subseteq Trouble /\ faults' \in 0 .. MaxFaults
      /\ "rerequest" \in trouble'
  BY <1>0, BoundsType DEF Rerequest, Fault, TypeOK, Trouble
<1> QED BY <1>1, <1>2, <1>3, SenderKeeps DEF Rerequest

LEMMA SenderStepKeeps ==
  ASSUME IInv, NEW s \in Senders,
         \/ ReadSnapshot(s) \/ PatchStatus(s) \/ MarkBridgeWorkRequested(s)
         \/ CheckBridge(s) \/ MarkBridgeUnavailable(s)
  PROVE  IInv'
<1>0. TypeOK
  BY DEF IInv
<1>t. sender \in [Senders -> SenderState] /\ status \in WorkerStatus /\ sender[s] \in SenderState
  BY <1>0 DEF TypeOK
<1>s. sender[s].seen \in WorkerStatus
  BY <1>t DEF SenderState
<1>1. /\ \/ sender' = [sender EXCEPT ![s] = IdleSender]
         \/ sender' = [sender EXCEPT ![s].pc = "patch", ![s].seen = status] /\ sender[s].pc = "snapshot"
         \/ sender' = [sender EXCEPT ![s].pc = "request"] /\ sender[s].pc = "patch"
         \/ \E pc \in {"lease", "unavailable"} : sender' = [sender EXCEPT ![s].pc = pc]
      /\ UNCHANGED <<store, mailbox, trouble, faults, senderUnchanged>>
  BY DEF ReadSnapshot, PatchStatus, MarkBridgeWorkRequested, CheckBridge, MarkBridgeUnavailable, Advance
<1>2. status' \in WorkerStatus
  BY <1>t, <1>s, FsmType
  DEF ReadSnapshot, PatchStatus, MarkBridgeWorkRequested, CheckBridge, MarkBridgeUnavailable
<1>3. /\ sender' \in [Senders -> SenderState]
      /\ \A r \in Senders : Asking(r)' \subseteq Asking(r)
  <2>1. CASE sender' = [sender EXCEPT ![s] = IdleSender]
    <3>1. IdleSender \in SenderState /\ IdleSender.pc = "idle"
      BY DEF IdleSender, SenderState, WorkerStatus
    <3> QED BY <1>t, <2>1, <3>1 DEF Asking
  <2>2. CASE sender' = [sender EXCEPT ![s].pc = "patch", ![s].seen = status] /\ sender[s].pc = "snapshot"
    <3>1. sender' = [sender EXCEPT ![s] = [sender[s] EXCEPT !.pc = "patch", !.seen = status]]
      BY <1>t, <2>2
    <3> QED BY <1>t, <2>2, <3>1 DEF Asking, SenderState
  <2>3. CASE sender' = [sender EXCEPT ![s].pc = "request"] /\ sender[s].pc = "patch"
    BY <1>t, <2>3 DEF Asking, SenderState
  <2>4. CASE \E pc \in {"lease", "unavailable"} : sender' = [sender EXCEPT ![s].pc = pc]
    BY <1>t, <2>4 DEF Asking, SenderState
  <2> QED BY <1>1, <2>1, <2>2, <2>3, <2>4
<1>4. trouble' = trouble /\ faults' = faults
  BY <1>1
<1> QED BY <1>0, <1>1, <1>2, <1>3, <1>4, SenderKeeps DEF TypeOK

\* A message arrives, which no request and no other sender has.
LEMMA SendKeeps ==
  ASSUME IInv, NEW s \in Senders, NEW m \in Messages, Send(s, m)
  PROVE  IInv'
<1>0. /\ TypeOK /\ PumpShape /\ RequestShape /\ OwnClaim /\ PromptOfPump
      /\ SubmittedWasPrompted /\ OnlyOwnClaims /\ OneRequestEach
  BY DEF IInv
<1>1. /\ store' = store /\ status' = status /\ delivered' = delivered /\ read' = read
      /\ lease' = lease /\ worker' = worker /\ pump' = pump /\ agent' = agent
      /\ prompted' = prompted /\ turns' = turns /\ trouble' = trouble /\ faults' = faults
      /\ inbox' = inbox \cup {m} /\ m \notin inbox /\ sender[s].pc = "idle"
  BY DEF Send, senderUnchanged
<1>2. leaseFresh' = leaseFresh
  BY DEF Send, senderUnchanged
<1> DEFINE q == [IdleSender EXCEPT !.pc = "snapshot", !.msgs = {m}]
<1>3. q \in SenderState /\ q.pc = "snapshot" /\ q.msgs = {m}
  BY DEF IdleSender, SenderState, WorkerStatus
<1>4. sender' = [sender EXCEPT ![s] = q]
  BY DEF Send
<1> HIDE DEF q
<1>5. /\ sender' \in [Senders -> SenderState]
      /\ Asking(s)' = {m} /\ \A r \in Senders : r # s => Asking(r)' = Asking(r)
  BY <1>0, <1>3, <1>4 DEF TypeOK, Asking
<1>6. TypeOK'
  <2>1. leaseFresh' \in BOOLEAN
    BY <1>0, <1>2 DEF TypeOK
  <2> QED BY <1>0, <1>1, <1>5, <2>1 DEF TypeOK
<1>7. PumpShape' /\ RequestShape' /\ OwnClaim' /\ PromptOfPump' /\ SubmittedWasPrompted'
  BY <1>0, <1>1 DEF PumpShape, RequestShape, OwnClaim, PromptOfPump, SubmittedWasPrompted
<1>8. OnlyOwnClaims'
  BY <1>0, <1>1 DEF OnlyOwnClaims, PendingIds
<1>9. OneRequestEach'
  <2> SUFFICES ASSUME trouble \cap {"lapse", "sendFailed", "restart", "rerequest"} = {}
        PROVE /\ \A i \in Ids : store[i].msgs \subseteq inbox'
              /\ \A i, j \in Ids : \A n \in store[i].msgs \cap store[j].msgs : i = j
              /\ \A r \in Senders :
                   /\ Asking(r)' \subseteq inbox'
                   /\ \A i \in Ids : Asking(r)' \cap store[i].msgs = {}
                   /\ \A x \in Senders : Asking(r)' \cap Asking(x)' # {} => r = x
              /\ \A n \in Messages :
                   /\ prompted[n] < 2
                   /\ prompted[n] > 0 => \E i \in Ids : n \in store[i].msgs /\ store[i].status # "pending"
              /\ pump.pc \in Composed =>
                   \A n \in pump.todo :
                     /\ prompted[n] = 0
                     /\ \E i \in Ids : n \in store[i].msgs /\ (pump.pc = "claim" \/ store[i].status # "pending")
    BY <1>1 DEF OneRequestEach
  <2>1. /\ \A i \in Ids : store[i].msgs \subseteq inbox
        /\ \A i, j \in Ids : \A n \in store[i].msgs \cap store[j].msgs : i = j
        /\ \A r \in Senders :
             /\ Asking(r) \subseteq inbox
             /\ \A i \in Ids : Asking(r) \cap store[i].msgs = {}
             /\ \A x \in Senders : Asking(r) \cap Asking(x) # {} => r = x
        /\ \A n \in Messages :
             /\ prompted[n] < 2
             /\ prompted[n] > 0 => \E i \in Ids : n \in store[i].msgs /\ store[i].status # "pending"
        /\ pump.pc \in Composed =>
             \A n \in pump.todo :
               /\ prompted[n] = 0
               /\ \E i \in Ids : n \in store[i].msgs /\ (pump.pc = "claim" \/ store[i].status # "pending")
    BY <1>0 DEF OneRequestEach
  <2>2. \A i \in Ids : store[i].msgs \subseteq inbox' /\ m \notin store[i].msgs
    BY <1>1, <2>1
  <2>3. ASSUME NEW r \in Senders
        PROVE  /\ Asking(r)' \subseteq inbox' /\ \A i \in Ids : Asking(r)' \cap store[i].msgs = {}
               /\ \A x \in Senders : Asking(r)' \cap Asking(x)' # {} => r = x
    <3>1. \A x \in Senders : m \notin Asking(x)
      BY <1>1, <2>1
    <3>2. /\ Asking(r)' \subseteq inbox' /\ \A i \in Ids : Asking(r)' \cap store[i].msgs = {}
      BY <1>1, <1>5, <2>1, <2>2
    <3>3. ASSUME NEW x \in Senders, Asking(r)' \cap Asking(x)' # {} PROVE r = x
      <4>1. CASE r = s /\ x # s
        <5>1. Asking(r)' = {m} /\ Asking(x)' = Asking(x)
          BY <1>5, <4>1
        <5> QED BY <3>1, <3>3, <5>1
      <4>2. CASE r # s /\ x = s
        <5>1. Asking(r)' = Asking(r) /\ Asking(x)' = {m}
          BY <1>5, <4>2
        <5> QED BY <3>1, <3>3, <5>1
      <4>3. CASE r # s /\ x # s
        <5>1. Asking(r)' = Asking(r) /\ Asking(x)' = Asking(x)
          BY <1>5, <4>3
        <5> QED BY <2>1, <3>3, <5>1
      <4> QED BY <4>1, <4>2, <4>3
    <3> QED BY <3>2, <3>3
  <2> QED BY <2>1, <2>2, <2>3
<1> QED BY <1>6, <1>7, <1>8, <1>9 DEF IInv

\* A sender puts its messages into the pending request, or opens one.
LEMMA RequestDeliveryKeeps ==
  ASSUME IInv, NEW s \in Senders, RequestDelivery(s)
  PROVE  IInv'
<1>0. /\ TypeOK /\ PumpShape /\ RequestShape /\ OwnClaim /\ PromptOfPump
      /\ SubmittedWasPrompted /\ OnlyOwnClaims /\ OneRequestEach
  BY DEF IInv
<1>1. /\ inbox' = inbox /\ status' = status /\ delivered' = delivered /\ read' = read
      /\ lease' = lease /\ worker' = worker /\ pump' = pump /\ agent' = agent
      /\ prompted' = prompted /\ turns' = turns /\ trouble' = trouble /\ faults' = faults
      /\ sender[s].pc = "request" /\ sender' = [sender EXCEPT ![s].pc = "mark"]
  BY DEF RequestDelivery, mailbox, senderUnchanged, Advance
<1>2. leaseFresh' = leaseFresh
  BY DEF RequestDelivery, senderUnchanged
<1> DEFINE msgs == sender[s].msgs
           kept == Maintained(store)
<1>3. msgs \in SUBSET Messages /\ Asking(s) = msgs
  BY <1>0, <1>1 DEF TypeOK, SenderState, Asking
<1>4. /\ sender' \in [Senders -> SenderState] /\ Asking(s)' = {}
      /\ \A r \in Senders : r # s => Asking(r)' = Asking(r)
  BY <1>0, <1>1 DEF TypeOK, SenderState, Asking
<1>5. /\ store \in [Ids -> Request] /\ CanRequest(store) /\ store' = Requested(store, msgs)
      /\ \A i \in Ids : store[i].status = "absent" => store[i] = NoRequest
  BY <1>0 DEF RequestDelivery, TypeOK, RequestShape
<1> HIDE DEF msgs
<1>6. /\ store' \in [Ids -> Request]
      /\ \A i \in Ids : Moved(store[i], store'[i])
      /\ \A i \in Ids : store'[i].lapsed => store[i].lapsed
  BY <1>3, <1>5, RequestedMoves
<1>7. PICK k \in Ids :
        /\ store'[k].status = "pending" /\ store'[k].msgs = store[k].msgs \cup msgs
        /\ \A i \in Ids : i # k => store'[i] = kept[i] /\ store'[i].msgs = store[i].msgs
        /\ \/ \A i \in PendingIds(kept) : i = k
           \/ k \in PendingIds(kept)
  BY <1>3, <1>5, RequestedMoves
<1>8. \A i \in Ids : /\ kept[i].lapsed => store[i].lapsed
                     /\ \/ kept[i] = store[i] \/ Stays(store[i], kept[i])
                        \/ Expires(store[i], kept[i]) \/ TakenBack(store[i], kept[i])
  BY <1>5, MaintainedMoves
<1> HIDE DEF kept
<1>9. TypeOK'
  <2>1. leaseFresh' \in BOOLEAN
    BY <1>0, <1>2 DEF TypeOK
  <2> QED BY <1>0, <1>1, <1>4, <1>6, <2>1 DEF TypeOK
<1>10. PumpShape' /\ PromptOfPump'
  BY <1>0, <1>1 DEF PumpShape, PromptOfPump
<1>11. RequestShape'
  BY <1>0, <1>6, RequestShapeKept
<1>12. OwnClaim'
  <2>1. pump.pc \in Claiming => pump.id \in Ids
    BY <1>0 DEF PumpShape, Claiming
  <2> QED BY <1>0, <1>1, <1>6, <2>1, OwnClaimKept
<1>13. SubmittedWasPrompted'
  BY <1>0, <1>1, <1>6, SubmittedKept
<1>14. ASSUME trouble \cap {"lapse", "restart"} = {}, NEW i \in Ids
       PROVE  /\ store'[i].status = "claimed" => store[i].status = "claimed" /\ store'[i].claim = store[i].claim
              /\ kept[i].status = "pending" => store[i].status = "pending"
              /\ store[i].status # "pending" => kept[i].status # "pending"
  <2>1. ~TakenBack(store[i], store'[i]) /\ ~TakenBack(store[i], kept[i])
    BY <1>0, <1>14 DEF TakenBack, OnlyOwnClaims
  <2> QED BY <1>6, <1>8, <2>1 DEF Moved, Stays, Expires, Opened, TakenBack
<1>15. OnlyOwnClaims'
  <2> SUFFICES ASSUME trouble \cap {"lapse", "restart"} = {}
      PROVE  /\ ~worker.up => worker.incarnation = 0
             /\ \A i \in Ids : store'[i].status = "claimed" =>
                  /\ pump.pc \in Claiming /\ pump.id = i
                  /\ store'[i].claim = worker.incarnation /\ ~store'[i].lapsed
             /\ \A i, j \in PendingIds(store') : i = j
    BY <1>1 DEF OnlyOwnClaims
  <2>1. /\ ~worker.up => worker.incarnation = 0
        /\ \A i \in Ids : store[i].status = "claimed" =>
             /\ pump.pc \in Claiming /\ pump.id = i
             /\ store[i].claim = worker.incarnation /\ ~store[i].lapsed
        /\ \A i, j \in PendingIds(store) : i = j
    BY <1>0 DEF OnlyOwnClaims
  <2>2. \A i \in Ids : store'[i].status = "claimed" =>
          /\ pump.pc \in Claiming /\ pump.id = i
          /\ store'[i].claim = worker.incarnation /\ ~store'[i].lapsed
    BY <1>6, <1>14, <2>1
  <2>3. ASSUME NEW i \in PendingIds(store') PROVE i = k
    <3>1. CASE \A j \in PendingIds(kept) : j = k
      <4>1. i # k => store'[i] = kept[i] /\ kept[i].status = "pending" /\ i \in Ids
        BY <1>7, <2>3 DEF PendingIds
      <4>2. i # k => i \in PendingIds(kept)
        BY <4>1 DEF PendingIds
      <4> QED BY <3>1, <4>2
    <3>2. CASE k \in PendingIds(kept)
      <4>1. k \in PendingIds(store)
        BY <1>14, <3>2 DEF PendingIds
      <4>2. i # k => i \in Ids /\ kept[i].status = "pending"
        BY <1>7, <2>3 DEF PendingIds
      <4>3. i # k => i \in PendingIds(store)
        BY <1>14, <4>2 DEF PendingIds
      <4> QED BY <2>1, <4>1, <4>3
    <3> QED BY <1>7, <3>1, <3>2
  <2> QED BY <2>1, <2>2, <2>3
<1>16. OneRequestEach'
  <2> SUFFICES ASSUME trouble \cap {"lapse", "sendFailed", "restart", "rerequest"} = {}
        PROVE /\ \A i \in Ids : store'[i].msgs \subseteq inbox
              /\ \A i, j \in Ids : \A n \in store'[i].msgs \cap store'[j].msgs : i = j
              /\ \A r \in Senders :
                   /\ Asking(r)' \subseteq inbox
                   /\ \A i \in Ids : Asking(r)' \cap store'[i].msgs = {}
                   /\ \A x \in Senders : Asking(r)' \cap Asking(x)' # {} => r = x
              /\ \A n \in Messages :
                   /\ prompted[n] < 2
                   /\ prompted[n] > 0 => \E i \in Ids : n \in store'[i].msgs /\ store'[i].status # "pending"
              /\ pump.pc \in Composed =>
                   \A n \in pump.todo :
                     /\ prompted[n] = 0
                     /\ \E i \in Ids : n \in store'[i].msgs /\ (pump.pc = "claim" \/ store'[i].status # "pending")
    BY <1>1 DEF OneRequestEach
  <2>1. /\ \A i \in Ids : store[i].msgs \subseteq inbox
        /\ \A i, j \in Ids : \A n \in store[i].msgs \cap store[j].msgs : i = j
        /\ \A r \in Senders :
             /\ Asking(r) \subseteq inbox
             /\ \A i \in Ids : Asking(r) \cap store[i].msgs = {}
             /\ \A x \in Senders : Asking(r) \cap Asking(x) # {} => r = x
        /\ \A n \in Messages :
             /\ prompted[n] < 2
             /\ prompted[n] > 0 => \E i \in Ids : n \in store[i].msgs /\ store[i].status # "pending"
        /\ pump.pc \in Composed =>
             \A n \in pump.todo :
               /\ prompted[n] = 0
               /\ \E i \in Ids : n \in store[i].msgs /\ (pump.pc = "claim" \/ store[i].status # "pending")
    BY <1>0 DEF OneRequestEach
  <2>2. ASSUME NEW i \in Ids, store[i].msgs # {}, store[i].status # "pending"
        PROVE  store'[i].status # "pending"
    <3>1. store[i].status # "absent"
      BY <1>5, <2>2 DEF NoRequest
    <3>2. ~TakenBack(store[i], store'[i])
      BY <1>0, <2>2 DEF TakenBack, OnlyOwnClaims
    <3> QED BY <1>6, <2>2, <3>1, <3>2 DEF Moved, Stays, Expires, Opened
  <2>3. \A i \in Ids : store[i].msgs \subseteq store'[i].msgs
    BY <1>6 DEF Moved
  <2>4. \A i \in Ids : store'[i].msgs \subseteq inbox
    BY <1>3, <1>7, <2>1
  <2>5. ASSUME NEW i \in Ids, NEW j \in Ids, NEW n \in store'[i].msgs \cap store'[j].msgs
        PROVE  i = j
    <3>1. CASE i = k /\ j # k
      <4>1. n \in store[j].msgs /\ n \notin msgs
        BY <1>3, <1>7, <2>1, <2>5, <3>1
      <4> QED BY <1>7, <2>1, <2>5, <3>1, <4>1
    <3>2. CASE i # k /\ j = k
      <4>1. n \in store[i].msgs /\ n \notin msgs
        BY <1>3, <1>7, <2>1, <2>5, <3>2
      <4> QED BY <1>7, <2>1, <2>5, <3>2, <4>1
    <3>3. CASE i # k /\ j # k
      BY <1>7, <2>1, <2>5, <3>3
    <3> QED BY <3>1, <3>2, <3>3
  <2>6. ASSUME NEW r \in Senders
        PROVE  /\ Asking(r)' \subseteq inbox /\ \A i \in Ids : Asking(r)' \cap store'[i].msgs = {}
               /\ \A x \in Senders : Asking(r)' \cap Asking(x)' # {} => r = x
    <3>1. CASE r = s
      BY <1>4, <3>1
    <3>2. CASE r # s
      <4>1. Asking(r)' = Asking(r) /\ Asking(r) \cap msgs = {}
        BY <1>3, <1>4, <2>1, <3>2
      <4>2. \A i \in Ids : Asking(r) \cap store'[i].msgs = {}
        BY <1>7, <2>1, <4>1
      <4>3. \A x \in Senders : Asking(r)' \cap Asking(x)' # {} => r = x
        BY <1>4, <2>1, <4>1
      <4> QED BY <2>1, <4>1, <4>2, <4>3
    <3> QED BY <3>1, <3>2
  <2>7. \A n \in Messages :
          /\ prompted[n] < 2
          /\ prompted[n] > 0 => \E i \in Ids : n \in store'[i].msgs /\ store'[i].status # "pending"
    BY <2>1, <2>2, <2>3
  <2>8. ASSUME pump.pc \in Composed, NEW n \in pump.todo
        PROVE  /\ prompted[n] = 0
               /\ \E i \in Ids : n \in store'[i].msgs /\ (pump.pc = "claim" \/ store'[i].status # "pending")
    BY <2>1, <2>2, <2>3, <2>8
  <2> QED BY <2>4, <2>5, <2>6, <2>7, <2>8
<1> QED BY <1>9, <1>10, <1>11, <1>12, <1>13, <1>15, <1>16 DEF IInv

-----------------------------------------------------------------------------
\* A step of the worker's process beside its pump, or of its lease.
LEMMA BesideKeeps ==
  ASSUME IInv, TypeOK', PumpShape',
         store' = store, inbox' = inbox, prompted' = prompted, pump' = pump, sender' = sender,
         trouble \subseteq trouble',
         worker'.incarnation = worker.incarnation, worker'.up = worker.up,
         pump.pc \in Composed => delivered' = delivered /\ read' = read
  PROVE  IInv'
<1>1. \A s \in Senders : Asking(s)' \subseteq Asking(s)
  BY DEF Asking
<1> QED BY <1>1, Passes

LEMMA HookKeeps ==
  ASSUME IInv,
         \/ MirrorBridgeLease \/ Heartbeat \/ StopBridge
         \/ MarkMemberRunning \/ DecideStatus \/ MarkMemberSettled
  PROVE  IInv'
<1>0. TypeOK /\ PumpShape /\ worker \in WorkerState /\ status \in WorkerStatus
  BY DEF IInv, TypeOK
<1>1. /\ store' = store /\ inbox' = inbox /\ delivered' = delivered /\ read' = read
      /\ pump' = pump /\ sender' = sender /\ prompted' = prompted /\ agent' = agent
      /\ trouble' = trouble /\ faults' = faults /\ turns' = turns
  BY DEF MirrorBridgeLease, Heartbeat, StopBridge, MarkMemberRunning, DecideStatus,
         MarkMemberSettled, hookUnchanged, turnUnchanged, bounds
<1>2. worker.next \in WorkerStatus
  BY <1>0 DEF WorkerState
<1>3. status' \in WorkerStatus
  BY <1>0, <1>2, FsmType
  DEF MirrorBridgeLease, Heartbeat, StopBridge, MarkMemberRunning, DecideStatus, MarkMemberSettled
<1>4. leaseFresh' \in BOOLEAN
  <2>1. leaseFresh' = leaseFresh \/ leaseFresh' = FALSE
    BY DEF MirrorBridgeLease, Heartbeat, StopBridge, MarkMemberRunning, DecideStatus,
           MarkMemberSettled, turnUnchanged
  <2> QED BY <1>0, <2>1 DEF TypeOK
<1>5. lease' \in 0 .. MaxIncarnations
  <2>1. lease' = lease \/ lease' = 0
    BY DEF MirrorBridgeLease, Heartbeat, StopBridge, MarkMemberRunning, DecideStatus,
           MarkMemberSettled, turnUnchanged
  <2> QED BY <1>0, <2>1, BoundsType DEF TypeOK
<1>6. /\ \/ worker' = worker
         \/ worker' = [worker EXCEPT !.hook = "none"]
         \/ worker' = [worker EXCEPT !.hook = "stop"]
         \/ /\ worker'.next \in WorkerStatus
            /\ worker' = [worker EXCEPT !.hook = "settle", !.next = worker'.next]
         \/ worker' = [worker EXCEPT !.hook = "none", !.next = "idle"]
      /\ worker' = worker \/ worker.hook # "none" \/ Free
  <2>1. CASE DecideStatus
    <3>1. worker.hook = "decide"
      BY <2>1 DEF DecideStatus
    <3> DEFINE active  == \E i \in Ids : ActiveClaim(store[i])
               pending == \E i \in Ids : store[i].status = "pending" /\ ~RequestHasExpired(store[i])
    <3>2. PICK busy \in {active, TRUE} :
            worker' = [worker EXCEPT !.hook = "settle", !.next = AgentEnded(busy, pending)]
      BY <2>1 DEF DecideStatus
    <3>3. AgentEnded(busy, pending) \in WorkerStatus
      BY DEF AgentEnded, WorkerStatus
    <3> DEFINE n == AgentEnded(busy, pending)
    <3>4. n \in WorkerStatus /\ worker' = [worker EXCEPT !.hook = "settle", !.next = n]
      BY <3>2, <3>3
    <3> HIDE DEF n
    <3>5. worker'.next = n
      BY <1>0, <3>4 DEF WorkerState
    <3> QED BY <3>1, <3>4, <3>5
  <2>2. CASE MirrorBridgeLease \/ MarkMemberRunning
    <3>1. worker' = [worker EXCEPT !.hook = "none"] /\ worker.hook # "none"
      BY <2>2 DEF MirrorBridgeLease, MarkMemberRunning
    <3> QED BY <3>1
  <2>3. CASE Heartbeat
    BY <2>3 DEF Heartbeat
  <2>4. CASE StopBridge
    <3>1. worker' = [worker EXCEPT !.hook = "stop"] /\ Free
      BY <2>4 DEF StopBridge
    <3> QED BY <3>1
  <2>5. CASE MarkMemberSettled
    <3>1. worker' = [worker EXCEPT !.hook = "none", !.next = "idle"] /\ worker.hook # "none"
      BY <2>5 DEF MarkMemberSettled
    <3> QED BY <3>1
  <2> QED BY <2>1, <2>2, <2>3, <2>4, <2>5
<1>7. /\ worker' \in WorkerState
      /\ worker'.up = worker.up /\ worker'.incarnation = worker.incarnation
  <2>1. CASE /\ worker'.next \in WorkerStatus
             /\ worker' = [worker EXCEPT !.hook = "settle", !.next = worker'.next]
    <3> DEFINE n == worker'.next
    <3>1. n \in WorkerStatus /\ worker' = [worker EXCEPT !.hook = "settle", !.next = n]
      BY <2>1
    <3> HIDE DEF n
    <3> QED BY <1>0, <3>1 DEF WorkerState
  <2>2. CASE worker' = [worker EXCEPT !.hook = "none", !.next = "idle"]
    BY <1>0, <2>2 DEF WorkerState, WorkerStatus
  <2>3. CASE \/ worker' = [worker EXCEPT !.hook = "none"]
             \/ worker' = [worker EXCEPT !.hook = "stop"]
    BY <1>0, <2>3 DEF WorkerState
  <2> QED BY <1>0, <1>6, <2>1, <2>2, <2>3
<1>8. TypeOK'
  BY <1>0, <1>1, <1>3, <1>4, <1>5, <1>7 DEF TypeOK
<1>9. PumpShape'
  <2>1. ASSUME ~worker.up PROVE worker' = worker
    BY <1>0, <1>6, <2>1 DEF PumpShape, Free
  <2>2. ASSUME pump.pc \notin {"idle", "sending"} PROVE worker' = worker
    BY <1>0, <1>6, <2>2 DEF PumpShape, Free
  <2> QED BY <1>0, <1>1, <1>7, <2>1, <2>2 DEF PumpShape
<1> QED BY <1>1, <1>7, <1>8, <1>9, BesideKeeps

LEMMA LeaseKeeps ==
  ASSUME IInv, LeaseExpires \/ LeaseExpiresWhileUp
  PROVE  IInv'
<1>0. TypeOK /\ PumpShape
  BY DEF IInv
<1>1. /\ store' = store /\ inbox' = inbox /\ delivered' = delivered /\ read' = read
      /\ pump' = pump /\ sender' = sender /\ prompted' = prompted /\ agent' = agent
      /\ turns' = turns /\ lease' = lease /\ status' = status /\ worker' = worker
  BY DEF LeaseExpires, LeaseExpiresWhileUp, mailbox, bounds
<1>2. trouble \subseteq trouble' /\ trouble' \subseteq Trouble /\ faults' \in 0 .. MaxFaults
  <2>1. trouble \subseteq Trouble /\ faults \in 0 .. MaxFaults
    BY <1>0 DEF TypeOK
  <2>2. CASE LeaseExpires
    BY <2>1, <2>2 DEF LeaseExpires, bounds
  <2>3. CASE LeaseExpiresWhileUp
    <3>1. /\ faults < MaxFaults /\ faults' = faults + 1 /\ trouble' = trouble \cup {"stall"}
      BY <2>3 DEF LeaseExpiresWhileUp, Fault
    <3> QED BY <2>1, <3>1, BoundsType DEF Trouble
  <2> QED BY <2>2, <2>3
<1>3. leaseFresh' \in BOOLEAN
  BY DEF LeaseExpires, LeaseExpiresWhileUp
<1>4. TypeOK'
  BY <1>0, <1>1, <1>2, <1>3 DEF TypeOK
<1>5. PumpShape'
  BY <1>0, <1>1 DEF PumpShape
<1> QED BY <1>1, <1>2, <1>4, <1>5, BesideKeeps

\* Messages are marked delivered, or read, while no prompt is composed.
LEMMA MarksKeep ==
  ASSUME IInv, MarkMessagesDelivered \/ \E msgs \in SUBSET Messages : ReceiveMessages(msgs)
  PROVE  IInv'
<1>0. TypeOK /\ PumpShape /\ worker \in WorkerState
  BY DEF IInv, TypeOK
<1>1. /\ store' = store /\ status' = status /\ agent' = agent /\ trouble' = trouble
      /\ turns' = turns /\ lease' = lease /\ inbox' = inbox /\ pump' = pump
      /\ sender' = sender /\ prompted' = prompted /\ faults' = faults
  BY DEF MarkMessagesDelivered, ReceiveMessages, turnUnchanged
<1>2. leaseFresh' = leaseFresh
  BY DEF MarkMessagesDelivered, ReceiveMessages, turnUnchanged
<1>3. /\ delivered' \subseteq inbox /\ read' \subseteq inbox
  BY <1>0 DEF MarkMessagesDelivered, ReceiveMessages, TypeOK
<1>4. /\ worker' \in WorkerState
      /\ worker'.up = worker.up /\ worker'.incarnation = worker.incarnation
      /\ worker'.hook # worker.hook => worker.hook = "deliver"
  BY <1>0 DEF MarkMessagesDelivered, ReceiveMessages, WorkerState
<1>5. worker.hook = "deliver" \/ pump.pc \in {"idle", "sending"}
  BY DEF MarkMessagesDelivered, ReceiveMessages, Free
<1>6. pump.pc \in {"idle", "sending"}
  BY <1>0, <1>5 DEF PumpShape
<1>7. TypeOK'
  <2>1. leaseFresh' \in BOOLEAN
    BY <1>0, <1>2 DEF TypeOK
  <2> QED BY <1>0, <1>1, <1>3, <1>4, <2>1 DEF TypeOK
<1>8. PumpShape'
  <2>1. worker.hook = "deliver" => worker.up
    BY <1>0 DEF PumpShape
  <2> QED BY <1>0, <1>1, <1>4, <1>6, <2>1 DEF PumpShape
<1> QED BY <1>1, <1>4, <1>6, <1>7, <1>8, BesideKeeps DEF Composed

\* A worker starts: no pump ran, so nothing is claimed, unless there is cause.
LEMMA PublishKeeps ==
  ASSUME IInv, PublishBridgeLease
  PROVE  IInv'
<1>0. /\ TypeOK /\ PumpShape /\ RequestShape /\ OwnClaim /\ PromptOfPump
      /\ SubmittedWasPrompted /\ OnlyOwnClaims /\ OneRequestEach
  BY DEF IInv
<1>1. /\ store' = store /\ inbox' = inbox /\ delivered' = delivered /\ read' = read
      /\ pump' = pump /\ sender' = sender /\ prompted' = prompted /\ agent' = agent
      /\ turns' = turns /\ status' = status /\ faults' = faults /\ trouble' = trouble
      /\ ~worker.up /\ lease' = worker.incarnation + 1
  BY DEF PublishBridgeLease, hookUnchanged, bounds
<1>2. leaseFresh' \in BOOLEAN
  BY DEF PublishBridgeLease
<1>3. /\ worker' \in WorkerState /\ worker'.up /\ worker'.incarnation # 0
      /\ lease' \in 0 .. MaxIncarnations
  <2>1. /\ worker \in WorkerState /\ worker.incarnation \in 0 .. MaxIncarnations
        /\ worker.incarnation < MaxIncarnations
    BY <1>0 DEF PublishBridgeLease, TypeOK, WorkerState
  <2>2. worker.incarnation + 1 \in 0 .. MaxIncarnations /\ worker.incarnation + 1 # 0
    BY <2>1, BoundsType
  <2> DEFINE n == worker.incarnation + 1
  <2>3. worker' = [worker EXCEPT !.up = TRUE, !.incarnation = n, !.hook = "mirror"]
    BY DEF PublishBridgeLease
  <2>4. n \in 0 .. MaxIncarnations /\ n # 0 /\ lease' = n
    BY <1>1, <2>2
  <2> HIDE DEF n
  <2> QED BY <2>1, <2>3, <2>4 DEF WorkerState
<1>4. pump = IdlePump /\ pump.pc = "idle"
  BY <1>0, <1>1 DEF PumpShape, IdlePump
<1>5. TypeOK'
  BY <1>0, <1>1, <1>2, <1>3 DEF TypeOK
<1>6. PumpShape' /\ OwnClaim'
  BY <1>0, <1>1, <1>3, <1>4 DEF PumpShape, OwnClaim, InFlight, Composed, Claiming
<1>7. RequestShape' /\ PromptOfPump' /\ SubmittedWasPrompted'
  BY <1>0, <1>1 DEF RequestShape, PromptOfPump, SubmittedWasPrompted
<1>8. OnlyOwnClaims'
  BY <1>0, <1>1, <1>3, <1>4 DEF OnlyOwnClaims, PendingIds, Claiming, InFlight
<1>9. OneRequestEach'
  BY <1>0, <1>1, OneRequestKept DEF Asking
<1> QED BY <1>5, <1>6, <1>7, <1>8, <1>9 DEF IInv

\* The worker's process goes, and its pump with it: a cause of its own.
LEMMA GoesKeeps ==
  ASSUME IInv, MarkSessionShutdown \/ Crash
  PROVE  IInv'
<1>0. /\ TypeOK /\ PumpShape /\ RequestShape /\ OwnClaim /\ PromptOfPump
      /\ SubmittedWasPrompted /\ OnlyOwnClaims /\ OneRequestEach
  BY DEF IInv
<1>1. /\ store' = store /\ inbox' = inbox /\ delivered' = delivered /\ read' = read
      /\ sender' = sender /\ prompted' = prompted /\ turns' = turns /\ lease' = lease
      /\ pump' = IdlePump /\ agent' = "none" /\ worker' = Gone
      /\ trouble' = trouble \cup {"restart"}
  BY DEF MarkSessionShutdown, Crash, hookUnchanged, bounds, files, Fault
<1>2. leaseFresh' = leaseFresh
  BY DEF MarkSessionShutdown, Crash, files
<1>3. status' \in WorkerStatus
  BY <1>0, FsmType DEF MarkSessionShutdown, Crash, files, TypeOK
<1>4. faults' \in 0 .. MaxFaults
  BY <1>0, BoundsType DEF MarkSessionShutdown, Crash, hookUnchanged, bounds, Fault, TypeOK
<1>5. worker' \in WorkerState /\ ~worker'.up /\ worker'.hook = "none"
  BY <1>0, <1>1 DEF Gone, TypeOK, WorkerState, WorkerStatus
<1>6. /\ IdlePump.pc = "idle" /\ IdlePump \in PumpState
  BY BoundsType, MaxRequestsType DEF IdlePump, PumpState, PumpPc
<1>7. TypeOK'
  <2>1. leaseFresh' \in BOOLEAN
    BY <1>0, <1>2 DEF TypeOK
  <2>2. trouble' \subseteq Trouble
    BY <1>0, <1>1 DEF TypeOK, Trouble
  <2> QED BY <1>0, <1>1, <1>3, <1>4, <1>5, <1>6, <2>1, <2>2 DEF TypeOK
<1>8. PumpShape' /\ OwnClaim' /\ PromptOfPump'
  BY <1>1, <1>5, <1>6 DEF PumpShape, OwnClaim, PromptOfPump, InFlight, Composed, Claiming
<1>9. RequestShape' /\ SubmittedWasPrompted'
  BY <1>0, <1>1 DEF RequestShape, SubmittedWasPrompted
<1>10. OnlyOwnClaims' /\ OneRequestEach'
  BY <1>1 DEF OnlyOwnClaims, OneRequestEach
<1> QED BY <1>7, <1>8, <1>9, <1>10 DEF IInv

-----------------------------------------------------------------------------
\* A step of the pump with the store as it is.
LEMMA PumpPasses ==
  ASSUME IInv, worker.up, worker.hook = "none" \/ pump'.pc = "idle",
         UNCHANGED <<lease, leaseFresh, mailbox, worker, sender, store, prompted, turns>>,
         pump' \in PumpState, status' \in WorkerStatus, agent' \in {"none", "prompted", "running"},
         trouble \subseteq trouble', trouble' \subseteq Trouble, faults' \in 0 .. MaxFaults,
         pump'.pc \in InFlight => pump'.id = pump.id /\ pump.pc \in InFlight,
         pump'.pc \in Claiming => pump.pc \in Claiming /\ pump'.todo = pump.todo,
         pump.pc \in Claiming /\ pump'.pc \notin Claiming =>
           store[pump.id].status # "claimed" \/ store[pump.id].claim # worker.incarnation,
         pump'.pc \in Composed => /\ pump.pc \in Composed /\ pump'.todo = pump.todo
                                  /\ pump'.pc = "claim" \/ pump.pc # "claim"
                                  /\ agent' = agent,
         pump'.pc \in Answering => pump.pc \in Answering /\ pump'.todo = pump.todo
  PROVE  IInv'
<1>0. TypeOK /\ PumpShape
  BY DEF IInv
<1>1. /\ lease' = lease /\ inbox' = inbox /\ delivered' = delivered /\ read' = read
      /\ worker' = worker /\ sender' = sender /\ store' = store /\ prompted' = prompted
      /\ turns' = turns
  BY DEF mailbox
<1>2. leaseFresh' = leaseFresh
  OBVIOUS
<1>3. TypeOK'
  <2>1. leaseFresh' \in BOOLEAN
    BY <1>0, <1>2 DEF TypeOK
  <2> QED BY <1>0, <1>1, <2>1 DEF TypeOK
<1>4. PumpShape'
  BY <1>0, <1>1 DEF PumpShape
<1>5. \A s \in Senders : Asking(s)' \subseteq Asking(s)
  BY <1>1 DEF Asking
<1>6. pump'.pc \in Claiming => pump'.id = pump.id
  BY DEF Claiming
<1> QED BY <1>1, <1>3, <1>4, <1>5, <1>6, Passes

LEMMA IdlePumpType == IdlePump \in PumpState /\ IdlePump.pc = "idle" /\ IdlePump.id = 0
BY MaxRequestsType DEF IdlePump, PumpState, PumpPc

\* The pump stops, with nothing of its own left claimed.
LEMMA PumpStops ==
  ASSUME IInv, worker.up, pump' = IdlePump, status' \in WorkerStatus,
         UNCHANGED <<store, agent, prompted, trouble, pumpUnchanged>>,
         pump.pc \in Claiming =>
           store[pump.id].status # "claimed" \/ store[pump.id].claim # worker.incarnation
  PROVE  IInv'
<1>1. /\ trouble' = trouble /\ agent' = agent
      /\ UNCHANGED <<lease, leaseFresh, mailbox, worker, sender, store, prompted, turns>>
      /\ faults' = faults
  BY DEF pumpUnchanged, bounds
<1>2. /\ trouble' \subseteq Trouble /\ agent' \in {"none", "prompted", "running"}
      /\ faults' \in 0 .. MaxFaults
  BY <1>1 DEF IInv, TypeOK
<1>3. pump' \in PumpState /\ pump'.pc = "idle"
  BY IdlePumpType
<1> QED BY <1>1, <1>2, <1>3, PumpPasses DEF InFlight, Claiming, Composed, Answering

LEMMA PumpStepKeeps ==
  ASSUME IInv,
         \/ PumpMarkRequested \/ PumpClearRequested \/ PumpHeartbeat \/ SendReturns
         \/ CheckSubmitted \/ RecordSubmitted \/ CheckFailed \/ RecordFailed
  PROVE  IInv'
<1>0. TypeOK /\ PumpShape /\ pump \in PumpState /\ status \in WorkerStatus
  BY DEF IInv, TypeOK
<1>1. /\ UNCHANGED <<store, agent, prompted, trouble, pumpUnchanged>>
      /\ worker.up /\ worker.hook = "none"
  BY DEF PumpMarkRequested, PumpClearRequested, PumpHeartbeat, SendReturns, CheckSubmitted,
         RecordSubmitted, CheckFailed, RecordFailed, Pumping
<1>2. status' \in WorkerStatus
  BY <1>0, FsmType
  DEF PumpMarkRequested, PumpClearRequested, PumpHeartbeat, SendReturns, CheckSubmitted,
      RecordSubmitted, CheckFailed, RecordFailed
<1>3. \/ /\ pump' = IdlePump
         /\ pump.pc \in Claiming => ~Guarded("submitted")
      \/ pump' = [pump EXCEPT !.pc = "read"] /\ pump.pc \in {"request", "clear"}
      \/ pump' = [pump EXCEPT !.pc = "submit"] /\ pump.pc = "heartbeat"
      \/ pump' = [pump EXCEPT !.pc = "checkSubmitted"] /\ pump.pc = "sending"
      \/ pump' = [pump EXCEPT !.pc = "writeSubmitted"] /\ pump.pc = "checkSubmitted"
      \/ pump' = [pump EXCEPT !.pc = "writeFailed"] /\ pump.pc = "checkFailed"
      \/ pump' = [pump EXCEPT !.pc = "recordFailed"] /\ pump.pc = "checkFailed" /\ ~Guarded("failed")
  <2>1. CASE PumpMarkRequested \/ PumpClearRequested \/ PumpHeartbeat \/ SendReturns
    BY <2>1 DEF PumpMarkRequested, PumpClearRequested, PumpHeartbeat, SendReturns, Pumping
  <2>2. CASE CheckSubmitted
    BY <2>2 DEF CheckSubmitted, Pumping
  <2>3. CASE CheckFailed
    <3>1. CASE Guarded("failed")
      BY <2>3, <3>1 DEF CheckFailed, Pumping
    <3>2. CASE ~Guarded("failed")
      BY <2>3, <3>2 DEF CheckFailed, Pumping
    <3> QED BY <3>1, <3>2
  <2>4. CASE RecordSubmitted \/ RecordFailed
    BY <2>4 DEF RecordSubmitted, RecordFailed, Pumping, Claiming
  <2> QED BY <2>1, <2>2, <2>3, <2>4
<1>4. ASSUME NEW to \in {"submitted", "failed"}, ~Guarded(to)
      PROVE  store[pump.id].status # "claimed" \/ store[pump.id].claim # worker.incarnation
  BY <1>4 DEF Guarded, CanTransition, AllowedTransitions
<1>5. CASE /\ pump' = IdlePump
           /\ pump.pc \in Claiming => ~Guarded("submitted")
  BY <1>1, <1>2, <1>4, <1>5, PumpStops
<1>6. CASE ~(/\ pump' = IdlePump
             /\ pump.pc \in Claiming => ~Guarded("submitted"))
  <2>1. /\ trouble' = trouble /\ agent' = agent
        /\ UNCHANGED <<lease, leaseFresh, mailbox, worker, sender, store, prompted, turns>>
        /\ faults' = faults
    BY <1>1 DEF pumpUnchanged, bounds
  <2>2. /\ trouble' \subseteq Trouble /\ agent' \in {"none", "prompted", "running"}
        /\ faults' \in 0 .. MaxFaults
    BY <1>0, <2>1 DEF TypeOK
  <2>3. /\ pump' \in PumpState /\ pump'.id = pump.id /\ pump'.todo = pump.todo
        /\ \/ pump'.pc = "read" /\ pump.pc \in {"request", "clear"}
           \/ pump'.pc = "submit" /\ pump.pc = "heartbeat"
           \/ pump'.pc = "checkSubmitted" /\ pump.pc = "sending"
           \/ pump'.pc = "writeSubmitted" /\ pump.pc = "checkSubmitted"
           \/ pump'.pc = "writeFailed" /\ pump.pc = "checkFailed"
           \/ pump'.pc = "recordFailed" /\ pump.pc = "checkFailed" /\ ~Guarded("failed")
    BY <1>0, <1>3, <1>6 DEF PumpState, PumpPc
  <2>4. pump.pc \in Claiming /\ pump'.pc \notin Claiming =>
          store[pump.id].status # "claimed" \/ store[pump.id].claim # worker.incarnation
    BY <1>4, <2>3 DEF Claiming, InFlight
  <2>5. /\ pump'.pc \in InFlight => pump.pc \in InFlight
        /\ pump'.pc \in Claiming => pump.pc \in Claiming
        /\ pump'.pc \in Composed => pump.pc \in Composed /\ (pump'.pc = "claim" \/ pump.pc # "claim")
        /\ pump'.pc \in Answering => pump.pc \in Answering
    BY <2>3 DEF InFlight, Claiming, Composed, Answering
  <2> QED BY <1>1, <1>2, <2>1, <2>2, <2>3, <2>4, <2>5, PumpPasses
<1> QED BY <1>5, <1>6

LEMMA SendThrowsKeeps ==
  ASSUME IInv, SendThrows
  PROVE  IInv'
<1>0. TypeOK /\ PumpShape /\ pump \in PumpState
  BY DEF IInv, TypeOK
<1>1. /\ worker.up /\ worker.hook = "none" /\ pump.pc = "sending"
      /\ UNCHANGED <<lease, leaseFresh, mailbox, worker, sender, store, prompted, turns>>
      /\ status' = status /\ pump' = [pump EXCEPT !.pc = "checkFailed"]
      /\ faults < MaxFaults /\ faults' = faults + 1 /\ trouble' = trouble \cup {"sendFailed"}
      /\ agent' = agent \/ agent' = "none"
  BY DEF SendThrows, Pumping, Fault, files, mailbox
<1>2. /\ trouble \subseteq trouble' /\ trouble' \subseteq Trouble
      /\ agent' \in {"none", "prompted", "running"} /\ status' \in WorkerStatus
  BY <1>0, <1>1 DEF TypeOK, Trouble
<1>3. faults' \in 0 .. MaxFaults
  BY <1>0, <1>1, BoundsType DEF TypeOK
<1>4. pump' \in PumpState /\ pump'.pc = "checkFailed" /\ pump'.id = pump.id /\ pump'.todo = pump.todo
  BY <1>0, <1>1 DEF PumpState, PumpPc
<1>5. /\ pump'.pc \in Claiming /\ pump.pc \in Claiming /\ pump.pc \in InFlight
      /\ pump'.pc \notin Composed /\ pump'.pc \notin Answering
  BY <1>1, <1>4 DEF InFlight, Claiming, Composed, Answering
<1> QED BY <1>1, <1>2, <1>3, <1>4, <1>5, PumpPasses

-----------------------------------------------------------------------------
\* What does not change while the pump's own step writes the store.
LEMMA PumpFrame ==
  ASSUME IInv, worker.up, worker.hook = "none", UNCHANGED pumpUnchanged,
         store' \in [Ids -> Request], pump' \in PumpState, status' = status,
         agent' \in {"none", "prompted", "running"}, prompted' \in [Messages -> 0 .. 2],
         trouble' = trouble,
         pump'.pc \in InFlight => pump'.id \in Ids,
         pump'.pc \in Composed => agent' = "none"
  PROVE  TypeOK' /\ PumpShape'
<1>0. TypeOK /\ PumpShape
  BY DEF IInv
<1>1. /\ lease' = lease /\ inbox' = inbox /\ delivered' = delivered /\ read' = read
      /\ worker' = worker /\ sender' = sender /\ turns' = turns /\ faults' = faults
  BY DEF pumpUnchanged, mailbox, bounds
<1>2. leaseFresh' \in BOOLEAN
  <2>1. leaseFresh' = leaseFresh
    BY DEF pumpUnchanged
  <2> QED BY <1>0, <2>1 DEF TypeOK
<1>3. TypeOK'
  BY <1>0, <1>1, <1>2 DEF TypeOK
<1>4. PumpShape'
  BY <1>0, <1>1 DEF PumpShape
<1> QED BY <1>3, <1>4

\* The pump begins: what lapsed is pending again, what is due expires.
LEMMA PumpMaintainKeeps ==
  ASSUME IInv, PumpMaintain
  PROVE  IInv'
<1>0. /\ TypeOK /\ PumpShape /\ RequestShape /\ OwnClaim /\ PromptOfPump
      /\ SubmittedWasPrompted /\ OnlyOwnClaims /\ OneRequestEach
      /\ store \in [Ids -> Request] /\ pump \in PumpState
  BY DEF IInv, TypeOK
<1>1. /\ worker.up /\ worker.hook = "none" /\ pump.pc = "idle"
      /\ status' = status /\ agent' = agent /\ prompted' = prompted /\ trouble' = trouble
      /\ UNCHANGED pumpUnchanged /\ store' = Maintained(store)
      /\ \E pc \in {"request", "clear", "read"} : pump' = [pump EXCEPT !.pc = pc]
  BY DEF PumpMaintain, Pumping
<1>2. pump' \in PumpState /\ pump'.pc \in {"request", "clear", "read"}
  BY <1>0, <1>1 DEF PumpState, PumpPc
<1>3. /\ worker' = worker /\ inbox' = inbox /\ sender' = sender
  BY <1>1 DEF pumpUnchanged, mailbox
<1>4. \A i \in Ids :
        /\ store'[i] \in Request /\ store'[i].msgs = store[i].msgs
        /\ store'[i].lapsed => store[i].lapsed
        /\ \/ store'[i] = store[i] \/ Stays(store[i], store'[i])
           \/ Expires(store[i], store'[i]) \/ TakenBack(store[i], store'[i])
  BY <1>0, <1>1, MaintainedMoves
<1>5. store' \in [Ids -> Request]
  BY <1>1, <1>4 DEF Maintained
<1>6. \A i \in Ids : Moved(store[i], store'[i])
  BY <1>4 DEF Moved
<1>7. pump'.pc \notin InFlight /\ pump'.pc \notin Composed /\ pump'.pc \notin Claiming /\ pump'.pc \notin Answering
  BY <1>2 DEF InFlight, Composed, Claiming, Answering
<1>8. TypeOK' /\ PumpShape'
  <2>1. prompted' \in [Messages -> 0 .. 2] /\ agent' \in {"none", "prompted", "running"}
    BY <1>0, <1>1 DEF TypeOK
  <2> QED BY <1>1, <1>2, <1>5, <1>7, <2>1, PumpFrame
<1>9. RequestShape'
  BY <1>0, <1>6, RequestShapeKept
<1>10. OwnClaim'
  BY <1>7 DEF OwnClaim
<1>11. PromptOfPump'
  BY <1>2 DEF PromptOfPump, Claiming, InFlight, Composed
<1>12. SubmittedWasPrompted'
  BY <1>0, <1>1, <1>6, SubmittedKept
<1>13. pump.pc \notin Claiming
  BY <1>1 DEF Claiming, InFlight
<1>14. OnlyOwnClaims'
  <2>1. ASSUME trouble' \cap {"lapse", "restart"} = {}, NEW i \in Ids
        PROVE  /\ store'[i].status # "claimed"
               /\ store'[i].status = "pending" => store[i].status = "pending"
    <3>1. store[i].status # "claimed"
      BY <1>0, <1>1, <1>13, <2>1 DEF OnlyOwnClaims
    <3> QED BY <1>4, <3>1 DEF Stays, Expires, TakenBack
  <2> QED BY <1>0, <1>1, <1>3, <2>1, OnlyOwnKept
<1>15. OneRequestEach'
  <2>1. ASSUME trouble' \cap {"lapse", "sendFailed", "restart", "rerequest"} = {}, NEW i \in Ids,
               store[i].status # "pending"
        PROVE  store'[i].status # "pending"
    <3>1. store[i].status # "claimed"
      BY <1>0, <1>1, <1>13, <2>1 DEF OnlyOwnClaims
    <3> QED BY <1>4, <2>1, <3>1 DEF Stays, Expires, TakenBack
  <2>2. \A s \in Senders : Asking(s)' \subseteq Asking(s)
    BY <1>3 DEF Asking
  <2> QED BY <1>0, <1>1, <1>3, <1>4, <1>7, <2>1, <2>2, OneRequestKept
<1> QED BY <1>8, <1>9, <1>10, <1>11, <1>12, <1>14, <1>15 DEF IInv

\* The pump composes a prompt: of messages of pending requests, which were in
\* no prompt before.
LEMMA PumpReadKeeps ==
  ASSUME IInv, PumpRead
  PROVE  IInv'
<1>0. /\ TypeOK /\ PumpShape /\ RequestShape /\ OwnClaim /\ PromptOfPump
      /\ SubmittedWasPrompted /\ OnlyOwnClaims /\ OneRequestEach
      /\ store \in [Ids -> Request] /\ pump \in PumpState /\ status \in WorkerStatus
  BY DEF IInv, TypeOK
<1>1. /\ worker.up /\ worker.hook = "none" /\ pump.pc = "read"
      /\ store' = store /\ agent' = agent /\ prompted' = prompted /\ trouble' = trouble
      /\ UNCHANGED pumpUnchanged
      /\ status' = NativeBusy \/ status' = status
      /\ \/ pump' = IdlePump
         \/ /\ pump' = [pump EXCEPT !.pc = "claim", !.todo = PromptMessages]
            /\ agent = "none" /\ PromptMessages # {} /\ status' = status
  BY DEF PumpRead, Pumping
<1>2. CASE pump' = IdlePump
  <2>1. status' \in WorkerStatus
    BY <1>0, <1>1, FsmType
  <2> QED BY <1>1, <1>2, <2>1, PumpStops DEF Claiming, InFlight
<1>3. CASE /\ pump' = [pump EXCEPT !.pc = "claim", !.todo = PromptMessages]
           /\ agent = "none" /\ PromptMessages # {} /\ status' = status
  <2>1. PromptMessages \in SUBSET Messages
    BY <1>0 DEF PromptMessages, TypeOK
  <2>2. /\ pump' \in PumpState /\ pump'.pc = "claim" /\ pump'.todo = PromptMessages
    BY <1>0, <1>3, <2>1 DEF PumpState, PumpPc
  <2>3. /\ worker' = worker /\ inbox' = inbox /\ sender' = sender
        /\ delivered' = delivered /\ read' = read
    BY <1>1 DEF pumpUnchanged, mailbox
  <2>4. pump'.pc \notin InFlight /\ pump'.pc \in Composed /\ pump'.pc \notin Claiming /\ pump'.pc \notin Answering
    BY <2>2 DEF InFlight, Composed, Claiming, Answering
  <2>5. TypeOK' /\ PumpShape'
    <3>1. prompted' \in [Messages -> 0 .. 2] /\ agent' \in {"none", "prompted", "running"}
      BY <1>0, <1>1 DEF TypeOK
    <3>2. agent' = "none" /\ store' \in [Ids -> Request]
      BY <1>0, <1>1, <1>3
    <3> QED BY <1>1, <1>3, <2>2, <2>4, <3>1, <3>2, PumpFrame
  <2>6. RequestShape' /\ SubmittedWasPrompted'
    BY <1>0, <1>1 DEF RequestShape, SubmittedWasPrompted
  <2>7. OwnClaim'
    BY <2>4 DEF OwnClaim
  <2>8. PromptOfPump'
    <3>1. PromptMessages \cap (delivered \cup read) = {}
      BY DEF PromptMessages
    <3> QED BY <1>3, <2>2, <2>3, <3>1 DEF PromptOfPump, Claiming, InFlight
  <2>9. OnlyOwnClaims'
    <3>1. pump.pc \notin Claiming
      BY <1>1 DEF Claiming, InFlight
    <3> QED BY <1>0, <1>1, <2>3, <3>1, OnlyOwnKept
  <2>10. OneRequestEach'
    <3>1. ASSUME trouble \cap {"lapse", "sendFailed", "restart", "rerequest"} = {}, NEW m \in PromptMessages
          PROVE  prompted[m] = 0 /\ \E i \in Ids : m \in store[i].msgs
      <4>1. PICK i \in Ids : store[i].status = "pending" /\ m \in store[i].msgs
        BY <3>1 DEF PromptMessages, PendingIds
      <4>2. m \in Messages /\ prompted[m] \in Nat
        BY <1>0, <2>1, <3>1 DEF TypeOK
      <4>3. ASSUME prompted[m] > 0 PROVE FALSE
        <5>1. PICK j \in Ids : m \in store[j].msgs /\ store[j].status # "pending"
          BY <1>0, <3>1, <4>2, <4>3 DEF OneRequestEach
        <5>2. i = j
          BY <1>0, <3>1, <4>1, <5>1 DEF OneRequestEach
        <5> QED BY <4>1, <5>1, <5>2
      <4> QED BY <4>1, <4>2, <4>3
    <3>2. \A s \in Senders : Asking(s)' = Asking(s)
      BY <2>3 DEF Asking
    <3> QED BY <1>0, <1>1, <2>2, <2>3, <3>1, <3>2 DEF OneRequestEach
  <2> QED BY <2>5, <2>6, <2>7, <2>8, <2>9, <2>10 DEF IInv
<1> QED BY <1>1, <1>2, <1>3

\* The oldest pending request gets the claim for the prompt; without a cause,
\* no other is pending or claimed.
LEMMA PumpClaimKeeps ==
  ASSUME IInv, PumpClaim
  PROVE  IInv'
<1>0. /\ TypeOK /\ PumpShape /\ RequestShape /\ OwnClaim /\ PromptOfPump
      /\ SubmittedWasPrompted /\ OnlyOwnClaims /\ OneRequestEach
      /\ store \in [Ids -> Request] /\ pump \in PumpState /\ status \in WorkerStatus
  BY DEF IInv, TypeOK
<1>1. /\ worker.up /\ worker.hook = "none" /\ pump.pc = "claim"
      /\ status' = status /\ agent' = agent /\ prompted' = prompted /\ trouble' = trouble
      /\ UNCHANGED pumpUnchanged
  BY DEF PumpClaim, Pumping
<1>c. pump.pc \notin Claiming /\ pump.pc \in Composed
  BY <1>1 DEF Claiming, InFlight, Composed
<1>2. CASE PendingIds(store) = {}
  <2>1. pump' = IdlePump /\ store' = store
    BY <1>2 DEF PumpClaim
  <2> QED BY <1>0, <1>1, <1>c, <2>1, PumpStops
<1>3. CASE PendingIds(store) # {}
  <2> DEFINE k == Oldest(PendingIds(store))
             todo == pump.todo
             c == worker.incarnation
  <2>1. /\ store' = ClaimedFor(store, k, c, todo)
        /\ pump' = [pump EXCEPT !.pc = "heartbeat", !.id = k]
    BY <1>3 DEF PumpClaim
  <2>2. k \in PendingIds(store) /\ k \in Ids /\ store[k].status = "pending"
    <3>1. PendingIds(store) \in SUBSET Ids
      BY DEF PendingIds
    <3>2. k \in PendingIds(store)
      BY <1>3, <3>1, OldestIs
    <3> HIDE DEF k
    <3> QED BY <3>2 DEF PendingIds
  <2>3. todo \in SUBSET Messages /\ c \in Nat /\ todo # {} /\ todo \cap (delivered \cup read) = {}
    BY <1>0, <1>1, BoundsType DEF PumpState, TypeOK, WorkerState, PromptOfPump, Composed
  <2> HIDE DEF k
  <2>4. /\ store' \in [Ids -> Request]
        /\ store'[k].status = "claimed" /\ store'[k].claim = c /\ store'[k].promptMsgs = todo
        /\ store'[k].msgs = store[k].msgs /\ ~store'[k].lapsed
        /\ \A i \in Ids : i # k => store'[i] = store[i]
    BY <1>0, <2>1, <2>2, <2>3, ClaimedMoves
  <2>5. /\ pump' \in PumpState /\ pump'.pc = "heartbeat" /\ pump'.todo = todo /\ pump'.id = k
    <3>1. k \in 0 .. MaxRequests
      BY <2>2, MaxRequestsType DEF Ids
    <3>2. pump' = [pump EXCEPT !.pc = "heartbeat", !.id = k]
      BY <2>1
    <3>3. pump' \in PumpState /\ pump'.pc = "heartbeat" /\ pump'.todo = pump.todo /\ pump'.id = k
      BY <1>0, <3>1, <3>2 DEF PumpState, PumpPc
    <3> QED BY <3>3
  <2>6. /\ worker' = worker /\ inbox' = inbox /\ sender' = sender
        /\ delivered' = delivered /\ read' = read
    BY <1>1 DEF pumpUnchanged, mailbox
  <2>7. pump'.pc \in InFlight /\ pump'.pc \in Composed /\ pump'.pc \in Claiming
    BY <2>5 DEF InFlight, Composed, Claiming
  <2>8. TypeOK' /\ PumpShape'
    <3>1. prompted' \in [Messages -> 0 .. 2] /\ agent' \in {"none", "prompted", "running"}
      BY <1>0, <1>1 DEF TypeOK
    <3>2. agent' = "none"
      BY <1>0, <1>1, <1>c DEF PumpShape
    <3> QED BY <1>1, <2>2, <2>4, <2>5, <3>1, <3>2, PumpFrame
  <2>9. RequestShape'
    <3>1. \A i \in Ids : Moved(store[i], store'[i]) \/ store'[i].status \notin {"absent", "pending"}
      BY <2>4 DEF Moved
    <3> QED BY <1>0, <3>1, RequestShapeKept
  <2>10. OwnClaim'
    BY <2>4, <2>5 DEF OwnClaim
  <2>11. PromptOfPump'
    BY <2>3, <2>5, <2>6 DEF PromptOfPump, Claiming, InFlight, Composed
  <2>12. SubmittedWasPrompted'
    <3>1. \A i \in Ids : Moved(store[i], store'[i]) \/ store'[i].status \notin {"submitted", "started", "completed"}
      BY <2>4 DEF Moved
    <3> QED BY <1>0, <1>1, <3>1, SubmittedKept
  <2>13. ASSUME trouble \cap {"lapse", "restart"} = {}
         PROVE  /\ \A i \in Ids : store'[i].status = "claimed" => i = k
                /\ PendingIds(store') = {}
    <3>1. \A i \in Ids : store[i].status # "claimed"
      BY <1>0, <1>c, <2>13 DEF OnlyOwnClaims
    <3>2. \A i \in Ids : store[i].status = "pending" => i = k
      BY <1>0, <2>2, <2>13 DEF OnlyOwnClaims, PendingIds
    <3> QED BY <2>4, <3>1, <3>2 DEF PendingIds
  <2>14. OnlyOwnClaims'
    BY <1>0, <1>1, <2>4, <2>5, <2>6, <2>7, <2>13 DEF OnlyOwnClaims
  <2>15. OneRequestEach'
    <3> SUFFICES ASSUME trouble \cap {"lapse", "sendFailed", "restart", "rerequest"} = {}
        PROVE /\ \A i \in Ids : store'[i].msgs \subseteq inbox
              /\ \A i, j \in Ids : \A n \in store'[i].msgs \cap store'[j].msgs : i = j
              /\ \A s \in Senders :
                   /\ Asking(s)' \subseteq inbox
                   /\ \A i \in Ids : Asking(s)' \cap store'[i].msgs = {}
                   /\ \A x \in Senders : Asking(s)' \cap Asking(x)' # {} => s = x
              /\ \A n \in Messages :
                   /\ prompted[n] < 2
                   /\ prompted[n] > 0 => \E i \in Ids : n \in store'[i].msgs /\ store'[i].status # "pending"
              /\ pump'.pc \in Composed =>
                   \A n \in todo :
                     /\ prompted[n] = 0
                     /\ \E i \in Ids : n \in store'[i].msgs /\ (pump'.pc = "claim" \/ store'[i].status # "pending")
      BY <1>1, <2>5, <2>6 DEF OneRequestEach
    <3>1. /\ \A i \in Ids : store[i].msgs \subseteq inbox
          /\ \A i, j \in Ids : \A n \in store[i].msgs \cap store[j].msgs : i = j
          /\ \A s \in Senders :
               /\ Asking(s) \subseteq inbox
               /\ \A i \in Ids : Asking(s) \cap store[i].msgs = {}
               /\ \A x \in Senders : Asking(s) \cap Asking(x) # {} => s = x
          /\ \A n \in Messages :
               /\ prompted[n] < 2
               /\ prompted[n] > 0 => \E i \in Ids : n \in store[i].msgs /\ store[i].status # "pending"
          /\ \A n \in todo : prompted[n] = 0 /\ \E i \in Ids : n \in store[i].msgs
      BY <1>0, <1>c DEF OneRequestEach
    <3>2. \A i \in Ids : store'[i].msgs = store[i].msgs /\ store'[i].status # "pending"
      <4>1. PendingIds(store') = {}
        BY <2>13
      <4> QED BY <2>4, <4>1 DEF PendingIds
    <3>3. \A s \in Senders : Asking(s)' = Asking(s)
      BY <2>6 DEF Asking
    <3> QED BY <3>1, <3>2, <3>3
  <2> QED BY <2>8, <2>9, <2>10, <2>11, <2>12, <2>14, <2>15 DEF IInv
<1> QED BY <1>2, <1>3

\* The prompt goes out.
LEMMA PumpSubmitKeeps ==
  ASSUME IInv, PumpSubmit
  PROVE  IInv'
<1>0. /\ TypeOK /\ PumpShape /\ RequestShape /\ OwnClaim /\ PromptOfPump
      /\ SubmittedWasPrompted /\ OnlyOwnClaims /\ OneRequestEach
      /\ store \in [Ids -> Request] /\ pump \in PumpState /\ prompted \in [Messages -> 0 .. 2]
  BY DEF IInv, TypeOK
<1>1. /\ worker.up /\ worker.hook = "none" /\ pump.pc = "submit"
      /\ store' = store /\ status' = status /\ agent' = "prompted" /\ trouble' = trouble
      /\ UNCHANGED pumpUnchanged /\ pump' = [pump EXCEPT !.pc = "sending"]
  BY DEF PumpSubmit, Pumping
<1>2. \A m \in Messages :
        prompted'[m] = IF m \in pump.todo /\ prompted[m] < 2 THEN prompted[m] + 1 ELSE prompted[m]
  BY DEF PumpSubmit
<1>3. /\ pump' \in PumpState /\ pump'.pc = "sending" /\ pump'.todo = pump.todo /\ pump'.id = pump.id
      /\ pump.todo \in SUBSET Messages
  BY <1>0, <1>1 DEF PumpState, PumpPc
<1>4. /\ worker' = worker /\ inbox' = inbox /\ sender' = sender
      /\ delivered' = delivered /\ read' = read
  BY <1>1 DEF pumpUnchanged, mailbox
<1>5. prompted' \in [Messages -> 0 .. 2]
  <2>1. \A m \in Messages : prompted'[m] \in 0 .. 2
    BY <1>0, <1>2
  <2>2. prompted' = [m \in Messages |-> prompted'[m]]
    BY DEF PumpSubmit
  <2> QED BY <2>1, <2>2
<1>6. /\ \A m \in Messages : prompted[m] > 0 => prompted'[m] > 0
      /\ \A m \in pump.todo : prompted'[m] > 0
  BY <1>0, <1>2, <1>3
<1>7. /\ pump.pc \in Claiming /\ pump.pc \in Composed /\ pump.pc \in InFlight
      /\ pump'.pc \in Claiming /\ pump'.pc \in InFlight /\ pump'.pc \notin Composed
  BY <1>1, <1>3 DEF InFlight, Claiming, Composed
<1>8. TypeOK' /\ PumpShape'
  <2>1. pump'.id \in Ids
    BY <1>0, <1>3, <1>7 DEF PumpShape
  <2> QED BY <1>0, <1>1, <1>3, <1>5, <1>7, <2>1, PumpFrame
<1>9. RequestShape' /\ OwnClaim'
  BY <1>0, <1>1, <1>3, <1>4, <1>7 DEF RequestShape, OwnClaim
<1>10. PromptOfPump'
  BY <1>0, <1>3, <1>6, <1>7 DEF PromptOfPump
<1>11. SubmittedWasPrompted'
  <2>1. \A i \in Ids : Moved(store[i], store'[i])
    BY <1>1 DEF Moved
  <2> QED BY <1>0, <1>6, <2>1, SubmittedKept
<1>12. OnlyOwnClaims'
  BY <1>0, <1>1, <1>3, <1>4, <1>7, OnlyOwnKept
<1>13. OneRequestEach'
  <2>1. ASSUME trouble \cap {"lapse", "sendFailed", "restart", "rerequest"} = {}, NEW m \in Messages
        PROVE  /\ prompted'[m] < 2
               /\ prompted'[m] > 0 => \E i \in Ids : m \in store[i].msgs /\ store[i].status # "pending"
    <3>1. /\ prompted[m] < 2
          /\ prompted[m] > 0 => \E i \in Ids : m \in store[i].msgs /\ store[i].status # "pending"
      BY <1>0, <2>1 DEF OneRequestEach
    <3>2. m \in pump.todo => /\ prompted[m] = 0
                             /\ \E i \in Ids : m \in store[i].msgs /\ store[i].status # "pending"
      BY <1>0, <1>1, <1>7, <2>1 DEF OneRequestEach
    <3> QED BY <1>2, <3>1, <3>2
  <2>2. \A s \in Senders : Asking(s)' = Asking(s)
    BY <1>4 DEF Asking
  <2> QED BY <1>0, <1>1, <1>4, <1>7, <2>1, <2>2 DEF OneRequestEach
<1> QED BY <1>8, <1>9, <1>10, <1>11, <1>12, <1>13 DEF IInv

\* The pump writes its answer to the request it claimed.
LEMMA AnswerKeeps ==
  ASSUME IInv, worker.up, worker.hook = "none", HoldsRequestClaim,
         UNCHANGED <<status, agent, prompted, trouble, pumpUnchanged>>,
         \/ /\ pump.pc = "writeSubmitted" /\ store' = Transitioned(store, pump.id, "submitted")
            /\ pump' = [pump EXCEPT !.pc = "recordSubmitted"]
         \/ /\ pump.pc = "writeFailed" /\ store' = Transitioned(store, pump.id, "failed")
            /\ pump' = [pump EXCEPT !.pc = "recordFailed"]
  PROVE  IInv'
<1>0. /\ TypeOK /\ PumpShape /\ RequestShape /\ OwnClaim /\ PromptOfPump
      /\ SubmittedWasPrompted /\ OnlyOwnClaims /\ OneRequestEach
      /\ store \in [Ids -> Request] /\ pump \in PumpState
  BY DEF IInv, TypeOK
<1>1. PICK to \in {"submitted", "failed"} :
        /\ store' = Transitioned(store, pump.id, to)
        /\ to = "submitted" => pump.pc = "writeSubmitted"
  OBVIOUS
<1>2. /\ pump' \in PumpState /\ pump'.id = pump.id /\ pump'.pc \in {"recordSubmitted", "recordFailed"}
  BY <1>0 DEF PumpState, PumpPc
<1>3. /\ pump.pc \in Claiming /\ pump.pc \in InFlight /\ pump.pc \notin Composed
      /\ pump'.pc \notin Claiming /\ pump'.pc \in InFlight /\ pump'.pc \notin Composed
  BY <1>2 DEF Claiming, InFlight, Composed
<1>4. pump.id \in Ids /\ to \in RequestStatus
  BY <1>0, <1>3 DEF PumpShape, RequestStatus
<1>5. /\ worker' = worker /\ inbox' = inbox /\ sender' = sender
      /\ delivered' = delivered /\ read' = read
  BY DEF pumpUnchanged, mailbox
<1>6. /\ store' \in [Ids -> Request] /\ store'[pump.id].status = to
      /\ \A i \in Ids : /\ store'[i].claim = store[i].claim /\ store'[i].promptMsgs = store[i].promptMsgs
                        /\ store'[i].msgs = store[i].msgs /\ store'[i].lapsed = store[i].lapsed
                        /\ i # pump.id => Moved(store[i], store'[i]) /\ store'[i].status = store[i].status
  BY <1>0, <1>1, <1>4, TransitionedMoves
<1>7. TypeOK' /\ PumpShape'
  <2>1. prompted' \in [Messages -> 0 .. 2] /\ agent' \in {"none", "prompted", "running"}
    BY <1>0 DEF TypeOK
  <2> QED BY <1>2, <1>3, <1>4, <1>6, <2>1, PumpFrame
<1>8. RequestShape'
  BY <1>0, <1>6, RequestShapeKept
<1>9. OwnClaim' /\ PromptOfPump'
  <2>1. pump'.pc \notin Claiming \cup {"claim"} /\ pump'.pc \notin {"sending", "checkSubmitted", "writeSubmitted"}
    BY <1>2, <1>3
  <2> QED BY <1>3, <2>1 DEF OwnClaim, PromptOfPump
<1>10. SubmittedWasPrompted'
  <2>1. pump.todo \in SUBSET Messages
    BY <1>0 DEF PumpState
  <2>2. store[pump.id].promptMsgs = pump.todo
    BY <1>0, <1>3 DEF OwnClaim, HoldsRequestClaim
  <2>3. to = "submitted" => pump.todo # {} /\ \A m \in pump.todo : prompted[m] > 0
    BY <1>0, <1>1, <1>3 DEF PromptOfPump
  <2>4. ASSUME NEW i \in Ids
        PROVE  \/ Moved(store[i], store'[i])
               \/ store'[i].status \notin {"submitted", "started", "completed"}
               \/ /\ store'[i].promptMsgs # {} /\ store'[i].promptMsgs \subseteq Messages
                  /\ \A m \in store'[i].promptMsgs : prompted'[m] > 0
    <3>1. CASE i # pump.id
      BY <1>6, <3>1
    <3>2. CASE i = pump.id /\ to = "failed"
      BY <1>6, <3>2
    <3>3. CASE i = pump.id /\ to = "submitted"
      <4>1. store'[i].promptMsgs = pump.todo /\ prompted' = prompted
        BY <1>6, <2>2, <3>3
      <4> QED BY <2>1, <2>3, <3>3, <4>1
    <3> QED BY <3>1, <3>2, <3>3
  <2>5. \A m \in Messages : prompted[m] > 0 => prompted'[m] > 0
    OBVIOUS
  <2> QED BY <1>0, <2>4, <2>5, SubmittedKept
<1>11. OnlyOwnClaims'
  <2>1. \A i \in Ids : /\ store'[i].status = "claimed" => store[i].status = "claimed" /\ i # pump.id
                       /\ store'[i].status = "pending" => store[i].status = "pending"
    BY <1>6
  <2> QED BY <1>0, <1>5, <1>6, <2>1, OnlyOwnKept
<1>12. OneRequestEach'
  <2>1. \A i \in Ids : /\ store'[i].msgs = store[i].msgs
                       /\ store[i].status # "pending" => store'[i].status # "pending"
    BY <1>6
  <2>2. \A s \in Senders : Asking(s)' \subseteq Asking(s)
    BY <1>5 DEF Asking
  <2> QED BY <1>0, <1>3, <1>5, <2>1, <2>2, OneRequestKept
<1> QED BY <1>7, <1>8, <1>9, <1>10, <1>11, <1>12 DEF IInv

LEMMA WritesKeep ==
  ASSUME IInv, WriteSubmitted \/ WriteFailed
  PROVE  IInv'
<1>1. /\ worker.up /\ worker.hook = "none"
      /\ UNCHANGED <<status, agent, prompted, trouble, pumpUnchanged>>
  BY DEF WriteSubmitted, WriteFailed, Pumping
<1>2. CASE HoldsRequestClaim
  BY <1>1, <1>2, AnswerKeeps DEF WriteSubmitted, WriteFailed, Pumping
<1>3. CASE ~HoldsRequestClaim /\ WriteSubmitted
  <2>1. pump' = IdlePump /\ store' = store /\ store[pump.id].claim # worker.incarnation
    BY <1>3 DEF WriteSubmitted, HoldsRequestClaim
  <2>2. status' \in WorkerStatus
    BY <1>1 DEF IInv, TypeOK
  <2> QED BY <1>1, <2>1, <2>2, PumpStops
<1>4. CASE ~HoldsRequestClaim /\ WriteFailed
  <2>1. /\ pump' = [pump EXCEPT !.pc = "recordFailed"] /\ store' = store
        /\ store[pump.id].claim # worker.incarnation /\ pump.pc = "writeFailed"
    BY <1>4 DEF WriteFailed, HoldsRequestClaim, Pumping
  <2>2. /\ status' \in WorkerStatus /\ agent' \in {"none", "prompted", "running"}
        /\ trouble' \subseteq Trouble /\ trouble' = trouble /\ pump \in PumpState
    BY <1>1 DEF IInv, TypeOK
  <2>3. pump' \in PumpState /\ pump'.pc = "recordFailed" /\ pump'.id = pump.id
    BY <2>1, <2>2 DEF PumpState, PumpPc
  <2>4. /\ UNCHANGED <<lease, leaseFresh, mailbox, worker, sender, store, prompted, turns>>
        /\ faults' = faults
    BY <1>1, <2>1 DEF pumpUnchanged, bounds
  <2>5. faults' \in 0 .. MaxFaults
    BY <2>4 DEF IInv, TypeOK
  <2>6. /\ pump.pc \in InFlight /\ pump'.pc \notin Claiming /\ pump'.pc \notin Composed
        /\ pump'.pc \notin Answering
    BY <2>1, <2>3 DEF InFlight, Claiming, Composed, Answering
  <2> QED BY <1>1, <2>1, <2>2, <2>3, <2>4, <2>5, <2>6, PumpPasses
<1> QED BY <1>2, <1>3, <1>4

-----------------------------------------------------------------------------
(***************************************************************************)
(* The turns of the session, and time.                                     *)
(***************************************************************************)

\* A hook moves a request that is out already, beside the pump.
LEMMA TurnKeeps ==
  ASSUME IInv, NEW k \in Ids, NEW to \in RequestStatus \ {"absent", "pending", "claimed"},
         store[k].status \in {"submitted", "started"}, store' = Transitioned(store, k, to),
         TypeOK', PumpShape', pump.pc \in {"idle", "sending"},
         UNCHANGED <<inbox, pump, sender, prompted, trouble>>,
         worker'.up = worker.up, worker'.incarnation = worker.incarnation
  PROVE  IInv'
<1>0. /\ TypeOK /\ PumpShape /\ RequestShape /\ OwnClaim /\ PromptOfPump
      /\ SubmittedWasPrompted /\ OnlyOwnClaims /\ OneRequestEach /\ store \in [Ids -> Request]
  BY DEF IInv, TypeOK
<1>1. to \in RequestStatus
  OBVIOUS
<1>2. /\ store' \in [Ids -> Request] /\ store'[k].status = to
      /\ \A i \in Ids : /\ store'[i].claim = store[i].claim /\ store'[i].promptMsgs = store[i].promptMsgs
                        /\ store'[i].msgs = store[i].msgs /\ store'[i].lapsed = store[i].lapsed
                        /\ i # k => Moved(store[i], store'[i]) /\ store'[i].status = store[i].status
  BY <1>0, <1>1, TransitionedMoves
<1>3. RequestShape'
  BY <1>0, <1>2, RequestShapeKept
<1>4. OwnClaim'
  <2>1. ASSUME pump.pc \in Claiming
        PROVE  Moved(store[pump.id], store'[pump.id]) \/ store'[pump.id].claim # worker.incarnation
    <3>1. pump.id \in Ids
      BY <1>0, <2>1 DEF PumpShape, Claiming
    <3>2. CASE pump.id = k
      <4>1. store[k].claim # worker.incarnation
        BY <1>0, <2>1, <3>2 DEF OwnClaim
      <4> QED BY <1>2, <3>2, <4>1
    <3> QED BY <1>2, <3>1, <3>2
  <2> QED BY <1>0, <2>1, OwnClaimKept
<1>5. PromptOfPump'
  BY <1>0 DEF PromptOfPump, Composed
<1>6. SubmittedWasPrompted'
  <2>1. ASSUME NEW i \in Ids
        PROVE  \/ Moved(store[i], store'[i])
               \/ /\ store[i].status \in {"submitted", "started", "completed"}
                  /\ store'[i].promptMsgs = store[i].promptMsgs
    BY <1>2
  <2>2. \A m \in Messages : prompted[m] > 0 => prompted'[m] > 0
    OBVIOUS
  <2> QED BY <1>0, <2>1, <2>2, SubmittedKept
<1>7. OnlyOwnClaims'
  <2>1. \A i \in Ids : /\ store'[i].status = "claimed" => store[i].status = "claimed"
                       /\ store'[i].status = "pending" => store[i].status = "pending"
    BY <1>2
  <2> QED BY <1>0, <1>2, <2>1, OnlyOwnKept
<1>8. OneRequestEach'
  <2>1. \A i \in Ids : /\ store'[i].msgs = store[i].msgs
                       /\ store[i].status # "pending" => store'[i].status # "pending"
    BY <1>2
  <2>2. \A s \in Senders : Asking(s)' \subseteq Asking(s)
    BY DEF Asking
  <2> QED BY <1>0, <2>1, <2>2, OneRequestKept
<1> QED BY <1>3, <1>4, <1>5, <1>6, <1>7, <1>8 DEF IInv

LEMMA AgentStartKeeps ==
  ASSUME IInv, AgentStart
  PROVE  IInv'
<1>0. /\ TypeOK /\ PumpShape /\ store \in [Ids -> Request] /\ worker \in WorkerState
  BY DEF IInv, TypeOK
<1>1. /\ worker.up /\ pump.pc \in {"idle", "sending"} /\ agent' = "running"
      /\ status' = status /\ delivered' = delivered /\ read' = read /\ trouble' = trouble
      /\ lease' = lease /\ inbox' = inbox /\ pump' = pump /\ sender' = sender
      /\ prompted' = prompted /\ faults' = faults
  BY DEF AgentStart, Free, turnUnchanged
<1>2. leaseFresh' \in BOOLEAN
  <2>1. leaseFresh' = leaseFresh
    BY DEF AgentStart, turnUnchanged
  <2> QED BY <1>0, <2>1 DEF TypeOK
<1>3. turns' \in 0 .. MaxTurns
  <2>1. turns' = turns \/ (turns < MaxTurns /\ turns' = turns + 1)
    BY DEF AgentStart
  <2>2. turns \in 0 .. MaxTurns
    BY <1>0 DEF TypeOK
  <2> QED BY <2>1, <2>2, BoundsType
<1>4. ASSUME store' \in [Ids -> Request], worker' \in WorkerState, worker'.up
      PROVE  TypeOK' /\ (worker'.incarnation = worker.incarnation => PumpShape')
  <2>1. TypeOK'
    BY <1>0, <1>1, <1>2, <1>3, <1>4 DEF TypeOK
  <2>2. pump.pc \notin Composed
    BY <1>1 DEF Composed
  <2>3. worker'.incarnation = worker.incarnation => PumpShape'
    BY <1>0, <1>1, <1>4, <2>2 DEF PumpShape
  <2> QED BY <2>1, <2>3
<1>5. CASE LatestSubmitted = {}
  <2>1. store' = store /\ worker' = [worker EXCEPT !.hook = "running"]
    BY <1>5 DEF AgentStart
  <2>2. /\ worker' \in WorkerState /\ worker'.up /\ worker'.incarnation = worker.incarnation
        /\ worker'.up = worker.up
    BY <1>0, <1>1, <2>1 DEF WorkerState
  <2>3. TypeOK' /\ PumpShape'
    BY <1>0, <1>4, <2>1, <2>2
  <2> QED BY <1>1, <2>1, <2>2, <2>3, BesideKeeps
<1>6. CASE LatestSubmitted # {}
  <2>1. PICK k \in LatestSubmitted :
          /\ store' = Transitioned(store, k, "started")
          /\ worker' = [worker EXCEPT !.hook = "deliver", !.ids = store[k].msgs]
    BY <1>6 DEF AgentStart
  <2>2. k \in Ids /\ store[k].status = "submitted"
    <3> DEFINE submitted == {i \in Ids : store[i].status = "submitted"}
               own == {i \in submitted : store[i].claim = lease}
    <3>1. \/ own # {} /\ k = Latest(store, own)
          \/ submitted # {} /\ k = Latest(store, submitted)
      BY <2>1 DEF LatestSubmitted
    <3>2. own \in SUBSET Ids /\ submitted \in SUBSET Ids /\ own \subseteq submitted
      OBVIOUS
    <3>3. k \in submitted
      <4> HIDE DEF own, submitted
      <4> QED BY <1>0, <3>1, <3>2, LatestIs
    <3> QED BY <3>3
  <2>3. "started" \in RequestStatus \ {"absent", "pending", "claimed"}
    BY DEF RequestStatus
  <2>4. store' \in [Ids -> Request]
    BY <1>0, <2>1, <2>2, <2>3, TransitionedMoves
  <2>5. /\ worker' \in WorkerState /\ worker'.up /\ worker'.incarnation = worker.incarnation
        /\ worker'.up = worker.up
    <3> DEFINE msgs == store[k].msgs
    <3>1. msgs \in SUBSET Messages
      BY <1>0, <2>2, RequestFields
    <3>2. worker' = [worker EXCEPT !.hook = "deliver", !.ids = msgs]
      BY <2>1
    <3> HIDE DEF msgs
    <3> QED BY <1>0, <1>1, <3>1, <3>2 DEF WorkerState
  <2>6. TypeOK' /\ PumpShape'
    BY <1>4, <2>4, <2>5
  <2> QED BY <1>1, <2>1, <2>2, <2>3, <2>5, <2>6, TurnKeeps
<1> QED BY <1>5, <1>6

LEMMA AgentEndKeeps ==
  ASSUME IInv, AgentEnd
  PROVE  IInv'
<1>0. /\ TypeOK /\ PumpShape /\ store \in [Ids -> Request] /\ worker \in WorkerState
  BY DEF IInv, TypeOK
<1>1. /\ worker.up /\ pump.pc \in {"idle", "sending"} /\ agent' = "none"
      /\ status' = status /\ delivered' = delivered /\ read' = read /\ trouble' = trouble
      /\ lease' = lease /\ inbox' = inbox /\ pump' = pump /\ sender' = sender
      /\ prompted' = prompted /\ faults' = faults /\ turns' = turns
      /\ worker' = [worker EXCEPT !.hook = "decide"]
  BY DEF AgentEnd, Free, turnUnchanged
<1>2. leaseFresh' \in BOOLEAN
  <2>1. leaseFresh' = leaseFresh
    BY DEF AgentEnd, turnUnchanged
  <2> QED BY <1>0, <2>1 DEF TypeOK
<1>3. /\ worker' \in WorkerState /\ worker'.up /\ worker'.incarnation = worker.incarnation
      /\ worker'.up = worker.up
  BY <1>0, <1>1 DEF WorkerState
<1>4. ASSUME store' \in [Ids -> Request]
      PROVE  TypeOK' /\ PumpShape'
  <2>1. TypeOK'
    BY <1>0, <1>1, <1>2, <1>3, <1>4 DEF TypeOK
  <2>2. PumpShape'
    BY <1>0, <1>1, <1>3 DEF PumpShape
  <2> QED BY <2>1, <2>2
<1> DEFINE started == {i \in Ids : store[i].status = "started"}
           k == Latest(store, started)
<1>5. CASE started = {}
  <2>1. store' = store
    BY <1>5 DEF AgentEnd
  <2>2. TypeOK' /\ PumpShape'
    BY <1>0, <1>4, <2>1
  <2> QED BY <1>1, <1>3, <2>1, <2>2, BesideKeeps
<1>6. CASE started # {}
  <2>1. store' = Transitioned(store, k, "completed")
    BY <1>6 DEF AgentEnd
  <2>2. k \in Ids /\ store[k].status = "started"
    <3>1. started \in SUBSET Ids
      OBVIOUS
    <3>2. k \in started
      <4> HIDE DEF started
      <4> QED BY <1>0, <1>6, <3>1, LatestIs
    <3> HIDE DEF k
    <3> QED BY <3>2
  <2> HIDE DEF k
  <2>3. "completed" \in RequestStatus \ {"absent", "pending", "claimed"}
    BY DEF RequestStatus
  <2>4. store' \in [Ids -> Request]
    BY <1>0, <2>1, <2>2, <2>3, TransitionedMoves
  <2>5. TypeOK' /\ PumpShape'
    BY <1>4, <2>4
  <2> QED BY <1>1, <1>3, <2>1, <2>2, <2>3, <2>5, TurnKeeps
<1> QED BY <1>5, <1>6

\* Time passes for a request.  For a claim the pump still holds that is a
\* cause of its own.
LEMMA AgesKeep ==
  ASSUME IInv, NEW k \in Ids,
         RequestGetsDue(k) \/ AbandonedClaimLapses(k) \/ SendOutlivesClaim(k)
  PROVE  IInv'
<1>0. /\ TypeOK /\ PumpShape /\ RequestShape /\ OwnClaim /\ PromptOfPump
      /\ SubmittedWasPrompted /\ OnlyOwnClaims /\ OneRequestEach /\ store \in [Ids -> Request]
  BY DEF IInv, TypeOK
<1>1. /\ lease' = lease /\ status' = status /\ inbox' = inbox /\ delivered' = delivered
      /\ read' = read /\ worker' = worker /\ pump' = pump /\ agent' = agent /\ sender' = sender
      /\ prompted' = prompted /\ turns' = turns
  BY DEF RequestGetsDue, AbandonedClaimLapses, SendOutlivesClaim, mailbox, bounds
<1>2. leaseFresh' \in BOOLEAN
  <2>1. leaseFresh' = leaseFresh
    BY DEF RequestGetsDue, AbandonedClaimLapses, SendOutlivesClaim
  <2> QED BY <1>0, <2>1 DEF TypeOK
<1>3. trouble \subseteq trouble' /\ trouble' \subseteq Trouble /\ faults' \in 0 .. MaxFaults
  <2>1. trouble \subseteq Trouble /\ faults \in 0 .. MaxFaults
    BY <1>0 DEF TypeOK
  <2>2. CASE RequestGetsDue(k) \/ AbandonedClaimLapses(k)
    BY <2>1, <2>2 DEF RequestGetsDue, AbandonedClaimLapses, bounds
  <2>3. CASE SendOutlivesClaim(k)
    <3>1. /\ faults < MaxFaults /\ faults' = faults + 1 /\ trouble' = trouble \cup {"lapse"}
      BY <2>3 DEF SendOutlivesClaim, Fault
    <3> QED BY <2>1, <3>1, BoundsType DEF Trouble
  <2> QED BY <2>2, <2>3
<1>4. /\ store[k].status # "absent"
      /\ store' = [store EXCEPT ![k].due = TRUE] \/ store' = [store EXCEPT ![k].lapsed = TRUE]
  BY DEF RequestGetsDue, AbandonedClaimLapses, SendOutlivesClaim
<1>5. /\ store' \in [Ids -> Request]
      /\ \A i \in Ids : /\ Moved(store[i], store'[i]) /\ store'[i].status = store[i].status
                        /\ store'[i].claim = store[i].claim /\ store'[i].msgs = store[i].msgs
                        /\ i # k => store'[i] = store[i]
  BY <1>0, <1>4, AgedMoves
<1>6. TypeOK' /\ PumpShape'
  BY <1>0, <1>1, <1>2, <1>3, <1>5 DEF TypeOK, PumpShape
<1>7. RequestShape'
  BY <1>0, <1>5, RequestShapeKept
<1>8. OwnClaim'
  <2>1. pump.pc \in Claiming => pump.id \in Ids
    BY <1>0 DEF PumpShape, Claiming
  <2> QED BY <1>0, <1>1, <1>5, <2>1, OwnClaimKept
<1>9. PromptOfPump'
  BY <1>0, <1>1 DEF PromptOfPump
<1>10. SubmittedWasPrompted'
  BY <1>0, <1>1, <1>5, SubmittedKept
<1>11. OnlyOwnClaims'
  <2>1. ASSUME trouble' \cap {"lapse", "restart"} = {}, store'[k].status = "claimed", store'[k].lapsed
        PROVE  store[k].lapsed
    <3>1. pump.pc \in Claiming /\ pump.id = k /\ store[k].claim = worker.incarnation
      BY <1>0, <1>3, <1>5, <2>1 DEF OnlyOwnClaims
    <3>2. ~AbandonedClaimLapses(k)
      BY <3>1 DEF AbandonedClaimLapses
    <3>3. ~SendOutlivesClaim(k)
      BY <2>1 DEF SendOutlivesClaim, Fault
    <3>4. store' = [store EXCEPT ![k].due = TRUE]
      BY <3>2, <3>3 DEF RequestGetsDue
    <3>5. store[k] \in Request
      BY <1>0
    <3> QED BY <1>0, <2>1, <3>4, <3>5 DEF Request
  <2> QED BY <1>0, <1>1, <1>3, <1>5, <2>1, OnlyOwnKept
<1>12. OneRequestEach'
  <2>1. \A s \in Senders : Asking(s)' \subseteq Asking(s)
    BY <1>1 DEF Asking
  <2> QED BY <1>0, <1>1, <1>3, <1>5, <2>1, OneRequestKept
<1> QED BY <1>6, <1>7, <1>8, <1>9, <1>10, <1>11, <1>12 DEF IInv

-----------------------------------------------------------------------------
LEMMA InitHolds == Init => IInv
<1> SUFFICES ASSUME Init PROVE IInv
  OBVIOUS
<1>1. /\ worker = [up |-> FALSE, incarnation |-> 0, hook |-> "none", ids |-> {}, next |-> "idle"]
      /\ pump = IdlePump /\ agent = "none" /\ trouble = {} /\ inbox = {}
      /\ store = [i \in Ids |-> NoRequest] /\ sender = [s \in Senders |-> IdleSender]
      /\ prompted = [m \in Messages |-> 0]
  BY DEF Init
<1>2. /\ worker \in WorkerState /\ ~worker.up /\ worker.incarnation = 0 /\ worker.hook = "none"
  BY <1>1, BoundsType DEF WorkerState, WorkerStatus
<1>3. NoRequest \in Request /\ NoRequest.status = "absent" /\ NoRequest.msgs = {}
  BY DEF NoRequest, Request, RequestStatus
<1>4. IdleSender \in SenderState /\ IdleSender.pc = "idle"
  BY DEF IdleSender, SenderState, WorkerStatus
<1>5. \A i \in Ids : store[i] = NoRequest
  BY <1>1
<1>6. /\ pump.pc = "idle" /\ pump \in PumpState
  BY <1>1, IdlePumpType
<1>7. pump.pc \notin Claiming /\ pump.pc \notin Composed /\ pump.pc \notin InFlight /\ pump.pc # "claim"
  BY <1>6 DEF Claiming, Composed, InFlight
<1>8. TypeOK
  <2>1. /\ store \in [Ids -> Request] /\ sender \in [Senders -> SenderState]
        /\ prompted \in [Messages -> 0 .. 2]
    BY <1>1, <1>3, <1>4
  <2>2. /\ lease \in 0 .. MaxIncarnations /\ faults \in 0 .. MaxFaults /\ turns \in 0 .. MaxTurns
    BY BoundsType DEF Init
  <2>3. leaseFresh \in BOOLEAN
    BY DEF Init
  <2>4. status \in WorkerStatus
    BY FsmType DEF Init, SpawnReserved, WorkerStatus
  <2>5. /\ inbox \subseteq Messages /\ delivered \subseteq inbox /\ read \subseteq inbox
        /\ agent \in {"none", "prompted", "running"} /\ trouble \subseteq Trouble
    BY DEF Init
  <2> QED BY <1>2, <1>6, <2>1, <2>2, <2>3, <2>4, <2>5 DEF TypeOK
<1>9. PumpShape
  BY <1>1, <1>2, <1>7 DEF PumpShape, IdlePump
<1>10. RequestShape /\ SubmittedWasPrompted
  BY <1>3, <1>5 DEF RequestShape, SubmittedWasPrompted
<1>11. OwnClaim /\ PromptOfPump
  BY <1>6, <1>7 DEF OwnClaim, PromptOfPump
<1>12. OnlyOwnClaims
  BY <1>2, <1>3, <1>5 DEF OnlyOwnClaims, PendingIds
<1>13. OneRequestEach
  <2>1. \A s \in Senders : Asking(s) = {}
    BY <1>1, <1>4 DEF Asking
  <2>2. \A m \in Messages : prompted[m] = 0
    BY <1>1
  <2> QED BY <1>3, <1>5, <1>7, <2>1, <2>2 DEF OneRequestEach
<1> QED BY <1>8, <1>9, <1>10, <1>11, <1>12, <1>13 DEF IInv

LEMMA NextKeeps ==
  ASSUME IInv, [Next]_vars
  PROVE  IInv'
<1>1. ASSUME NEW s \in Senders, SenderStep(s) PROVE IInv'
  BY <1>1, SenderStepKeeps, RequestDeliveryKeeps DEF SenderStep
<1>2. ASSUME NEW s \in Senders, NEW m \in Messages, Send(s, m) PROVE IInv'
  BY <1>2, SendKeeps
<1>3. ASSUME NEW s \in Senders, NEW m \in Messages, Rerequest(s, m) PROVE IInv'
  BY <1>3, RerequestKeeps
<1>4. CASE PublishBridgeLease
  BY <1>4, PublishKeeps
<1>5. CASE Heartbeat \/ StopBridge
  BY <1>5, HookKeeps
<1>6. CASE Crash
  BY <1>6, GoesKeeps
<1>7. CASE LeaseExpires \/ LeaseExpiresWhileUp
  BY <1>7, LeaseKeeps
<1>8. CASE PumpMaintain
  BY <1>8, PumpMaintainKeeps
<1>9. CASE PumpGoesOn
  BY <1>9, PumpStepKeeps, PumpReadKeeps, PumpClaimKeeps, PumpSubmitKeeps, WritesKeep DEF PumpGoesOn
<1>10. CASE SendThrows
  BY <1>10, SendThrowsKeeps
<1>11. CASE AgentStart
  BY <1>11, AgentStartKeeps
<1>12. CASE AgentEnd
  BY <1>12, AgentEndKeeps
<1>13. CASE HookGoesOn
  BY <1>13, HookKeeps, GoesKeeps, MarksKeep DEF HookGoesOn
<1>14. CASE \E msgs \in SUBSET Messages : ReceiveMessages(msgs)
  BY <1>14, MarksKeep
<1>15. ASSUME NEW i \in Ids, RequestGetsDue(i) \/ AbandonedClaimLapses(i) \/ SendOutlivesClaim(i)
       PROVE  IInv'
  BY <1>15, AgesKeep
<1>16. CASE UNCHANGED vars
  <2>1. /\ store' = store /\ lease' = lease /\ status' = status /\ inbox' = inbox
        /\ delivered' = delivered /\ read' = read /\ worker' = worker /\ pump' = pump
        /\ agent' = agent /\ sender' = sender /\ prompted' = prompted /\ trouble' = trouble
        /\ faults' = faults /\ turns' = turns
    BY <1>16 DEF vars, files, bounds
  <2>2. leaseFresh' \in BOOLEAN
    <3>1. leaseFresh' = leaseFresh
      BY <1>16 DEF vars, files
    <3> QED BY <3>1 DEF IInv, TypeOK
  <2>3. TypeOK' /\ PumpShape'
    BY <2>1, <2>2 DEF IInv, TypeOK, PumpShape
  <2> QED BY <2>1, <2>3, BesideKeeps
<1> QED BY <1>1, <1>2, <1>3, <1>4, <1>5, <1>6, <1>7, <1>8, <1>9, <1>10, <1>11, <1>12, <1>13,
           <1>14, <1>15, <1>16 DEF Next

-----------------------------------------------------------------------------
(***************************************************************************)
(* The theorems.                                                           *)
(***************************************************************************)

\* The inductive invariant holds in every state of every run: what the claim
\* of its own incarnation tells the pump when it writes its answer, and, as
\* long as nothing takes a claim back, that each message is in one request.
THEOREM Invariance == Spec => []IInv
<1>1. Init => IInv
  BY InitHolds
<1>2. IInv /\ [Next]_vars => IInv'
  BY NextKeeps
<1> QED BY <1>1, <1>2, PTL DEF Spec

\* The files, the worker's process, its session and the senders hold what
\* their types say.
THEOREM TypeCorrect == Spec => []TypeOK
<1>1. IInv => TypeOK
  BY DEF IInv
<1> QED BY <1>1, Invariance, PTL

\* A request recorded submitted, started or completed went to the session in
\* full: all messages of the prompt it carries were prompted, though the pump
\* writes that without the lock it checked the request under.
THEOREM SubmittedWereSent == Spec => []SubmittedWasPrompted
<1>1. IInv => SubmittedWasPrompted
  BY DEF IInv
<1> QED BY <1>1, Invariance, PTL

\* Requests of concurrent senders join the one that is pending, unless a claim
\* was taken back beside it (createOrRefreshDeliveryRequest).
THEOREM RequestsJoin == Spec => []PendingRequestsJoin
<1>1. ASSUME IInv PROVE PendingRequestsJoin
  <2> SUFFICES ASSUME trouble \cap {"lapse", "restart"} = {}
               PROVE  Cardinality(PendingIds(store)) <= 1
    BY DEF PendingRequestsJoin
  <2>1. \A i, j \in PendingIds(store) : i = j
    BY <1>1 DEF IInv, OnlyOwnClaims
  <2>2. CASE PendingIds(store) = {}
    <3>1. Cardinality(PendingIds(store)) = 0
      BY <2>2, FS_EmptySet
    <3> QED BY <3>1
  <2>3. CASE PendingIds(store) # {}
    <3>1. PICK i \in PendingIds(store) : TRUE
      BY <2>3
    <3>2. PendingIds(store) = {i}
      BY <2>1, <3>1
    <3>3. Cardinality(PendingIds(store)) = 1
      BY <3>2, FS_Singleton
    <3> QED BY <3>3
  <2> QED BY <2>2, <2>3
<1>2. IInv => PendingRequestsJoin
  BY <1>1
<1> QED BY <1>2, Invariance, PTL

\* A message is in two prompts only after a claim outlived its time, a send
\* failed, the worker restarted or the delivery effect ran again.
THEOREM ResentForCause == Spec => []NoResendWithoutCause
<1>1. ASSUME IInv, NEW m \in Messages, prompted[m] = 2
      PROVE  trouble \cap {"lapse", "sendFailed", "restart", "rerequest"} # {}
  BY <1>1 DEF IInv, OneRequestEach
<1>2. IInv => NoResendWithoutCause
  BY <1>1 DEF NoResendWithoutCause
<1> QED BY <1>2, Invariance, PTL

\* A prompt reaches the session only when no turn is on, and never with a
\* message that was delivered or read before (pumpBridgeOnceUnlocked).
THEOREM PromptsAreWelcome == Spec => PromptIsWelcome
<1>1. ASSUME IInv, [Next]_vars, NEW m \in Messages, prompted'[m] # prompted[m]
      PROVE  agent = "none" /\ m \notin delivered \cup read
  <2>1. prompted' # prompted
    BY <1>1
  <2>2. PumpSubmit
    <3>1. ASSUME NEW s \in Senders, SenderStep(s) PROVE FALSE
      BY <2>1, <3>1 DEF SenderStep, ReadSnapshot, PatchStatus, RequestDelivery,
         MarkBridgeWorkRequested, CheckBridge, MarkBridgeUnavailable, senderUnchanged
    <3>2. ASSUME NEW s \in Senders, NEW n \in Messages, Send(s, n) \/ Rerequest(s, n) PROVE FALSE
      BY <2>1, <3>2 DEF Send, Rerequest, senderUnchanged
    <3>3. ASSUME PublishBridgeLease \/ Heartbeat \/ StopBridge \/ Crash \/ LeaseExpires
                   \/ LeaseExpiresWhileUp
          PROVE  FALSE
      BY <2>1, <3>3 DEF PublishBridgeLease, Heartbeat, StopBridge, Crash, LeaseExpires,
         LeaseExpiresWhileUp, hookUnchanged
    <3>4. ASSUME PumpMaintain \/ SendThrows PROVE FALSE
      BY <2>1, <3>4 DEF PumpMaintain, SendThrows
    <3>5. ASSUME PumpGoesOn, ~PumpSubmit PROVE FALSE
      BY <2>1, <3>5 DEF PumpGoesOn, PumpMarkRequested, PumpClearRequested, PumpRead, PumpClaim,
         PumpHeartbeat, SendReturns, CheckSubmitted, WriteSubmitted, RecordSubmitted,
         CheckFailed, WriteFailed, RecordFailed
    <3>6. ASSUME AgentStart \/ AgentEnd \/ \E msgs \in SUBSET Messages : ReceiveMessages(msgs) PROVE FALSE
      BY <2>1, <3>6 DEF AgentStart, AgentEnd, ReceiveMessages, turnUnchanged
    <3>7. ASSUME HookGoesOn PROVE FALSE
      BY <2>1, <3>7 DEF HookGoesOn, MirrorBridgeLease, MarkSessionShutdown, MarkMessagesDelivered,
         MarkMemberRunning, DecideStatus, MarkMemberSettled, hookUnchanged, turnUnchanged
    <3>8. ASSUME NEW i \in Ids, RequestGetsDue(i) \/ AbandonedClaimLapses(i) \/ SendOutlivesClaim(i)
          PROVE  FALSE
      BY <2>1, <3>8 DEF RequestGetsDue, AbandonedClaimLapses, SendOutlivesClaim
    <3>9. ~ UNCHANGED vars
      BY <2>1 DEF vars
    <3> QED BY <1>1, <3>1, <3>2, <3>3, <3>4, <3>5, <3>6, <3>7, <3>8, <3>9 DEF Next
  <2>3. pump.pc = "submit" /\ m \in pump.todo
    BY <1>1, <2>2 DEF PumpSubmit, Pumping
  <2>4. agent = "none" /\ pump.todo \cap (delivered \cup read) = {}
    BY <1>1, <2>3 DEF IInv, PumpShape, PromptOfPump, Composed
  <2> QED BY <2>3, <2>4
<1>2. IInv /\ [Next]_vars =>
        [\A m \in Messages : prompted'[m] # prompted[m] =>
           agent = "none" /\ m \notin delivered \cup read]_vars
  BY <1>1
<1> QED BY <1>2, Invariance, PTL DEF Spec, PromptIsWelcome

\* What a step may do to a request.
AllowedMove(i) ==
  \/ store[i].status = store'[i].status
  \/ CanTransition(store[i].status, store'[i].status)
  \/ store[i].status = "absent" /\ store'[i].status = "pending"
  \/ store[i].status = "claimed" /\ store[i].lapsed /\ store'[i].status = "pending"
  \/ /\ store[i].status = "expired" /\ i = pump.id
     /\ pump.pc \in {"writeSubmitted", "writeFailed"}

LEMMA MovedIsAllowed ==
  ASSUME NEW i \in Ids, Moved(store[i], store'[i])
  PROVE  AllowedMove(i)
BY DEF Moved, Stays, Expires, TakenBack, Opened, AllowedMove, CanTransition, AllowedTransitions

LEMMA NextMovesAsAllowed ==
  ASSUME IInv, [Next]_vars, NEW i \in Ids
  PROVE  AllowedMove(i)
<1>0. /\ PumpShape /\ RequestShape /\ OwnClaim /\ store \in [Ids -> Request] /\ pump \in PumpState
  BY DEF IInv, TypeOK
<1>1. ASSUME store' = store PROVE AllowedMove(i)
  BY <1>1 DEF AllowedMove
<1>2. ASSUME NEW s \in Senders, RequestDelivery(s) PROVE AllowedMove(i)
  <2> DEFINE msgs == sender[s].msgs
  <2>1. /\ CanRequest(store) /\ store' = Requested(store, msgs)
        /\ \A j \in Ids : store[j].status = "absent" => store[j] = NoRequest
    BY <1>0, <1>2 DEF RequestDelivery, RequestShape
  <2>2. msgs \in SUBSET Messages
    BY DEF IInv, TypeOK, SenderState
  <2> HIDE DEF msgs
  <2>3. Moved(store[i], store'[i])
    BY <1>0, <2>1, <2>2, RequestedMoves
  <2> QED BY <2>3, MovedIsAllowed
<1>3. CASE PumpMaintain
  <2>1. Moved(store[i], store'[i])
    <3>1. store' = Maintained(store)
      BY <1>3 DEF PumpMaintain
    <3> QED BY <1>0, <3>1, MaintainedMoves DEF Moved
  <2> QED BY <2>1, MovedIsAllowed
<1>4. CASE PumpClaim
  <2>1. CASE PendingIds(store) = {}
    BY <1>1, <1>4, <2>1 DEF PumpClaim
  <2>2. CASE PendingIds(store) # {}
    <3> DEFINE k == Oldest(PendingIds(store))
               c == worker.incarnation
    <3>1. store' = ClaimedFor(store, k, c, pump.todo)
      BY <1>4, <2>2 DEF PumpClaim
    <3>2. k \in PendingIds(store)
      <4>1. PendingIds(store) \in SUBSET Ids
        BY DEF PendingIds
      <4> QED BY <2>2, <4>1, OldestIs
    <3>3. c \in Nat /\ pump.todo \in SUBSET Messages
      BY <1>0, BoundsType DEF IInv, TypeOK, WorkerState, PumpState
    <3> HIDE DEF k, c
    <3>4. k \in Ids /\ store[k].status = "pending"
      BY <3>2 DEF PendingIds
    <3>5. store'[k].status = "claimed" /\ (i # k => store'[i] = store[i])
      BY <1>0, <3>1, <3>3, <3>4, ClaimedMoves
    <3> QED BY <3>4, <3>5 DEF AllowedMove, CanTransition, AllowedTransitions
  <2> QED BY <2>1, <2>2
<1>5. CASE WriteSubmitted \/ WriteFailed
  <2>1. CASE store' = store
    BY <1>1, <2>1
  <2>2. CASE store' # store
    <3>1. PICK to \in {"submitted", "failed"} :
            /\ store' = Transitioned(store, pump.id, to)
            /\ HoldsRequestClaim /\ pump.pc \in {"writeSubmitted", "writeFailed"}
      BY <1>5, <2>2 DEF WriteSubmitted, WriteFailed, Pumping
    <3>2. pump.pc \in Claiming /\ pump.pc \in InFlight
      BY <3>1 DEF Claiming, InFlight
    <3>3. pump.id \in Ids /\ store[pump.id].status \in {"claimed", "expired"}
      BY <1>0, <3>1, <3>2 DEF PumpShape, OwnClaim, HoldsRequestClaim
    <3>4. to \in RequestStatus
      BY DEF RequestStatus
    <3>5. store'[pump.id].status = to /\ (i # pump.id => store'[i].status = store[i].status)
      BY <1>0, <3>1, <3>3, <3>4, TransitionedMoves
    <3> QED BY <3>1, <3>3, <3>5 DEF AllowedMove, CanTransition, AllowedTransitions
  <2> QED BY <2>1, <2>2
<1>6. CASE AgentStart
  <2>1. CASE LatestSubmitted = {}
    BY <1>1, <1>6, <2>1 DEF AgentStart
  <2>2. CASE LatestSubmitted # {}
    <3>1. PICK k \in LatestSubmitted : store' = Transitioned(store, k, "started")
      BY <1>6, <2>2 DEF AgentStart
    <3> DEFINE submitted == {j \in Ids : store[j].status = "submitted"}
               own == {j \in submitted : store[j].claim = lease}
    <3>2. \/ own # {} /\ k = Latest(store, own)
          \/ submitted # {} /\ k = Latest(store, submitted)
      BY <3>1 DEF LatestSubmitted
    <3>3. own \in SUBSET Ids /\ submitted \in SUBSET Ids /\ own \subseteq submitted
      OBVIOUS
    <3>4. k \in submitted
      <4> HIDE DEF own, submitted
      <4> QED BY <1>0, <3>2, <3>3, LatestIs
    <3>5. k \in Ids /\ store[k].status = "submitted" /\ "started" \in RequestStatus
      BY <3>4 DEF RequestStatus
    <3>6. store'[k].status = "started" /\ (i # k => store'[i].status = store[i].status)
      BY <1>0, <3>1, <3>5, TransitionedMoves
    <3> QED BY <3>5, <3>6 DEF AllowedMove, CanTransition, AllowedTransitions
  <2> QED BY <2>1, <2>2
<1>7. CASE AgentEnd
  <2> DEFINE started == {j \in Ids : store[j].status = "started"}
             k == Latest(store, started)
  <2>1. CASE started = {}
    BY <1>1, <1>7, <2>1 DEF AgentEnd
  <2>2. CASE started # {}
    <3>1. store' = Transitioned(store, k, "completed")
      BY <1>7, <2>2 DEF AgentEnd
    <3>2. k \in started
      <4>1. started \in SUBSET Ids
        OBVIOUS
      <4> HIDE DEF started
      <4> QED BY <1>0, <2>2, <4>1, LatestIs
    <3> HIDE DEF k
    <3>3. k \in Ids /\ store[k].status = "started" /\ "completed" \in RequestStatus
      BY <3>2 DEF RequestStatus
    <3>4. store'[k].status = "completed" /\ (i # k => store'[i].status = store[i].status)
      BY <1>0, <3>1, <3>3, TransitionedMoves
    <3> QED BY <3>3, <3>4 DEF AllowedMove, CanTransition, AllowedTransitions
  <2> QED BY <2>1, <2>2
<1>8. ASSUME NEW k \in Ids, RequestGetsDue(k) \/ AbandonedClaimLapses(k) \/ SendOutlivesClaim(k)
      PROVE  AllowedMove(i)
  <2>1. /\ store[k].status # "absent"
        /\ store' = [store EXCEPT ![k].due = TRUE] \/ store' = [store EXCEPT ![k].lapsed = TRUE]
    BY <1>8 DEF RequestGetsDue, AbandonedClaimLapses, SendOutlivesClaim
  <2>2. Moved(store[i], store'[i])
    BY <1>0, <2>1, AgedMoves
  <2> QED BY <2>2, MovedIsAllowed
<1>9. ASSUME NEW s \in Senders, SenderStep(s) PROVE AllowedMove(i)
  BY <1>1, <1>2, <1>9 DEF SenderStep, ReadSnapshot, PatchStatus, MarkBridgeWorkRequested, CheckBridge,
     MarkBridgeUnavailable
<1>10. ASSUME NEW s \in Senders, NEW m \in Messages, Send(s, m) \/ Rerequest(s, m) PROVE AllowedMove(i)
  BY <1>1, <1>10 DEF Send, Rerequest
<1>11. CASE PublishBridgeLease \/ Heartbeat \/ StopBridge \/ Crash \/ LeaseExpires
              \/ LeaseExpiresWhileUp
  BY <1>1, <1>11 DEF PublishBridgeLease, Heartbeat, StopBridge, Crash, LeaseExpires,
     LeaseExpiresWhileUp, files
<1>12. CASE PumpGoesOn
  BY <1>1, <1>4, <1>5, <1>12 DEF PumpGoesOn, PumpMarkRequested, PumpClearRequested, PumpRead,
     PumpHeartbeat, PumpSubmit, SendReturns, CheckSubmitted, RecordSubmitted, CheckFailed, RecordFailed
<1>13. CASE SendThrows
  BY <1>1, <1>13 DEF SendThrows, files
<1>14. CASE HookGoesOn
  BY <1>1, <1>14 DEF HookGoesOn, MirrorBridgeLease, MarkSessionShutdown, MarkMessagesDelivered,
     MarkMemberRunning, DecideStatus, MarkMemberSettled
<1>15. CASE \E msgs \in SUBSET Messages : ReceiveMessages(msgs)
  BY <1>1, <1>15 DEF ReceiveMessages
<1>16. CASE UNCHANGED vars
  BY <1>1, <1>16 DEF vars, files
<1> QED BY <1>3, <1>6, <1>7, <1>8, <1>9, <1>10, <1>11, <1>12, <1>13, <1>14, <1>15, <1>16 DEF Next

\* A request moves as allowedTransitions says or is taken back when its claim
\* lapsed; the one exception is the pump's answer written over an expiry that
\* fell between its check and its write (guardedTransition).
THEOREM RequestsMoveAsAllowed == Spec => MovesAsAllowed
<1>1. IInv /\ [Next]_vars =>
        [\A i \in Ids : store[i].status # store'[i].status =>
           \/ CanTransition(store[i].status, store'[i].status)
           \/ store[i].status = "absent" /\ store'[i].status = "pending"
           \/ store[i].status = "claimed" /\ store[i].lapsed /\ store'[i].status = "pending"
           \/ /\ store[i].status = "expired" /\ i = pump.id
              /\ pump.pc \in {"writeSubmitted", "writeFailed"}]_vars
  BY NextMovesAsAllowed DEF AllowedMove
<1> QED BY <1>1, Invariance, PTL DEF Spec, MovesAsAllowed
==============================================================================
