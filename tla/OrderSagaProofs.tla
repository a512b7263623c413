--------------------------- MODULE OrderSagaProofs ---------------------------
(***************************************************************************)
(* Proofs about OrderSaga.  The saga is an environment of OrderService, so *)
(* that whatever is proved of the service holds of the saga; and no fault  *)
(* makes it fulfil an order whose stock was never granted.                 *)
(***************************************************************************)
EXTENDS OrderSaga, OrderServiceProofs

(* Every step of the saga is a step of the service or leaves it alone. *)
LEMMA SagaStepIsServiceStep == [SagaNext]_allVars => [Next]_vars
<1> SUFFICES ASSUME [SagaNext]_allVars PROVE [Next]_vars
  OBVIOUS
<1>1. ASSUME NEW c \in Calls, NEW r \in Offered, Call(c, r) PROVE Next
  BY <1>1 DEF Call, Next, Step
<1>2. ASSUME NEW c \in Deliveries, NEW m \in replies, Deliver(c, m) PROVE Next
  BY <1>2, DeliveriesAssumption DEF Deliver, Next, Step
<1>3. ASSUME NEW e \in topics, Decide(e) \/ Release(e) PROVE UNCHANGED vars
  BY <1>3 DEF Decide, Release
<1>4. CASE Serve
  BY <1>4 DEF Serve, Next, Step
<1>5. CASE UNCHANGED allVars
  BY <1>5 DEF allVars
<1> QED
  BY <1>1, <1>2, <1>3, <1>4, <1>5 DEF SagaNext

(* The saga implements the order service: it only decides when handlers of *)
(* replies begin.                                                          *)
THEOREM SagaImplementsOrderService == SagaSpec => Spec
<1>1. SagaInit => Init
  BY DEF SagaInit
<1> QED
  BY <1>1, SagaStepIsServiceStep, PTL DEF SagaSpec, Spec

-----------------------------------------------------------------------------
(* Type correctness.                                                       *)

(* The stock service answers requests for orders that exist as requests,   *)
(* the consumer handles what it has answered.                              *)
THEOREM SagaTypeCorrectness == SagaSpec => []SagaTypeOK
<1>1. SagaInit => SagaTypeOK
  BY TypeOKInit DEF SagaInit, SagaTypeOK
<1>2. SagaTypeOK /\ [SagaNext]_allVars => SagaTypeOK'
  <2> SUFFICES ASSUME SagaTypeOK, [SagaNext]_allVars PROVE SagaTypeOK'
    OBVIOUS
  <2>1. TypeOK /\ TypeOK' /\ [Next]_vars
    BY SagaStepIsServiceStep, TypeOKNext DEF SagaTypeOK
  <2>2. topics \subseteq topics' /\ \A c \in Begun : c \in Begun'
    BY <2>1, HistoryGrows
  <2>3. \A h \in handled : h.call \in Calls
    BY DeliveriesAssumption DEF SagaTypeOK
  <2>4. \A h \in handled : pc'[h.call] # "idle"
    BY <2>2, <2>3 DEF SagaTypeOK, Begun
  <2>5. ASSUME NEW c \in Deliveries, NEW m \in replies, Deliver(c, m)
        PROVE  SagaTypeOK'
    <3>1. pc'[c] # "idle"
      BY <2>1, <2>5, DeliveriesAssumption DEF Deliver, Begin, Goto, TypeOK
    <3> QED
      BY <2>1, <2>2, <2>4, <2>5, <3>1 DEF SagaTypeOK, Deliver
  <2>6. ASSUME NEW e \in topics, Decide(e) PROVE SagaTypeOK'
    <3>1. e.order \in Orders /\ e.call \in Calls
      BY <2>1 DEF TypeOK, Events
    <3>2. replies' \subseteq Replies /\ replies \subseteq replies'
      BY <2>6, <3>1 DEF SagaTypeOK, Decide, Replies
    <3> QED
      BY <2>1, <2>2, <2>4, <2>6, <3>2 DEF SagaTypeOK, Decide
  <2>7. ASSUME NEW e \in topics, Release(e) PROVE SagaTypeOK'
    BY <2>1, <2>2, <2>4, <2>7 DEF SagaTypeOK, Release
  <2>8. CASE UNCHANGED sagaVars
    BY <2>1, <2>2, <2>4, <2>8 DEF SagaTypeOK, sagaVars
  <2> QED
    BY <2>5, <2>6, <2>7, <2>8 DEF SagaNext, Call, Serve, allVars
<1> QED
  BY <1>1, <1>2, PTL DEF SagaSpec

-----------------------------------------------------------------------------
(* Nothing is fulfilled without a grant.                                   *)

(* A row only takes what a call under way leaves it, a call only reads     *)
(* what the row of its order shows, and a call that begins has read        *)
(* nothing.                                                                *)
LEMMA ReadsAndWrites ==
  ASSUME TypeOK, IInv, [Next]_vars
  PROVE  /\ \A o \in Orders :
              \/ row'[o] = row[o]
              \/ \E c \in Begun : /\ Accepts(seen[c], req[c].op)
                                 /\ req[c].order = o
                                 /\ row'[o] = StatusAfter(seen[c], req[c].op)
         /\ \A c \in Begun : seen'[c] = seen[c] \/ seen'[c] = row[req[c].order]
         /\ \A c \in Begun' \ Begun : seen'[c] = Absent
<1> DEFINE Shape ==
      /\ \A o \in Orders :
           \/ row'[o] = row[o]
           \/ \E c \in Begun : /\ Accepts(seen[c], req[c].op)
                              /\ req[c].order = o
                              /\ row'[o] = StatusAfter(seen[c], req[c].op)
      /\ \A c \in Begun : seen'[c] = seen[c] \/ seen'[c] = row[req[c].order]
      /\ \A c \in Begun' \ Begun : seen'[c] = Absent
<1>1. ASSUME NEW c \in Calls, NEW r \in Offered, Begin(c, r) PROVE Shape
  BY <1>1 DEF TypeOK, IInv, CallConsistent, Begin, Goto, Begun
<1>2. ASSUME NEW c \in Calls, Find(c) PROVE Shape
  BY <1>2 DEF TypeOK, Find, Goto, Begun
<1>3. ASSUME NEW c \in Calls, Save(c) \/ SaveOrphan(c) \/ AckLost(c) PROVE Shape
  <2>1. Accepts(seen[c], req[c].op) /\ c \in Begun
    BY <1>3 DEF Save, SaveOrphan, AckLost, IInv, CallConsistent, Begun
  <2>2. /\ row' = [row EXCEPT ![req[c].order] = StatusAfter(seen[c], req[c].op)]
        /\ seen' = seen
        /\ Begun' = Begun
    BY <1>3 DEF Save, SaveOrphan, AckLost, Commit, TypeOK, Goto, Begun
  <2> QED
    BY <2>1, <2>2 DEF TypeOK
<1>4. ASSUME NEW c \in Calls,
             Refuse(c) \/ Publish(c) \/ QueryFails(c) \/ Timeout(c)
      PROVE  Shape
  BY <1>4 DEF TypeOK, Refuse, Publish, QueryFails, Timeout, Goto, Begun
<1>5. ASSUME NEW e \in outbox, StoreEvent(e) \/ DropEvent(e) PROVE Shape
  BY <1>5 DEF StoreEvent, DropEvent, Begun
<1>6. CASE Crash
  BY <1>6 DEF TypeOK, Crash, Begun
<1>7. CASE UNCHANGED vars
  BY <1>7 DEF vars, Begun
<1> QED
  BY <1>1, <1>2, <1>3, <1>4, <1>5, <1>6, <1>7 DEF Next, Step, Progress

(* A call that begins with a confirmation handles a grant. *)
LEMMA ConfirmationsAreGranted ==
  ASSUME TypeOK, IInv, SagaInv, [SagaNext]_allVars
  PROVE  \A c \in Begun' \ Begun :
           req'[c].op = "confirm" => Reserved(req'[c].order) # {}
<1> SUFFICES ASSUME NEW c \in Begun' \ Begun, req'[c].op = "confirm"
             PROVE  Reserved(req'[c].order) # {}
  OBVIOUS
<1>1. ASSUME NEW d \in Calls, NEW r \in Offered, Call(d, r) PROVE FALSE
  BY <1>1 DEF Call, Begin, Goto, TypeOK, Begun
<1>2. ASSUME NEW d \in Deliveries, NEW m \in replies, Deliver(d, m)
      PROVE  Reserved(req'[c].order) # {}
  <2>1. req'[c] = Handling(m)
    BY <1>2, DeliveriesAssumption DEF Deliver, Begin, Goto, TypeOK, Begun
  <2>2. m.type = "stock.reserved" /\ req'[c].order = m.order
    BY <2>1 DEF Handling
  <2> QED
    BY <2>2 DEF Reserved
<1>3. ASSUME NEW e \in topics, Decide(e) \/ Release(e) PROVE FALSE
  BY <1>3 DEF Decide, Release, vars, Begun
<1>4. CASE Serve
  BY <1>4 DEF Serve, Progress, Find, Refuse, Save, SaveOrphan, Publish,
              QueryFails, AckLost, Timeout, Commit, Goto, StoreEvent,
              DropEvent, Crash, TypeOK, Begun
<1>5. CASE UNCHANGED allVars
  BY <1>5 DEF allVars, vars, Begun
<1> QED
  BY <1>1, <1>2, <1>3, <1>4, <1>5 DEF SagaNext

(* Every step of the saga preserves the invariant. *)
LEMMA SagaInvNext ==
  ASSUME TypeOK, IInv, SagaInv, [SagaNext]_allVars
  PROVE  SagaInv'
<1>1. replies \subseteq replies'
  BY DEF SagaNext, Call, Deliver, Decide, Release, Serve, sagaVars, allVars
<1>2. \A o : Reserved(o) # {} => Reserved(o)' # {}
  BY <1>1 DEF Reserved
<1>3. \A s, o : Granted(s, o) => Granted(s, o)'
  BY <1>2 DEF Granted
<1>4. [Next]_vars
  BY SagaStepIsServiceStep
<1>5. ASSUME NEW o \in Orders PROVE Granted(row[o], o)'
  <2>1. CASE row'[o] = row[o]
    BY <2>1, <1>3 DEF SagaInv, Granted
  <2>2. ASSUME NEW c \in Begun, Accepts(seen[c], req[c].op),
               req[c].order = o, row'[o] = StatusAfter(seen[c], req[c].op)
        PROVE  Granted(row[o], o)'
    <3>1. row'[o] \in {"CONFIRMED", "SHIPPED", "DELIVERED"} =>
            \/ req[c].op = "confirm"
            \/ seen[c] \in {"CONFIRMED", "SHIPPED", "DELIVERED"}
      BY <2>2, RequestTypes, OutcomeFacts DEF TypeOK
    <3> QED
      BY <2>2, <3>1, <1>2 DEF SagaInv, Granted
  <2> QED
    BY <2>1, <2>2, <1>4, ReadsAndWrites
<1>6. ASSUME NEW c \in Begun'
      PROVE  /\ Granted(seen[c], req[c].order)'
             /\ req'[c].op = "confirm" => Reserved(req[c].order)' # {}
  <2>1. CASE c \in Begun
    <3> PICK o \in Orders : o = req[c].order
      BY <2>1, RequestTypes
    <3>1. req'[c] = req[c]
      BY <2>1, <1>4, HistoryGrows
    <3>2. seen'[c] = seen[c] \/ seen'[c] = row[o]
      BY <2>1, <1>4, ReadsAndWrites
    <3>3. Granted(seen[c], o) /\ Granted(row[o], o)
      BY <2>1 DEF SagaInv
    <3>4. req[c].op = "confirm" => Reserved(o) # {}
      BY <2>1 DEF SagaInv
    <3> QED
      BY <3>1, <3>2, <3>3, <3>4, <1>2 DEF Granted
  <2>2. CASE c \notin Begun
    <3>1. seen'[c] = Absent
      BY <2>2, <1>4, ReadsAndWrites
    <3>2. req'[c].op = "confirm" => Reserved(req'[c].order) # {}
      BY <2>2, ConfirmationsAreGranted
    <3> QED
      BY <3>1, <3>2, <1>1 DEF Granted, Reserved, Absent
  <2> QED
    BY <2>1, <2>2
<1> QED
  BY <1>5, <1>6 DEF SagaInv

(* No order is confirmed, shipped or delivered without a reservation that  *)
(* the stock service granted, whatever overlaps, is redelivered or fails.  *)
THEOREM FulfilmentIsGranted == SagaSpec => []FulfilledWasGranted
<1>1. SagaInit => SagaInv
  BY DEF SagaInit, Init, SagaInv, Granted, Absent, Begun
<1>2. TypeOK /\ IInv /\ SagaInv /\ [SagaNext]_allVars => SagaInv'
  BY SagaInvNext
<1>3. SagaInv => FulfilledWasGranted
  BY DEF SagaInv, Granted, FulfilledWasGranted
<1> QED
  BY <1>1, <1>2, <1>3, SagaImplementsOrderService, InductiveInvariant, PTL
  DEF SagaSpec
=============================================================================
