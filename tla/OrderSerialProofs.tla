-------------------------- MODULE OrderSerialProofs --------------------------
(***************************************************************************)
(* What OrderService and OrderSaga promise when the calls on an order come *)
(* one after the other and no save is cut off (Undisturbed): the           *)
(* documented life cycle, stock that is held while goods move and that is  *)
(* given back once.  Queries may still fail, timers fire and the process   *)
(* crash while no save is on the way, acknowledgements and sends may be    *)
(* lost, and Kafka may deliver a reply again.                              *)
(***************************************************************************)
EXTENDS OrderSagaProofs, FiniteSetTheorems

-----------------------------------------------------------------------------
(* The invariant.                                                          *)

(* Nothing has begun. *)
LEMMA SerialInvInit == Init => SerialInv
  BY DEF Init, SerialInv, Busy, Cancellers, CallsOn, Begun

(* Whoever has committed has begun. *)
LEMMA WritersHaveBegun == TypeOK /\ IInv => wrote \subseteq Begun
  BY DEF TypeOK, IInv, CallConsistent, Begun

(* A call is only taken when no other works on its order. *)
LEMMA BeginsAlone ==
  ASSUME Undisturbed, TypeOK,
         NEW c \in Calls, NEW r \in Offered, Begin(c, r),
         NEW d \in Calls, Busy(d)
  PROVE  req[d].order # r.order
<1>1. pc[c] = "idle" /\ pc'[c] # "idle" /\ req'[c] = r
  BY DEF Begin, Goto, TypeOK
<1>2. c # d
  BY <1>1 DEF Busy
<1> QED
  BY <1>1, <1>2 DEF Undisturbed

(* Steps that commit nothing leave the cancellations as they are. *)
LEMMA SameCancellers ==
  ASSUME TypeOK, IInv, [Next]_vars, wrote' = wrote, NEW o
  PROVE  Cancellers(o)' = Cancellers(o)
  BY WritersHaveBegun, HistoryGrows DEF Cancellers, CallsOn

(* A call that begins finds its order to itself; one that creates finds no *)
(* row.                                                                    *)
LEMMA SerialBegin ==
  ASSUME Undisturbed, TypeOK, IInv, SerialInv, [Next]_vars,
         NEW c \in Calls, NEW r \in Offered, Begin(c, r)
  PROVE  SerialInv'
<1>1. CallConsistent(c)
  BY DEF IInv
<1>2. /\ pc[c] = "idle" /\ seen'[c] = Absent
      /\ pc'[c] = IF r.op = "create" THEN "saving" ELSE "finding"
      /\ req'[c] = r
  BY <1>1 DEF Begin, Goto, TypeOK, CallConsistent
<1>3. \A d \in Calls \ {c} :
        pc'[d] = pc[d] /\ req'[d] = req[d] /\ seen'[d] = seen[d]
  BY DEF Begin, Goto, TypeOK
<1>4. row' = row /\ wrote' = wrote
  BY DEF Begin
<1>5. r.op = "create" => row[r.order] = Absent
  <2>1. r.order \in Orders
    BY OfferedAssumption DEF Requests
  <2> QED
    BY <2>1 DEF Begin, IInv, Backed
<1>6. \A d \in Calls \ {c} : Busy(d) => req[d].order # r.order
  BY BeginsAlone
<1>7. \A d \in Calls \ {c} : Busy(d)' = Busy(d)
  BY <1>3 DEF Busy
<1>8. ASSUME NEW d \in Calls
      PROVE  /\ pc'[d] # "orphaned"
             /\ pc'[d] = "saving" => seen'[d] = row'[req'[d].order]
  BY <1>2, <1>3, <1>4, <1>5 DEF SerialInv, Busy
<1>9. ASSUME NEW d \in Calls, NEW e \in Calls, Busy(d)', Busy(e)',
             req'[d].order = req'[e].order
      PROVE  d = e
  BY <1>2, <1>3, <1>6, <1>7, <1>9 DEF SerialInv
<1> QED
  BY <1>4, <1>8, <1>9, SameCancellers DEF SerialInv

(* An accepted operation does not start from CANCELLED, and cancelling     *)
(* leads there.                                                            *)
LEMMA CancelFacts ==
  ASSUME NEW s \in Snapshot, NEW op \in Operations, Accepts(s, op)
  PROVE  /\ s # "CANCELLED"
         /\ op = "cancel" => StatusAfter(s, op) = "CANCELLED"
  BY DEF Snapshot, Status, Absent, Operations, Accepts, Allowed, Target,
         StatusAfter

(* A save is executed on the row its call has read. *)
LEMMA SerialCommit ==
  ASSUME TypeOK, IInv, SerialInv, [Next]_vars,
         NEW c \in Calls, Save(c) \/ SaveOrphan(c) \/ AckLost(c)
  PROVE  SerialInv'
<1>1. pc[c] = "saving" /\ Busy(c) /\ c \in Begun
  BY DEF SerialInv, Save, SaveOrphan, AckLost, Busy, Begun
<1>2. c \notin wrote /\ Accepts(seen[c], req[c].op)
  BY <1>1 DEF IInv, CallConsistent
<1> PICK o \in Orders : o = req[c].order
  BY <1>1, RequestTypes
<1>3. row[o] # "CANCELLED" /\ Cancellers(o) = {}
  BY <1>1, <1>2, RequestTypes, CancelFacts DEF SerialInv, TypeOK
<1>4. /\ pc'[c] \in {"saved", "done"}
      /\ req' = req /\ seen' = seen /\ wrote' = wrote \cup {c}
      /\ \A d \in Calls \ {c} : pc'[d] = pc[d]
  BY <1>1 DEF Save, SaveOrphan, AckLost, Commit, Goto, TypeOK
<1>5. /\ row'[o] = StatusAfter(seen[c], req[c].op)
      /\ \A p \in Orders \ {o} : row'[p] = row[p]
  BY DEF Save, SaveOrphan, AckLost, Commit, TypeOK
<1>6. ASSUME NEW d \in Calls
      PROVE  /\ pc'[d] # "orphaned"
             /\ Busy(d)' => Busy(d)
             /\ pc'[d] = "saving" => seen'[d] = row'[req'[d].order]
  <2>1. CASE d = c
    BY <2>1, <1>1, <1>4 DEF SerialInv, Busy
  <2>2. CASE d # c
    <3>1. pc[d] = "saving" => req[d].order \in Orders \ {o}
      BY <2>2, <1>1, RequestTypes DEF SerialInv, Busy, Begun
    <3> QED
      BY <2>2, <3>1, <1>4, <1>5 DEF SerialInv, Busy
  <2> QED
    BY <2>1, <2>2
<1>7. \A d, e \in Calls : Busy(d)' /\ Busy(e)' /\ req'[d].order = req'[e].order => d = e
  BY <1>4, <1>6 DEF SerialInv
<1>8. ASSUME NEW p \in Orders
      PROVE  /\ \A d, e \in Cancellers(p)' : d = e
             /\ Cancellers(p)' # {} => row'[p] = "CANCELLED"
  <2>1. \A d \in Begun : d \in Begun' /\ req'[d] = req[d]
    BY HistoryGrows
  <2>2. Cancellers(p)' \subseteq
          Cancellers(p) \cup (IF p = o /\ req[c].op = "cancel" THEN {c} ELSE {})
    BY <2>1, <1>4, WritersHaveBegun DEF Cancellers, CallsOn
  <2>3. CASE p = o
    BY <2>2, <2>3, <1>1, <1>2, <1>3, <1>5, RequestTypes, CancelFacts DEF TypeOK
  <2>4. CASE p # o
    BY <2>2, <2>4, <1>5 DEF SerialInv
  <2> QED
    BY <2>3, <2>4
<1> QED
  BY <1>6, <1>7, <1>8 DEF SerialInv

(* The other steps of a call read the row, or end the call. *)
LEMMA SerialRest ==
  ASSUME Undisturbed, TypeOK, IInv, SerialInv, [Next]_vars, NEW c \in Calls,
         Find(c) \/ Refuse(c) \/ Publish(c) \/ QueryFails(c) \/ Timeout(c)
  PROVE  SerialInv'
<1>1. /\ row' = row /\ req' = req /\ wrote' = wrote
      /\ \A d \in Calls \ {c} : pc'[d] = pc[d] /\ seen'[d] = seen[d]
  BY DEF Find, Refuse, Publish, QueryFails, Timeout, Goto, TypeOK
<1>2. \/ pc'[c] = "done"
      \/ /\ pc[c] = "finding" /\ pc'[c] = "saving"
         /\ seen'[c] = row[req[c].order]
  BY DEF Find, Refuse, Publish, QueryFails, Timeout, Goto, TypeOK, Undisturbed
<1>3. ASSUME NEW d \in Calls
      PROVE  /\ pc'[d] # "orphaned"
             /\ Busy(d)' => Busy(d)
             /\ pc'[d] = "saving" => seen'[d] = row'[req'[d].order]
  BY <1>1, <1>2 DEF SerialInv, Busy
<1>4. \A d, e \in Calls : Busy(d)' /\ Busy(e)' /\ req'[d].order = req'[e].order => d = e
  BY <1>1, <1>3 DEF SerialInv
<1> QED
  BY <1>1, <1>3, <1>4, SameCancellers DEF SerialInv

(* What neither begins nor ends a call changes nothing here. *)
LEMMA SerialUntouched ==
  ASSUME SerialInv,
         row' = row, req' = req, pc' = pc, seen' = seen, wrote' = wrote
  PROVE  SerialInv'
  BY DEF SerialInv, Busy, Cancellers, CallsOn, Begun

(* A crash that cuts off no save leaves no handler at work. *)
LEMMA SerialCrash ==
  ASSUME Undisturbed, TypeOK, IInv, SerialInv, [Next]_vars, Crash
  PROVE  SerialInv'
<1>1. row' = row /\ req' = req /\ seen' = seen /\ wrote' = wrote
  BY DEF Crash
<1>2. ASSUME NEW d \in Calls PROVE pc'[d] # "orphaned" /\ pc'[d] # "saving" /\ ~ Busy(d)'
  BY DEF Crash, Undisturbed, SerialInv, Busy
<1> QED
  BY <1>1, <1>2, SameCancellers DEF SerialInv

(* Every step preserves the invariant. *)
LEMMA SerialInvNext ==
  ASSUME Undisturbed, TypeOK, IInv, SerialInv, [Next]_vars
  PROVE  SerialInv'
<1>1. ASSUME NEW c \in Calls, Step(c) PROVE SerialInv'
  BY <1>1, SerialBegin, SerialCommit, SerialRest DEF Step, Progress
<1>2. ASSUME NEW e \in outbox, StoreEvent(e) \/ DropEvent(e) PROVE SerialInv'
  BY <1>2, SerialUntouched DEF StoreEvent, DropEvent
<1>3. CASE Crash
  BY <1>3, SerialCrash
<1>4. CASE UNCHANGED vars
  BY <1>4, SerialUntouched DEF vars
<1> QED
  BY <1>1, <1>2, <1>3, <1>4 DEF Next

(* A step that changes nothing disturbs nobody. *)
LEMMA UndisturbedSteps ==
  ASSUME [Next /\ Undisturbed]_vars
  PROVE  [Next]_vars /\ Undisturbed
<1>1. CASE Next /\ Undisturbed
  BY <1>1
<1>2. CASE UNCHANGED vars
  BY <1>2 DEF vars, Undisturbed
<1> QED
  BY <1>1, <1>2

(* Calls that come one after the other are calls. *)
LEMMA SerialIsService == SerialSpec => Spec
<1>1. [Next /\ Undisturbed]_vars => [Next]_vars
  OBVIOUS
<1> QED
  BY <1>1, PTL DEF SerialSpec, Spec

(* When the calls on an order come one after the other and no save is cut  *)
(* off, no save starts from a stale row and no order is cancelled twice.   *)
THEOREM SerialInvariant == SerialSpec => [](TypeOK /\ IInv /\ SerialInv)
<1>1. Init => SerialInv
  BY SerialInvInit
<1>2. TypeOK /\ IInv /\ SerialInv /\ [Next /\ Undisturbed]_vars => SerialInv'
  BY UndisturbedSteps, SerialInvNext
<1> QED
  BY <1>1, <1>2, SerialIsService, InductiveInvariant, PTL DEF SerialSpec

-----------------------------------------------------------------------------
(* The life cycle.                                                         *)

(* The refinement mapping: the orders whose confirmation is committed, and *)
(* those whose compensation the broker has stored.                         *)
Confirmed == {o \in Orders : \E c \in CallsOn(o) \cap wrote : req[c].op = "confirm"}
Compensated == {o \in Orders : Published("stock.compensate", o)}

(* What an accepted operation does to a status is a transition of the life *)
(* cycle, but for a request for confirmation, which changes nothing.       *)
LEMMA TransitionFacts ==
  ASSUME NEW s \in Snapshot, NEW op \in Operations, Accepts(s, op)
  PROVE  \/ op = "create"  /\ s = Absent      /\ StatusAfter(s, op) = "PENDING"
         \/ op = "reserve"                    /\ StatusAfter(s, op) = s
         \/ op = "confirm" /\ s = "PENDING"   /\ StatusAfter(s, op) = "CONFIRMED"
         \/ /\ op = "cancel" /\ s \in {"PENDING", "CONFIRMED"}
            /\ StatusAfter(s, op) = "CANCELLED"
         \/ op = "ship"    /\ s = "CONFIRMED" /\ StatusAfter(s, op) = "SHIPPED"
         \/ op = "deliver" /\ s = "SHIPPED"   /\ StatusAfter(s, op) = "DELIVERED"
  BY DEF Snapshot, Status, Absent, Operations, Accepts, Allowed, Target,
         StatusAfter

(* What a commit leaves behind: the operation was accepted on the row as   *)
(* it is, and an order is confirmed by a confirmation only.                *)
LEMMA CommitEffect ==
  ASSUME TypeOK, IInv, SerialInv, [Next]_vars,
         NEW c \in Calls, Save(c) \/ SaveOrphan(c) \/ AckLost(c)
  PROVE  \E o \in Orders :
           /\ o = req[c].order
           /\ req[c].op \in Operations
           /\ Accepts(row[o], req[c].op)
           /\ row' = [row EXCEPT ![o] = StatusAfter(row[o], req[c].op)]
           /\ Confirmed' = Confirmed \cup (IF req[c].op = "confirm" THEN {o} ELSE {})
           /\ Compensated' = Compensated
<1>1. pc[c] = "saving" /\ c \in Begun
  BY DEF SerialInv, Save, SaveOrphan, AckLost, Begun
<1> PICK o \in Orders : o = req[c].order
  BY <1>1, RequestTypes
<1>2. seen[c] = row[o] /\ Accepts(row[o], req[c].op)
  BY <1>1 DEF SerialInv, IInv, CallConsistent
<1>3. /\ row' = [row EXCEPT ![o] = StatusAfter(row[o], req[c].op)]
      /\ req' = req /\ wrote' = wrote \cup {c} /\ topics' = topics
  BY <1>2 DEF Save, SaveOrphan, AckLost, Commit
<1>4. Begun' = Begun
  BY <1>1 DEF Save, SaveOrphan, AckLost, Goto, TypeOK, Begun
<1>5. Confirmed' = Confirmed \cup (IF req[c].op = "confirm" THEN {o} ELSE {})
  BY <1>1, <1>3, <1>4 DEF Confirmed, CallsOn
<1>6. Compensated' = Compensated
  BY <1>3 DEF Compensated, Published
<1> QED
  BY <1>1, <1>2, <1>3, <1>5, <1>6, RequestTypes

(* A commit is a transition of the life cycle, or no change at all.        *)
LEMMA CommitIsTransition ==
  ASSUME TypeOK, IInv, SerialInv, [Next]_vars,
         NEW c \in Calls, Save(c) \/ SaveOrphan(c) \/ AckLost(c)
  PROVE  [Lifecycle!Next]_(Lifecycle!vars)
<1> PICK o \in Orders :
           /\ o = req[c].order
           /\ req[c].op \in Operations
           /\ Accepts(row[o], req[c].op)
           /\ row' = [row EXCEPT ![o] = StatusAfter(row[o], req[c].op)]
           /\ Confirmed' = Confirmed \cup (IF req[c].op = "confirm" THEN {o} ELSE {})
           /\ Compensated' = Compensated
  BY CommitEffect
<1> PICK s \in Snapshot : s = row[o]
  BY DEF TypeOK
<1>1. CASE req[c].op = "create"
  <2>1. Lifecycle!Create(o)
    BY <1>1, TransitionFacts
    DEF Lifecycle!Create, Lifecycle!Move, Lifecycle!Absent, Absent,
        Confirmed, Compensated
  <2> QED
    BY <2>1 DEF Lifecycle!Next
<1>2. CASE req[c].op = "reserve"
  <2>1. row' = row /\ Confirmed' = Confirmed
    BY <1>2, TransitionFacts DEF TypeOK
  <2> QED
    BY <2>1 DEF Lifecycle!vars, Confirmed, Compensated
<1>3. CASE req[c].op = "confirm"
  <2>1. Lifecycle!Confirm(o)
    BY <1>3, TransitionFacts
    DEF Lifecycle!Confirm, Lifecycle!Move, Confirmed, Compensated
  <2> QED
    BY <2>1 DEF Lifecycle!Next
<1>4. CASE req[c].op = "cancel"
  <2>1. Lifecycle!Cancel(o)
    BY <1>4, TransitionFacts
    DEF Lifecycle!Cancel, Lifecycle!Move, Confirmed, Compensated
  <2> QED
    BY <2>1 DEF Lifecycle!Next
<1>5. CASE req[c].op = "ship"
  <2>1. Lifecycle!Ship(o)
    BY <1>5, TransitionFacts
    DEF Lifecycle!Ship, Lifecycle!Move, Confirmed, Compensated
  <2> QED
    BY <2>1 DEF Lifecycle!Next
<1>6. CASE req[c].op = "deliver"
  <2>1. Lifecycle!Deliver(o)
    BY <1>6, TransitionFacts
    DEF Lifecycle!Deliver, Lifecycle!Move, Confirmed, Compensated
  <2> QED
    BY <2>1 DEF Lifecycle!Next
<1> QED
  BY <1>1, <1>2, <1>3, <1>4, <1>5, <1>6 DEF Operations

(* Behind a compensation, sent or stored, stands the one cancellation of   *)
(* its order.                                                              *)
LEMMA CompensationHasCanceller ==
  ASSUME TypeOK, IInv, NEW e \in outbox \cup topics, e.type = "stock.compensate"
  PROVE  e.order \in Orders /\ e.call \in Cancellers(e.order)
<1>1. e.order \in Orders /\ e.call \in Calls /\ EventConsistent(e)
  BY DEF TypeOK, Events, IInv
<1>2. e.call \in wrote /\ e.call \in Begun
  BY <1>1, WritersHaveBegun DEF EventConsistent, IInv, CallConsistent
<1>3. req[e.call].op = "cancel"
  BY <1>1, <1>2, RequestTypes, CompensationFacts DEF EventConsistent, TypeOK
<1> QED
  BY <1>1, <1>2, <1>3 DEF Cancellers, CallsOn, EventConsistent

(* A compensation that reaches the broker releases a confirmed order that  *)
(* was cancelled; no other event means anything to the life cycle.         *)
LEMMA StoringReleases ==
  ASSUME TypeOK, IInv, SerialInv, [Next]_vars, NEW e \in outbox, StoreEvent(e)
  PROVE  [Lifecycle!Next]_(Lifecycle!vars)
<1>1. /\ row' = row /\ topics' = topics \cup {e}
      /\ Confirmed' = Confirmed
  BY DEF StoreEvent, Confirmed, CallsOn, Begun
<1>2. CASE e.type # "stock.compensate"
  <2>1. Compensated' = Compensated
    BY <1>1, <1>2 DEF Compensated, Published
  <2> QED
    BY <1>1, <2>1 DEF Lifecycle!vars, Confirmed, Compensated
<1>3. CASE e.type = "stock.compensate"
  <2> PICK o \in Orders : o = e.order
    BY <1>3, CompensationHasCanceller
  <2>1. Compensated' = Compensated \cup {o}
    BY <1>1, <1>3 DEF Compensated, Published
  <2>2. row[o] = "CANCELLED"
    BY <1>3, CompensationHasCanceller DEF SerialInv
  <2>3. o \in Confirmed
    <3>1. CompensationBacked
      BY CompensationIsBacked
    <3> QED
      BY <1>3, <3>1, WritersHaveBegun DEF CompensationBacked, Confirmed, CallsOn
  <2>4. CASE o \in Compensated
    BY <1>1, <2>1, <2>4 DEF Lifecycle!vars, Confirmed, Compensated
  <2>5. CASE o \notin Compensated
    <3>1. Lifecycle!Release(o)
      BY <1>1, <2>1, <2>2, <2>3, <2>5 DEF Lifecycle!Release, Confirmed, Compensated
    <3> QED
      BY <3>1 DEF Lifecycle!Next
  <2> QED
    BY <2>4, <2>5
<1> QED
  BY <1>2, <1>3

(* The life cycle sees nothing of the other steps. *)
LEMMA UnseenStep ==
  ASSUME TypeOK, IInv, [Next]_vars, row' = row, wrote' = wrote, topics' = topics
  PROVE  UNCHANGED Lifecycle!vars
<1>1. Confirmed' = Confirmed
  BY WritersHaveBegun, HistoryGrows DEF Confirmed, CallsOn
<1> QED
  BY <1>1 DEF Lifecycle!vars, Confirmed, Published

(* Every step of the service is a step of the life cycle, or none.         *)
LEMMA StepIsTransition ==
  ASSUME TypeOK, IInv, SerialInv, [Next]_vars
  PROVE  [Lifecycle!Next]_(Lifecycle!vars)
<1>1. ASSUME NEW c \in Calls, NEW r \in Offered, Begin(c, r)
      PROVE  UNCHANGED Lifecycle!vars
  BY <1>1, UnseenStep DEF Begin
<1>2. ASSUME NEW c \in Calls,
             Find(c) \/ Refuse(c) \/ Publish(c) \/ QueryFails(c) \/ Timeout(c)
      PROVE  UNCHANGED Lifecycle!vars
  BY <1>2, UnseenStep DEF Find, Refuse, Publish, QueryFails, Timeout
<1>3. ASSUME NEW c \in Calls, Save(c) \/ SaveOrphan(c) \/ AckLost(c)
      PROVE  [Lifecycle!Next]_(Lifecycle!vars)
  BY <1>3, CommitIsTransition
<1>4. ASSUME NEW e \in outbox, StoreEvent(e) PROVE [Lifecycle!Next]_(Lifecycle!vars)
  BY <1>4, StoringReleases
<1>5. ASSUME NEW e \in outbox, DropEvent(e) PROVE UNCHANGED Lifecycle!vars
  BY <1>5, UnseenStep DEF DropEvent
<1>6. CASE Crash
  BY <1>6, UnseenStep DEF Crash
<1>7. CASE UNCHANGED vars
  BY <1>7, UnseenStep DEF vars
<1> QED
  BY <1>1, <1>2, <1>3, <1>4, <1>5, <1>6, <1>7 DEF Next, Step, Progress

(* When the calls on an order come one after the other and no save is cut  *)
(* off, the service implements the documented life cycle, whatever queries *)
(* fail, whoever loses patience and whatever is lost.                      *)
THEOREM ServiceImplementsLifecycle == SerialSpec => ImplementsLifecycle
<1>1. Init => Lifecycle!Init
  BY DEF Init, Lifecycle!Init, Lifecycle!Absent, Absent, CallsOn, Published
<1>2. TypeOK /\ IInv /\ SerialInv /\ [Next]_vars => [Lifecycle!Next]_(Lifecycle!vars)
  BY StepIsTransition
<1> QED
  BY <1>1, <1>2, SerialInvariant, SerialIsService, PTL
  DEF Spec, ImplementsLifecycle, Lifecycle!Spec

(* The documented transitions, which overlapping calls break, are those    *)
(* the row makes when the calls on an order come one after the other.      *)
THEOREM TransitionsAreDocumented == SerialSpec => DocumentedTransitions
<1>1. ASSUME TypeOK, IInv, SerialInv, [Next]_vars, NEW p \in Orders, row'[p] # row[p]
      PROVE  /\ row'[p] = "CONFIRMED" => row[p] = "PENDING"
             /\ row'[p] = "SHIPPED"   => row[p] = "CONFIRMED"
             /\ row'[p] = "DELIVERED" => row[p] = "SHIPPED"
             /\ row'[p] = "CANCELLED" => row[p] \notin {"SHIPPED", "DELIVERED"}
  <2>1. PICK c \in Calls : Save(c) \/ SaveOrphan(c) \/ AckLost(c)
    BY <1>1 DEF Next, Step, Progress, Begin, Find, Refuse, Publish, QueryFails,
                Timeout, StoreEvent, DropEvent, Crash, vars
  <2>2. PICK o \in Orders :
               /\ req[c].op \in Operations
               /\ Accepts(row[o], req[c].op)
               /\ row' = [row EXCEPT ![o] = StatusAfter(row[o], req[c].op)]
    BY <1>1, <2>1, CommitEffect
  <2>3. p = o /\ row'[p] = StatusAfter(row[p], req[c].op) /\ row[p] \in Snapshot
    BY <1>1, <2>2 DEF TypeOK
  <2> QED
    BY <1>1, <2>2, <2>3, TransitionFacts
<1>2. TypeOK /\ IInv /\ SerialInv /\ [Next]_vars =>
        [\A o \in Orders : row'[o] # row[o] =>
           /\ row'[o] = "CONFIRMED" => row[o] = "PENDING"
           /\ row'[o] = "SHIPPED"   => row[o] = "CONFIRMED"
           /\ row'[o] = "DELIVERED" => row[o] = "SHIPPED"
           /\ row'[o] = "CANCELLED" => row[o] \notin {"SHIPPED", "DELIVERED"}]_row
  BY <1>1
<1> QED
  BY <1>2, SerialInvariant, SerialIsService, PTL DEF Spec, DocumentedTransitions

-----------------------------------------------------------------------------
(* The stock.                                                              *)

(* The stock service takes back what stock.compensate names, and nothing   *)
(* else.                                                                   *)
ReleasedInv == released \subseteq {e \in topics : e.type = "stock.compensate"}

(* It reads its topic, which only grows. *)
LEMMA ReleasedAreCompensations == SagaSpec => []ReleasedInv
<1>1. SagaInit => ReleasedInv
  BY DEF SagaInit, ReleasedInv
<1>2. TypeOK /\ ReleasedInv /\ [SagaNext]_allVars => ReleasedInv'
  <2> SUFFICES ASSUME TypeOK, ReleasedInv, [SagaNext]_allVars PROVE ReleasedInv'
    OBVIOUS
  <2>1. topics \subseteq topics'
    BY SagaStepIsServiceStep, HistoryGrows
  <2>2. \/ released' = released
        \/ \E e \in topics : e.type = "stock.compensate" /\ released' = released \cup {e}
    BY DEF SagaNext, Call, Deliver, Decide, Release, Serve, allVars, sagaVars
  <2> QED
    BY <2>1, <2>2 DEF ReleasedInv
<1> QED
  BY <1>1, <1>2, SagaImplementsOrderService, InductiveInvariant, PTL DEF SagaSpec

(* Only finitely many calls ask for reservations, and each is answered     *)
(* once.                                                                   *)
LEMMA ReservedIsFinite ==
  ASSUME SagaTypeOK, NEW o \in Orders
  PROVE  /\ IsFiniteSet(Reserved(o))
         /\ Cardinality(Reserved(o)) \in Nat
         /\ Reserved(o) # {} => Cardinality(Reserved(o)) >= 1
<1> DEFINE Grant == [c \in Calls |-> [type |-> "stock.reserved", order |-> o, cause |-> c]]
           Grants == {Grant[c] : c \in Calls}
<1>1. Grant \in Surjection(Calls, Grants)
  BY DEF Surjection
<1>2. IsFiniteSet(Grants)
  BY <1>1, BoundsAssumption, FS_Surjection
<1>3. Reserved(o) \in SUBSET Grants
  <2> SUFFICES ASSUME NEW m \in Reserved(o) PROVE m \in Grants
    OBVIOUS
  <2>1. m \in Replies /\ m.type = "stock.reserved" /\ m.order = o
    BY DEF Reserved, SagaTypeOK
  <2>2. m.cause \in Calls /\ m = Grant[m.cause]
    BY <2>1 DEF Replies
  <2> QED
    BY <2>2
<1>4. IsFiniteSet(Reserved(o))
  BY <1>2, <1>3, FS_Subset
<1> HIDE DEF Grant, Grants
<1>5. Cardinality(Reserved(o)) \in Nat
  BY <1>4, FS_CardinalityType
<1> QED
  BY <1>4, <1>5, FS_EmptySet

(* The saga under this condition is the saga, and the service in it is the *)
(* service under this condition.                                           *)
LEMMA SerialSagaIsBoth == SerialSagaSpec => SagaSpec /\ SerialSpec
<1>1. SagaInit => Init
  BY DEF SagaInit
<1>2. [SagaNext /\ Undisturbed]_allVars => [SagaNext]_allVars
  OBVIOUS
<1>3. [SagaNext /\ Undisturbed]_allVars => [Next /\ Undisturbed]_vars
  BY SagaStepIsServiceStep DEF allVars
<1> QED
  BY <1>1, <1>2, <1>3, PTL DEF SerialSagaSpec, SagaSpec, SerialSpec

(* The invariants of a saga whose orders are served one call at a time.    *)
LEMMA SerialSaga ==
  SerialSagaSpec => [](SagaTypeOK /\ IInv /\ SagaInv /\ SerialInv /\ ReleasedInv)
<1>1. SagaInit => SagaInv
  BY DEF SagaInit, Init, SagaInv, Granted, Absent, Begun
<1>2. TypeOK /\ IInv /\ SagaInv /\ [SagaNext]_allVars => SagaInv'
  BY SagaInvNext
<1> QED
  BY <1>1, <1>2, SagaTypeCorrectness, SerialSagaIsBoth, SerialInvariant,
     ReleasedAreCompensations, PTL DEF SagaSpec

(* Goods only move while their stock is held: nothing has been given back  *)
(* for an order that is confirmed, shipped or delivered, and at least one  *)
(* reservation was granted, when calls come one after the other.           *)
THEOREM GoodsMoveWithStock == SerialSagaSpec => []FulfilledHoldsStock
<1>1. ASSUME SagaTypeOK, IInv, SagaInv, SerialInv, ReleasedInv
      PROVE  FulfilledHoldsStock
  <2> USE <1>1
  <2> SUFFICES ASSUME NEW o \in Orders, row[o] \in {"CONFIRMED", "SHIPPED", "DELIVERED"}
               PROVE  Held(o) >= 1
    BY DEF FulfilledHoldsStock
  <2>1. Reserved(o) # {}
    BY DEF SagaInv, Granted
  <2>2. Released(o) = {}
    <3> SUFFICES ASSUME NEW e \in Released(o) PROVE FALSE
      OBVIOUS
    <3>1. e \in topics /\ e.type = "stock.compensate" /\ e.order = o
      BY DEF Released, ReleasedInv
    <3>2. e.call \in Cancellers(o)
      BY <3>1, CompensationHasCanceller DEF SagaTypeOK
    <3> QED
      BY <3>2 DEF SerialInv
  <2>3. Cardinality(Released(o)) = 0
    BY <2>2, FS_EmptySet
  <2> QED
    BY <2>1, <2>3, ReservedIsFinite DEF Held
<1> QED
  BY <1>1, SerialSaga, PTL

(* The stock service is not asked to take back more than it has given when *)
(* calls come one after the other: an order is compensated at most once,   *)
(* and only if its stock has been reserved.                                *)
THEOREM StockIsReleasedOnce == SerialSagaSpec => []NothingReleasedTwice
<1>1. ASSUME SagaTypeOK, IInv, SagaInv, SerialInv PROVE NothingReleasedTwice
  <2> USE <1>1
  <2> SUFFICES ASSUME NEW o \in Orders
               PROVE  Cardinality({e \in outbox \cup topics :
                                     e.type = "stock.compensate" /\ e.order = o})
                        <= Cardinality(Reserved(o))
    BY DEF NothingReleasedTwice
  <2> DEFINE C == {e \in outbox \cup topics :
                     e.type = "stock.compensate" /\ e.order = o}
  <2>1. CASE C = {}
    BY <2>1, FS_EmptySet, ReservedIsFinite
  <2>2. CASE C # {}
    <3> PICK e \in C : TRUE
      BY <2>2
    <3>1. ASSUME NEW f \in C PROVE f = e
      <4>1. e.call \in Cancellers(o) /\ f.call \in Cancellers(o)
        BY CompensationHasCanceller DEF SagaTypeOK
      <4>2. e.call = f.call
        BY <4>1 DEF SerialInv
      <4>3. e \in Events /\ f \in Events
        BY DEF SagaTypeOK, TypeOK
      <4> QED
        BY <4>2, <4>3 DEF Events
    <3>2. C = {e}
      BY <3>1
    <3>3. PICK d \in wrote : req[d].op = "confirm" /\ req[d].order = o
      BY CompensationIsBacked DEF SagaTypeOK, CompensationBacked
    <3>4. Reserved(o) # {}
      BY <3>3, WritersHaveBegun DEF SagaTypeOK, SagaInv
    <3>5. Cardinality(C) = 1
      BY <3>2, FS_Singleton
    <3> QED
      BY <3>4, <3>5, ReservedIsFinite
  <2> QED
    BY <2>1, <2>2
<1> QED
  BY <1>1, SerialSaga, PTL
=============================================================================
