-------------------------- MODULE OrderServiceProofs --------------------------
(***************************************************************************)
(* Proofs about OrderService, for every set of orders, calls and requests, *)
(* every degree of overlap and every combination of faults.                *)
(***************************************************************************)
EXTENDS OrderService, TLAPS

-----------------------------------------------------------------------------
(* Type correctness.                                                       *)

(* What the aggregate's operators return. *)
LEMMA AggregateTypes ==
  ASSUME NEW s \in Snapshot, NEW op \in Operations
  PROVE  /\ Refusal(s) \in Errors
         /\ StatusAfter(s, op) \in Snapshot
         /\ EventsOf(s, op) \subseteq EventTypes
  BY DEF Snapshot, Status, Absent, Operations, Accepts, Allowed, Target,
         Refusal, Errors, StatusAfter, EventsOf, EventTypes

(* A request that is served is made of an operation and an order. *)
LEMMA RequestTypes ==
  ASSUME TypeOK, NEW c \in Begun
  PROVE  /\ c \in Calls
         /\ req[c] \in Offered
         /\ req[c].op \in Operations
         /\ req[c].order \in Orders
  BY OfferedAssumption DEF TypeOK, Begun, Requests

(* The events a call records are well formed. *)
LEMMA RecordedTypes ==
  ASSUME TypeOK, NEW c \in Begun
  PROVE  Recorded(c) \subseteq Events
<1>1. seen[c] \in Snapshot
  BY RequestTypes DEF TypeOK
<1>2. EventsOf(seen[c], req[c].op) \subseteq EventTypes
  BY <1>1, RequestTypes, AggregateTypes
<1> QED
  BY <1>2, RequestTypes DEF Recorded, Events

(* The initial state is well typed. *)
LEMMA TypeOKInit == Init => TypeOK
  BY BoundsAssumption
  DEF Init, TypeOK, Snapshot, Phases, Answers, Events

(* Being told something keeps the answers well typed. *)
LEMMA AnswerTypes ==
  ASSUME TypeOK, NEW c \in Calls, NEW a \in Answers, Answer(c, a)
  PROVE  answer' \in [Calls -> Answers]
  BY DEF TypeOK, Answer, Answers

(* Committing a save keeps the row and the history well typed. *)
LEMMA CommitTypes ==
  ASSUME TypeOK, NEW c \in Begun, Commit(c)
  PROVE  row' \in [Orders -> Snapshot] /\ wrote' \subseteq Calls
<1>1. StatusAfter(seen[c], req[c].op) \in Snapshot
  BY RequestTypes, AggregateTypes DEF TypeOK
<1> QED
  BY <1>1, RequestTypes DEF TypeOK, Commit

(* Every step keeps every variable well typed. *)
LEMMA TypeOKNext == TypeOK /\ [Next]_vars => TypeOK'
<1> SUFFICES ASSUME TypeOK, [Next]_vars PROVE TypeOK'
  OBVIOUS
<1>1. ASSUME NEW c \in Calls, NEW r \in Offered, Begin(c, r) PROVE TypeOK'
  BY <1>1 DEF TypeOK, Begin, Goto, Phases
<1>2. ASSUME NEW c \in Calls, Find(c) PROVE TypeOK'
  <2>1. row[req[c].order] \in Snapshot
    BY <1>2, RequestTypes DEF Find, Begun, TypeOK
  <2> QED
    BY <1>2, <2>1 DEF TypeOK, Find, Goto, Phases
<1>3. ASSUME NEW c \in Calls, Refuse(c) PROVE TypeOK'
  <2>1. row[req[c].order] \in Snapshot
    BY <1>3, RequestTypes DEF Refuse, Begun, TypeOK
  <2>2. Refusal(row[req[c].order]) \in Answers
    BY <2>1, AggregateTypes DEF Answers, Operations
  <2>3. answer' \in [Calls -> Answers]
    BY <1>3, <2>2, AnswerTypes DEF Refuse
  <2> QED
    BY <1>3, <2>3 DEF TypeOK, Refuse, Goto, Phases
<1>4. ASSUME NEW c \in Calls, Save(c) \/ SaveOrphan(c) PROVE TypeOK'
  <2>1. row' \in [Orders -> Snapshot] /\ wrote' \subseteq Calls
    BY <1>4, CommitTypes DEF Save, SaveOrphan, Begun
  <2> QED
    BY <1>4, <2>1 DEF TypeOK, Save, SaveOrphan, Goto, Phases
<1>5. ASSUME NEW c \in Calls, Publish(c) PROVE TypeOK'
  <2>1. answer' \in [Calls -> Answers]
    BY <1>5, AnswerTypes DEF Publish, Answers
  <2>2. Recorded(c) \subseteq Events
    BY <1>5, RecordedTypes DEF Publish, Begun
  <2> QED
    BY <1>5, <2>1, <2>2 DEF TypeOK, Publish, Goto, Phases
<1>6. ASSUME NEW c \in Calls, QueryFails(c) PROVE TypeOK'
  <2>1. answer' \in [Calls -> Answers]
    BY <1>6, AnswerTypes DEF QueryFails, Answers, TypeOK
  <2> QED
    BY <1>6, <2>1 DEF TypeOK, QueryFails, Goto, Phases
<1>7. ASSUME NEW c \in Calls, AckLost(c) PROVE TypeOK'
  <2>1. row' \in [Orders -> Snapshot] /\ wrote' \subseteq Calls
    BY <1>7, CommitTypes DEF AckLost, Begun
  <2>2. answer' \in [Calls -> Answers]
    BY <1>7, AnswerTypes DEF AckLost, Answers
  <2> QED
    BY <1>7, <2>1, <2>2 DEF TypeOK, AckLost, Goto, Phases
<1>8. ASSUME NEW c \in Calls, Timeout(c) PROVE TypeOK'
  <2>1. answer' \in [Calls -> Answers]
    BY <1>8, AnswerTypes DEF Timeout, Answers
  <2> QED
    BY <1>8, <2>1 DEF TypeOK, Timeout, Goto, Phases
<1>9. ASSUME NEW e \in outbox, StoreEvent(e) \/ DropEvent(e) PROVE TypeOK'
  BY <1>9 DEF TypeOK, StoreEvent, DropEvent
<1>10. ASSUME Crash PROVE TypeOK'
  <2>1. pc' \in [Calls -> Phases] /\ \A c \in Calls : pc'[c] # "idle" => pc[c] # "idle"
    BY <1>10 DEF TypeOK, Crash, Phases
  <2>2. answer' \in [Calls -> Answers]
    BY <1>10 DEF TypeOK, Crash, Answers
  <2>3. crashes' \in 0 .. MaxCrashes
    BY <1>10, BoundsAssumption DEF TypeOK, Crash
  <2> QED
    BY <1>10, <2>1, <2>2, <2>3 DEF TypeOK, Crash
<1>11. CASE UNCHANGED vars
  BY <1>11 DEF TypeOK, vars
<1> QED
  BY <1>1, <1>2, <1>3, <1>4, <1>5, <1>6, <1>7, <1>8, <1>9, <1>10, <1>11
  DEF Next, Step, Progress

(* Every variable of the service keeps its type, whatever overlaps and     *)
(* whatever fails.                                                         *)
THEOREM TypeCorrectness == Spec => []TypeOK
  BY TypeOKInit, TypeOKNext, PTL DEF Spec
-----------------------------------------------------------------------------
(* The inductive invariant.                                                *)

(* An accepted operation starts from an existing order unless it creates   *)
(* one, and only a confirmation leads into the fulfilled statuses.         *)
LEMMA OutcomeFacts ==
  ASSUME NEW s \in Snapshot, NEW op \in Operations, Accepts(s, op)
  PROVE  /\ op = "create" \/ s # Absent
         /\ StatusAfter(s, op) \in {"CONFIRMED", "SHIPPED", "DELIVERED"} =>
              op = "confirm" \/ s \in {"CONFIRMED", "SHIPPED", "DELIVERED"}
  BY DEF Snapshot, Status, Absent, Operations, Accepts, Allowed, Target,
         StatusAfter

(* Creation is accepted when nothing has been read. *)
LEMMA CreateFacts == Accepts(Absent, "create")
  BY DEF Accepts

(* Requests, publications and commits are never taken back. *)
LEMMA HistoryGrows ==
  ASSUME TypeOK, [Next]_vars
  PROVE  /\ \A c \in Begun : c \in Begun' /\ req'[c] = req[c]
         /\ topics \subseteq topics'
         /\ wrote \subseteq wrote'
<1>1. ASSUME NEW c \in Calls, NEW r \in Offered, Begin(c, r)
      PROVE  /\ \A d \in Begun : d \in Begun' /\ req'[d] = req[d]
             /\ topics \subseteq topics' /\ wrote \subseteq wrote'
  BY <1>1 DEF TypeOK, Begun, Begin, Goto
<1>2. ASSUME NEW c \in Calls,
             \/ Find(c) \/ Refuse(c) \/ Save(c) \/ SaveOrphan(c) \/ Publish(c)
             \/ QueryFails(c) \/ AckLost(c) \/ Timeout(c)
      PROVE  /\ \A d \in Begun : d \in Begun' /\ req'[d] = req[d]
             /\ topics \subseteq topics' /\ wrote \subseteq wrote'
  BY <1>2 DEF TypeOK, Begun, Find, Refuse, Save, SaveOrphan, Publish,
              QueryFails, AckLost, Timeout, Commit, Goto
<1>3. ASSUME NEW e \in outbox, StoreEvent(e) \/ DropEvent(e)
      PROVE  /\ \A d \in Begun : d \in Begun' /\ req'[d] = req[d]
             /\ topics \subseteq topics' /\ wrote \subseteq wrote'
  BY <1>3 DEF Begun, StoreEvent, DropEvent
<1>4. ASSUME Crash
      PROVE  /\ \A d \in Begun : d \in Begun' /\ req'[d] = req[d]
             /\ topics \subseteq topics' /\ wrote \subseteq wrote'
  BY <1>4 DEF TypeOK, Begun, Crash
<1>5. CASE UNCHANGED vars
  BY <1>5 DEF vars, Begun
<1> QED
  BY <1>1, <1>2, <1>3, <1>4, <1>5 DEF Next, Step, Progress

(* What backed a status once backs it for ever. *)
LEMMA BackedStable ==
  ASSUME TypeOK, IInv, [Next]_vars, NEW s, NEW o, Backed(s, o)
  PROVE  Backed(s, o)'
<1>1. \A d \in wrote : d \in Begun
  BY DEF IInv, CallConsistent, TypeOK, Begun
<1> QED
  BY <1>1, HistoryGrows DEF Backed, CallsOn, Published

(* A call that is done changes no more. *)
LEMMA DoneFrozen ==
  ASSUME TypeOK, [Next]_vars, NEW d \in Calls, pc[d] = "done"
  PROVE  /\ pc'[d] = pc[d] /\ req'[d] = req[d] /\ seen'[d] = seen[d]
         /\ answer'[d] = answer[d] /\ (d \in wrote' <=> d \in wrote)
<1>1. ASSUME NEW c \in Calls, Step(c)
      PROVE  /\ pc'[d] = pc[d] /\ req'[d] = req[d] /\ seen'[d] = seen[d]
             /\ answer'[d] = answer[d] /\ (d \in wrote' <=> d \in wrote)
  BY <1>1 DEF TypeOK, Step, Progress, Begin, Find, Refuse, Save, SaveOrphan, Publish,
              QueryFails, AckLost, Timeout, Commit, Goto, Answer
<1>2. CASE Crash
  BY <1>2 DEF TypeOK, Crash
<1>3. ASSUME NEW e \in outbox, StoreEvent(e) \/ DropEvent(e)
      PROVE  /\ pc'[d] = pc[d] /\ req'[d] = req[d] /\ seen'[d] = seen[d]
             /\ answer'[d] = answer[d] /\ (d \in wrote' <=> d \in wrote)
  BY <1>3 DEF StoreEvent, DropEvent
<1>4. CASE UNCHANGED vars
  BY <1>4 DEF vars
<1> QED
  BY <1>1, <1>2, <1>3, <1>4 DEF Next

(* A call that a step leaves alone stays consistent. *)
LEMMA CallUntouched ==
  ASSUME TypeOK, IInv, [Next]_vars, NEW d \in Calls,
         pc'[d] = pc[d], req'[d] = req[d], seen'[d] = seen[d],
         answer'[d] = answer[d], d \in wrote' <=> d \in wrote
  PROVE  CallConsistent(d)'
<1>1. CallConsistent(d)
  BY DEF IInv
<1>2. pc[d] # "idle" => Backed(seen[d], req[d].order)'
  BY <1>1, BackedStable DEF CallConsistent
<1>3. Published("stock.reserve", req[d].order) =>
        Published("stock.reserve", req[d].order)'
  BY HistoryGrows DEF Published
<1> QED
  BY <1>1, <1>2, <1>3 DEF CallConsistent, Backed, Published, CallsOn

(* An event that is already out stays consistent. *)
LEMMA EventUntouched ==
  ASSUME TypeOK, IInv, [Next]_vars, NEW e \in outbox \cup topics
  PROVE  EventConsistent(e)'
<1>1. e.call \in Calls /\ EventConsistent(e)
  BY DEF TypeOK, Events, IInv
<1>2. pc[e.call] = "done"
  BY <1>1 DEF EventConsistent, IInv, CallConsistent
<1> QED
  BY <1>1, <1>2, DoneFrozen DEF EventConsistent

(* Nothing has happened yet, so the invariant holds. *)
LEMMA IInvInit == Init => IInv
  BY DEF Init, IInv, Backed, CallConsistent, Absent, Errors

(* A step by call c that writes no row, sends no event and leaves c        *)
(* consistent preserves the invariant.                                     *)
LEMMA LocalStep ==
  ASSUME TypeOK, IInv, [Next]_vars, NEW c \in Calls,
         row' = row, outbox' \cup topics' \subseteq outbox \cup topics,
         wrote' = wrote,
         \A d \in Calls \ {c} :
           /\ pc'[d] = pc[d] /\ req'[d] = req[d]
           /\ seen'[d] = seen[d] /\ answer'[d] = answer[d],
         CallConsistent(c)'
  PROVE  IInv'
<1>1. ASSUME NEW o \in Orders PROVE Backed(row[o], o)'
  BY BackedStable DEF IInv
<1>2. ASSUME NEW d \in Calls PROVE CallConsistent(d)'
  BY CallUntouched
<1>3. ASSUME NEW e \in outbox' \cup topics' PROVE EventConsistent(e)'
  <2>1. e \in outbox \cup topics
    OBVIOUS
  <2> QED
    BY <2>1, EventUntouched
<1> QED
  BY <1>1, <1>2, <1>3 DEF IInv

(* A call that begins has read nothing; a confirmation answers a           *)
(* reservation that has been published.                                    *)
LEMMA IInvBegin ==
  ASSUME TypeOK, IInv, [Next]_vars,
         NEW c \in Calls, NEW r \in Offered, Begin(c, r)
  PROVE  IInv'
<1>1. CallConsistent(c)
  BY DEF IInv
<1>2. /\ pc'[c] = IF r.op = "create" THEN "saving" ELSE "finding"
      /\ req'[c] = r /\ seen'[c] = Absent /\ answer'[c] = "none"
      /\ c \notin wrote'
  BY <1>1 DEF Begin, Goto, TypeOK, CallConsistent
<1>3. Backed(Absent, r.order)'
  BY DEF Backed, Absent
<1>4. r.op = "confirm" => Published("stock.reserve", r.order)'
  BY DEF Begin, Published
<1>5. CallConsistent(c)'
  BY <1>2, <1>3, <1>4, CreateFacts DEF CallConsistent, Errors
<1> QED
  BY <1>5, LocalStep DEF Begin, Goto, TypeOK

(* What a call reads is what the row shows, and that is backed. *)
LEMMA IInvFind ==
  ASSUME TypeOK, IInv, [Next]_vars, NEW c \in Calls, Find(c)
  PROVE  IInv'
<1>1. CallConsistent(c)
  BY DEF IInv
<1>2. c \in Begun /\ req[c].order \in Orders
  BY RequestTypes DEF Find, Begun
<1>3. /\ pc'[c] = "saving" /\ req'[c] = req[c] /\ answer'[c] = answer[c]
      /\ seen'[c] = row[req[c].order] /\ c \notin wrote'
  BY <1>1 DEF Find, Goto, TypeOK, CallConsistent
<1>4. Backed(row[req[c].order], req[c].order)'
  BY <1>2, BackedStable DEF IInv, Find
<1>5. CallConsistent(c)'
  BY <1>1, <1>3, <1>4 DEF CallConsistent, Find, Published, Errors
<1> QED
  BY <1>5, LocalStep DEF Find, Goto, TypeOK

(* A refused call ends without having written. *)
LEMMA IInvRefuse ==
  ASSUME TypeOK, IInv, [Next]_vars, NEW c \in Calls, Refuse(c)
  PROVE  IInv'
<1>1. CallConsistent(c)
  BY DEF IInv
<1>2. c \in Begun /\ req[c].order \in Orders
  BY RequestTypes DEF Refuse, Begun
<1>3. Refusal(row[req[c].order]) \in Errors
  BY <1>2, AggregateTypes DEF TypeOK, Operations
<1>4. /\ pc'[c] = "done" /\ req'[c] = req[c] /\ answer'[c] \in Errors \cup {"dlq"}
      /\ seen'[c] = Absent /\ c \notin wrote'
  BY <1>1, <1>3 DEF Refuse, Goto, Answer, TypeOK, CallConsistent
<1>5. Backed(Absent, req[c].order)'
  BY DEF Backed, Absent
<1>6. CallConsistent(c)'
  BY <1>1, <1>4, <1>5 DEF CallConsistent, Refuse, Published, Errors
<1> QED
  BY <1>6, LocalStep DEF Refuse, Goto, Answer, TypeOK
(* What c committed is backed: by what backed the status it had read, and  *)
(* if c creates or confirms, by c itself.                                  *)
LEMMA CommitBacked ==
  ASSUME TypeOK, IInv, [Next]_vars, NEW c \in Calls,
         pc[c] \in {"saving", "orphaned"}, Commit(c)
  PROVE  /\ \A o \in Orders : Backed(row[o], o)'
         /\ Backed(seen[c], req[c].order)
         /\ c \in wrote'
<1>1. CallConsistent(c) /\ c \in Begun
  BY DEF IInv, Begun
<1> PICK o \in Orders : o = req[c].order
  BY <1>1, RequestTypes
<1> PICK s : s = StatusAfter(seen[c], req[c].op)
  OBVIOUS
<1>2. Backed(seen[c], o) /\ Accepts(seen[c], req[c].op)
  BY <1>1 DEF CallConsistent
<1>3. c \in wrote' /\ row' = [row EXCEPT ![o] = s]
  BY DEF Commit
<1>4. /\ req[c].op = "create" \/ seen[c] # Absent
      /\ s \in {"CONFIRMED", "SHIPPED", "DELIVERED"} =>
           \/ req[c].op = "confirm"
           \/ seen[c] \in {"CONFIRMED", "SHIPPED", "DELIVERED"}
  BY <1>1, <1>2, RequestTypes, OutcomeFacts DEF TypeOK
<1>5. c \in Begun' /\ req'[c] = req[c]
  BY <1>1, HistoryGrows
<1>6. req[c].op = "confirm" => Published("stock.reserve", o)
  BY <1>1 DEF CallConsistent, Begun
<1>7. \A t, p : Published(t, p) => Published(t, p)'
  BY HistoryGrows DEF Published
<1>8. \E d \in Begun' : req'[d].order = o /\ req'[d].op = "create"
  <2>1. CASE req[c].op = "create"
    BY <2>1, <1>5
  <2>2. CASE seen[c] # Absent
    <3>1. PICK d \in CallsOn(o) : req[d].op = "create"
      BY <2>2, <1>2 DEF Backed
    <3> QED
      BY <3>1, HistoryGrows DEF CallsOn
  <2> QED
    BY <2>1, <2>2, <1>4
<1>9. ASSUME s \in {"CONFIRMED", "SHIPPED", "DELIVERED"}
      PROVE  /\ Published("stock.reserve", o)'
             /\ \E d \in wrote' : req'[d].op = "confirm" /\ req'[d].order = o
  <2>1. CASE req[c].op = "confirm"
    BY <2>1, <1>3, <1>5, <1>6, <1>7
  <2>2. CASE seen[c] \in {"CONFIRMED", "SHIPPED", "DELIVERED"}
    <3>1. PICK d \in wrote : req[d].op = "confirm" /\ req[d].order = o
      BY <2>2, <1>2 DEF Backed
    <3>2. d \in Begun
      BY DEF IInv, CallConsistent, TypeOK, Begun
    <3>3. Published("stock.reserve", o)
      BY <2>2, <1>2 DEF Backed
    <3> QED
      BY <3>1, <3>2, <3>3, <1>7, HistoryGrows
  <2> QED
    BY <1>4, <1>9, <2>1, <2>2
<1>10. ASSUME NEW p \in Orders PROVE Backed(row[p], p)'
  <2>1. CASE p = o
    <3>1. row'[p] = s
      BY <2>1, <1>1, <1>3 DEF TypeOK
    <3> QED
      BY <3>1, <2>1, <1>8, <1>9 DEF Backed, Absent, Published, CallsOn
  <2>2. CASE p # o
    <3>1. row'[p] = row[p]
      BY <2>2, <1>3 DEF TypeOK
    <3>2. Backed(row[p], p)
      BY DEF IInv
    <3> QED
      BY <3>1, <3>2, BackedStable
  <2> QED
    BY <2>1, <2>2
<1> QED
  BY <1>2, <1>3, <1>10
(* Save, SaveOrphan and AckLost differ in where c goes and in what its     *)
(* caller is told, never with a domain error.                              *)
LEMMA IInvCommit ==
  ASSUME TypeOK, IInv, [Next]_vars, NEW c \in Calls,
         Save(c) \/ SaveOrphan(c) \/ AckLost(c)
  PROVE  IInv'
<1>1. pc[c] \in {"saving", "orphaned"} /\ Commit(c)
  BY DEF Save, SaveOrphan, AckLost
<1>2. CallConsistent(c)
  BY DEF IInv
<1>3. /\ \A o \in Orders : Backed(row[o], o)'
      /\ Backed(seen[c], req[c].order)
      /\ c \in wrote'
  BY <1>1, CommitBacked
<1>4. /\ req' = req /\ seen' = seen
      /\ outbox' = outbox /\ topics' = topics
      /\ pc'[c] \in {"saved", "done"}
      /\ answer'[c] \in {answer[c], "failed", "dlq"}
      /\ pc'[c] = "saved" => answer'[c] = answer[c]
  BY DEF Save, SaveOrphan, AckLost, Goto, Answer, TypeOK
<1>5. \A d \in Calls \ {c} :
        /\ pc'[d] = pc[d] /\ answer'[d] = answer[d]
        /\ d \in wrote' <=> d \in wrote
  BY DEF Save, SaveOrphan, AckLost, Commit, Goto, Answer, TypeOK
<1>6. CallConsistent(c)'
  <2>1. Backed(seen[c], req[c].order)'
    BY <1>3, <1>4, BackedStable
  <2>2. answer'[c] \notin Errors \cup {"ok"}
    BY <1>1, <1>2, <1>4 DEF CallConsistent, Errors
  <2>3. req[c].op = "confirm" => Published("stock.reserve", req[c].order)'
    BY <1>1, <1>2, <1>4 DEF CallConsistent, Published
  <2> QED
    BY <1>3, <1>4, <2>1, <2>2, <2>3 DEF CallConsistent
<1>7. ASSUME NEW d \in Calls PROVE CallConsistent(d)'
  BY <1>4, <1>5, <1>6, CallUntouched
<1>8. ASSUME NEW e \in outbox' \cup topics' PROVE EventConsistent(e)'
  BY <1>4, EventUntouched
<1> QED
  BY <1>3, <1>7, <1>8 DEF IInv

(* The events handed to the Kafka client are those of a committed save. *)
LEMMA IInvPublish ==
  ASSUME TypeOK, IInv, [Next]_vars, NEW c \in Calls, Publish(c)
  PROVE  IInv'
<1>1. CallConsistent(c)
  BY DEF IInv
<1>2. /\ row' = row /\ req' = req /\ seen' = seen /\ wrote' = wrote
      /\ topics' = topics /\ outbox' = outbox \cup Recorded(c)
      /\ pc'[c] = "done" /\ answer'[c] = "ok" /\ c \in wrote
  BY <1>1 DEF Publish, Goto, Answer, TypeOK, CallConsistent
<1>3. ASSUME NEW o \in Orders PROVE Backed(row[o], o)'
  BY <1>2, BackedStable DEF IInv
<1>4. CallConsistent(c)'
  <2>1. Backed(seen[c], req[c].order)'
    BY <1>1, <1>2, BackedStable DEF CallConsistent, Publish
  <2> QED
    BY <1>1, <1>2, <2>1 DEF CallConsistent, Publish, Published, Errors
<1>5. ASSUME NEW d \in Calls PROVE CallConsistent(d)'
  BY <1>2, <1>4, CallUntouched DEF Publish, Goto, Answer, TypeOK
<1>6. ASSUME NEW e \in outbox' \cup topics' PROVE EventConsistent(e)'
  <2>1. CASE e \in outbox \cup topics
    BY <2>1, EventUntouched
  <2>2. CASE e \in Recorded(c)
    BY <2>2, <1>2 DEF Recorded, EventConsistent
  <2> QED
    BY <1>2, <2>1, <2>2
<1> QED
  BY <1>3, <1>5, <1>6 DEF IInv

(* A query that fails and a timer that fires end or orphan the call.       *)
LEMMA IInvGiveUp ==
  ASSUME TypeOK, IInv, [Next]_vars, NEW c \in Calls,
         QueryFails(c) \/ Timeout(c)
  PROVE  IInv'
<1>1. CallConsistent(c)
  BY DEF IInv
<1>2. /\ req' = req /\ seen' = seen /\ wrote' = wrote /\ topics' = topics
      /\ pc[c] \in {"finding", "saving", "orphaned", "saved"}
      /\ pc'[c] \in {"orphaned", "done"}
      /\ pc'[c] = "orphaned" => pc[c] = "saving"
      /\ answer'[c] \in {answer[c], "failed", "timedOut", "dlq"}
  BY DEF QueryFails, Timeout, Goto, Answer, TypeOK
<1>3. CallConsistent(c)'
  <2>1. Backed(seen[c], req[c].order)'
    BY <1>1, <1>2, BackedStable DEF CallConsistent
  <2>2. answer'[c] \notin Errors \cup {"ok"}
    BY <1>1, <1>2 DEF CallConsistent, Errors
  <2> QED
    BY <1>1, <1>2, <2>1, <2>2 DEF CallConsistent, Published
<1> QED
  BY <1>3, LocalStep DEF QueryFails, Timeout, Goto, Answer, TypeOK

(* Storing or losing an event tells nothing new. *)
LEMMA IInvBroker ==
  ASSUME TypeOK, IInv, [Next]_vars,
         NEW e \in outbox, StoreEvent(e) \/ DropEvent(e)
  PROVE  IInv'
<1>1. /\ row' = row /\ req' = req /\ pc' = pc /\ seen' = seen
      /\ answer' = answer /\ wrote' = wrote
      /\ outbox' \cup topics' \subseteq outbox \cup topics
  BY DEF StoreEvent, DropEvent
<1>2. ASSUME NEW o \in Orders PROVE Backed(row[o], o)'
  BY <1>1, BackedStable DEF IInv
<1>3. ASSUME NEW d \in Calls PROVE CallConsistent(d)'
  BY <1>1, CallUntouched
<1>4. ASSUME NEW f \in outbox' \cup topics' PROVE EventConsistent(f)'
  BY <1>1, EventUntouched
<1> QED
  BY <1>2, <1>3, <1>4 DEF IInv

(* A crash forgets unsent events and unanswered calls, and no more. *)
LEMMA IInvCrash ==
  ASSUME TypeOK, IInv, [Next]_vars, Crash
  PROVE  IInv'
<1>1. /\ row' = row /\ req' = req /\ seen' = seen /\ wrote' = wrote
      /\ topics' = topics /\ outbox' = {}
  BY DEF Crash
<1>2. ASSUME NEW o \in Orders PROVE Backed(row[o], o)'
  BY <1>1, BackedStable DEF IInv
<1>3. ASSUME NEW d \in Calls PROVE CallConsistent(d)'
  <2>1. CASE pc[d] \in {"finding", "saving", "saved"}
    <3>1. CallConsistent(d)
      BY DEF IInv
    <3>2. /\ pc'[d] = IF pc[d] = "saving" THEN "orphaned" ELSE "done"
          /\ answer'[d] = "lost"
      BY <2>1 DEF Crash
    <3>3. Backed(seen[d], req[d].order)'
      BY <2>1, <3>1, <1>1, BackedStable DEF CallConsistent
    <3> QED
      BY <2>1, <3>1, <3>2, <3>3, <1>1 DEF CallConsistent, Published, Errors
  <2>2. CASE pc[d] \notin {"finding", "saving", "saved"}
    BY <2>2, <1>1, CallUntouched DEF Crash
  <2> QED
    BY <2>1, <2>2
<1>4. ASSUME NEW f \in outbox' \cup topics' PROVE EventConsistent(f)'
  BY <1>1, EventUntouched
<1> QED
  BY <1>2, <1>3, <1>4 DEF IInv

(* Every step preserves the invariant. *)
LEMMA IInvNext == TypeOK /\ IInv /\ [Next]_vars => IInv'
<1> SUFFICES ASSUME TypeOK, IInv, [Next]_vars PROVE IInv'
  OBVIOUS
<1>1. ASSUME NEW c \in Calls, Step(c) PROVE IInv'
  BY <1>1, IInvBegin, IInvFind, IInvRefuse, IInvCommit, IInvPublish,
     IInvGiveUp DEF Step, Progress
<1>2. ASSUME NEW e \in outbox, StoreEvent(e) \/ DropEvent(e) PROVE IInv'
  BY <1>2, IInvBroker
<1>3. CASE Crash
  BY <1>3, IInvCrash
<1>4. CASE UNCHANGED vars
  <2>1. /\ row' = row /\ req' = req /\ pc' = pc /\ seen' = seen
        /\ answer' = answer /\ wrote' = wrote
        /\ outbox' = outbox /\ topics' = topics
    BY <1>4 DEF vars
  <2>2. ASSUME NEW o \in Orders PROVE Backed(row[o], o)'
    BY <2>1, BackedStable DEF IInv
  <2>3. ASSUME NEW d \in Calls PROVE CallConsistent(d)'
    BY <2>1, CallUntouched
  <2>4. ASSUME NEW e \in outbox' \cup topics' PROVE EventConsistent(e)'
    BY <2>1, EventUntouched
  <2> QED
    BY <2>2, <2>3, <2>4 DEF IInv
<1> QED
  BY <1>1, <1>2, <1>3, <1>4 DEF Next

(* The inductive invariant holds in every reachable state. *)
THEOREM InductiveInvariant == Spec => [](TypeOK /\ IInv)
<1>1. Init => TypeOK /\ IInv
  BY TypeOKInit, IInvInit
<1>2. TypeOK /\ IInv /\ [Next]_vars => (TypeOK /\ IInv)'
  BY TypeOKNext, IInvNext
<1> QED
  BY <1>1, <1>2, PTL DEF Spec
-----------------------------------------------------------------------------
(* The safety properties.                                                  *)

(* No order is shown confirmed, shipped or delivered before a reservation  *)
(* of its stock has been published.                                        *)
THEOREM ReservationPrecedesFulfilment == Spec => []FulfilledWasReserved
<1>1. IInv => FulfilledWasReserved
  BY DEF IInv, Backed, FulfilledWasReserved
<1> QED
  BY <1>1, InductiveInvariant, PTL

(* A compensation is only recorded by a cancellation that read CONFIRMED.  *)
LEMMA CompensationFacts ==
  ASSUME NEW s \in Snapshot, NEW op \in Operations,
         "stock.compensate" \in EventsOf(s, op)
  PROVE  op = "cancel" /\ s = "CONFIRMED"
  BY DEF Operations, EventsOf

(* Behind every compensation stands a committed confirmation. *)
LEMMA CompensationIsBacked == TypeOK /\ IInv => CompensationBacked
<1> SUFFICES ASSUME TypeOK, IInv,
                    NEW e \in outbox \cup topics, e.type = "stock.compensate"
             PROVE  \E d \in wrote \ {e.call} :
                      req[d].op = "confirm" /\ req[d].order = e.order
  BY DEF CompensationBacked
<1> PICK c \in Calls : c = e.call
  BY DEF TypeOK, Events
<1>1. EventConsistent(e) /\ CallConsistent(c)
  BY DEF IInv
<1>2. c \in Begun
  BY <1>1 DEF EventConsistent, CallConsistent, Begun
<1>3. req[c].op = "cancel" /\ seen[c] = "CONFIRMED"
  BY <1>1, <1>2, RequestTypes, CompensationFacts DEF EventConsistent, TypeOK
<1>4. PICK d \in wrote : req[d].op = "confirm" /\ req[d].order = req[c].order
  BY <1>1, <1>2, <1>3 DEF CallConsistent, Begun, Backed
<1>5. d # c
  BY <1>3, <1>4
<1> QED
  BY <1>1, <1>4, <1>5 DEF EventConsistent

(* Stock is never given back for an order nobody confirmed.                *)
THEOREM CompensationNeedsConfirmation == Spec => []CompensationBacked
  BY CompensationIsBacked, InductiveInvariant, PTL

(* No event announces what was not saved. *)
THEOREM AnnouncementsAreTrue == Spec => []AnnouncedWasSaved
<1>1. ASSUME TypeOK, IInv PROVE AnnouncedWasSaved
  BY <1>1 DEF TypeOK, Events, IInv, EventConsistent, CallConsistent,
              AnnouncedWasSaved
<1> QED
  BY <1>1, InductiveInvariant, PTL

(* Success means committed; a domain error means without effect. *)
THEOREM AnswersCanBeTrusted == Spec => []AnswersAreHonest
<1>1. ASSUME TypeOK, IInv PROVE AnswersAreHonest
  <2> SUFFICES ASSUME NEW c \in Begun
               PROVE  /\ answer[c] = "ok" => c \in wrote
                      /\ answer[c] \in Errors =>
                           /\ pc[c] = "done"
                           /\ c \notin wrote
                           /\ \A e \in outbox \cup topics : e.call # c
    BY DEF AnswersAreHonest
  <2>1. CallConsistent(c)
    BY <1>1 DEF IInv, Begun
  <2>2. answer[c] \in Errors => \A e \in outbox \cup topics : e.call # c
    BY <1>1 DEF IInv, EventConsistent, Errors
  <2> QED
    BY <2>1, <2>2 DEF CallConsistent
<1> QED
  BY <1>1, InductiveInvariant, PTL

(* Nothing but creation is accepted where there is no row, and nothing at  *)
(* all where the status is final.                                          *)
LEMMA FinalFacts ==
  ASSUME NEW s \in {"CANCELLED", "DELIVERED"}, NEW op \in Operations
  PROVE  ~ Accepts(s, op)
  BY DEF Operations, Accepts, Allowed, Target, Absent

(* Once the saves under way have been executed, CANCELLED and DELIVERED    *)
(* are final.                                                              *)
THEOREM FinalStatusesAreFinal == Spec => SettledIsFinal
<1>1. ASSUME TypeOK, IInv, [Next]_vars, NEW o \in Orders,
             row[o] \in {"CANCELLED", "DELIVERED"}, Quiet(o)
      PROVE  row'[o] = row[o] /\ Quiet(o)'
  <2>1. PICK d \in CallsOn(o) : req[d].op = "create"
    BY <1>1 DEF IInv, Backed, Absent
  <2>2. ASSUME NEW c \in Calls, NEW r \in Offered, Begin(c, r)
        PROVE  row'[o] = row[o] /\ Quiet(o)'
    BY <1>1, <2>1, <2>2
    DEF Begin, Goto, TypeOK, Quiet, CallsOn, Begun
  <2>3. ASSUME NEW c \in Calls, Find(c)
        PROVE  row'[o] = row[o] /\ Quiet(o)'
    <3>1. c \in Begun /\ req[c].op \in Operations
      BY <1>1, <2>3, RequestTypes DEF Find, Begun
    <3>2. req[c].order # o
      BY <1>1, <2>3, <3>1, FinalFacts DEF Find
    <3> QED
      BY <1>1, <2>3, <3>2 DEF Find, Goto, TypeOK, Quiet, CallsOn, Begun
  <2>4. ASSUME NEW c \in Calls,
               \/ Refuse(c) \/ Publish(c) \/ QueryFails(c) \/ Timeout(c)
        PROVE  row'[o] = row[o] /\ Quiet(o)'
    <3>1. \A b \in CallsOn(o)' : b \in CallsOn(o)
      BY <1>1, <2>4 DEF Refuse, Publish, QueryFails, Timeout, Goto, TypeOK,
                        CallsOn, Begun
    <3> QED
      BY <1>1, <2>4, <3>1 DEF Refuse, Publish, QueryFails, Timeout, Goto,
                              TypeOK, Quiet, CallsOn, Begun
  <2>5. ASSUME NEW c \in Calls, Save(c) \/ SaveOrphan(c) \/ AckLost(c)
        PROVE  row'[o] = row[o] /\ Quiet(o)'
    <3>1. req[c].order # o
      BY <1>1, <2>5 DEF Save, SaveOrphan, AckLost, Quiet, CallsOn, Begun
    <3> QED
      BY <1>1, <2>5, <3>1 DEF Save, SaveOrphan, AckLost, Commit, Goto,
                              TypeOK, Quiet, CallsOn, Begun
  <2>6. ASSUME NEW e \in outbox, StoreEvent(e) \/ DropEvent(e)
        PROVE  row'[o] = row[o] /\ Quiet(o)'
    BY <1>1, <2>6 DEF StoreEvent, DropEvent, Quiet, CallsOn, Begun
  <2>7. CASE Crash
    BY <1>1, <2>7 DEF Crash, TypeOK, Quiet, CallsOn, Begun
  <2>8. CASE UNCHANGED vars
    BY <1>1, <2>8 DEF vars, Quiet, CallsOn, Begun
  <2> QED
    BY <1>1, <2>2, <2>3, <2>4, <2>5, <2>6, <2>7, <2>8 DEF Next, Step, Progress
<1>2. TypeOK /\ IInv /\ [Next]_vars =>
        [\A o \in Orders :
           row[o] \in {"CANCELLED", "DELIVERED"} /\ Quiet(o) =>
             row'[o] = row[o] /\ Quiet(o)']_vars
  BY <1>1
<1> QED
  BY <1>2, InductiveInvariant, PTL DEF Spec, SettledIsFinal
=============================================================================
