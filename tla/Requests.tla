------------------------------ MODULE Requests ------------------------------
(***************************************************************************)
(* Requests over HTTP and gRPC that create, get and list orders, or ask    *)
(* for the health of the service: what the pipes, the interceptors, the    *)
(* application service and the exception filters make of them.             *)
(*                                                                         *)
(* A request is received, validated and handed to the database without a   *)
(* pause, since nothing in between waits for more than a promise that is   *)
(* already settled; the timer of its interceptor can only fire while it    *)
(* waits for the database.  The products of two orders are taken to be     *)
(* different ones, whatever they are called here; ProductRows models what  *)
(* happens if they are not.                                                *)
(***************************************************************************)
EXTENDS OrderInput, RequestTimers

CONSTANTS
  MaxRequests,   \* bound: how many requests are made
  Instants,      \* bound: the times at which anything happens
  Offered        \* the calls clients may make

Requests == 1 .. MaxRequests

(* The order a call asks for: that of an earlier request to create one, or *)
(* the identifier of none.                                                 *)
Targets == Requests \cup {None}

Calls == [protocol : {"http", "grpc"},
          op : {"create", "get", "list", "health"},
          body : Bodies \cup {None},
          target : Targets,
          id : Ids,
          wish : Wishes,
          deadline : Int \cup {None}]

ASSUME RequestsAssumption ==
  /\ MaxRequests \in Nat
  /\ Instants \subseteq Nat /\ 0 \in Instants
  /\ Offered \subseteq Calls
  /\ \A k \in Offered : /\ k.op = "create" => k.body # None
                        /\ k.target # None => k.id \in V4Ids

VARIABLES
  clock,       \* milliseconds
  call,        \* call[r]: what request r asks for, or None
  pc,          \* pc[r]: where it stands
  start,       \* start[r]: when it arrived
  orders,      \* orders[r]: the rows of the order r has created, or {}
  announced,   \* the requests whose OrderCreatedEvent was handed to Kafka
  answer       \* answer[r]: the code (or None) and the orders the client gets

vars == <<clock, call, pc, start, orders, announced, answer>>

(* "querying": the database has been asked; "saved": it has stored the     *)
(* order; "orphaned": it is still to do so, but nobody waits for it.       *)
Stages == {"idle", "querying", "saved", "orphaned", "done"}

CodesOf(protocol) == IF protocol = "http" THEN HttpStatuses ELSE GrpcCodes

Successes == {200, 201, OK}

Asked == {r \in Requests : pc[r] # "idle"}

Creations == {r \in Asked : call[r].op = "create"}

Existing == {r \in Requests : orders[r] # {}}

(* Every variable has its type, and every answer a code of its protocol. *)
RequestsTypeOK ==
  /\ clock \in Instants
  /\ call \in [Requests -> Offered \cup {None}]
  /\ pc \in [Requests -> Stages]
  /\ start \in [Requests -> Instants]
  /\ \A r \in Requests : orders[r] \subseteq Lines
  /\ announced \subseteq Requests
  /\ \A r \in Asked : call[r] \in Offered
  /\ \A r \in Requests : answer[r].code # None =>
       r \in Asked /\ answer[r].code \in CodesOf(call[r].protocol)
  /\ \A r \in Requests : \A s \in answer[r].shown :
       s.order \in Requests /\ s.products \subseteq Lines

-----------------------------------------------------------------------------

Init ==
  /\ clock = 0
  /\ call = [r \in Requests |-> None]
  /\ pc = [r \in Requests |-> "idle"]
  /\ start = [r \in Requests |-> 0]
  /\ orders = [r \in Requests |-> {}]
  /\ announced = {}
  /\ answer = [r \in Requests |-> [code |-> None, shown |-> {}]]

Goto(r, stage) == pc' = [pc EXCEPT ![r] = stage]

Tell(r, code, shown) ==
  answer' = [answer EXCEPT ![r] = [code |-> code, shown |-> shown]]

Fail(r, k, e) == Tell(r, CodeFor(k.protocol, e), {})

Succeed(r, k, shown) ==
  Tell(r, IF k.protocol = "grpc" THEN OK
          ELSE IF k.op = "create" THEN 201 ELSE 200, shown)

Order(r) == Received(call[r].protocol, call[r].body)

(* The order of request q, as it is shown to request r: its creator is     *)
(* shown the object that was saved, any other the rows.                    *)
ViewOf(r, q) ==
  [order |-> q,
   products |-> Shown(IF q = r THEN SavedOf(Order(q)) ELSE orders[q])]

(* How long a request may take, or None if that is no number. *)
Budget(k) ==
  LET ms == IF k.protocol = "http" THEN HttpTimeout(k.wish)
            ELSE GrpcTimeout(k.wish, k.deadline)
  IN IF ms = None THEN None ELSE Delay(ms)

-----------------------------------------------------------------------------
(* A request arrives.                                                      *)

Arrive(r, k) ==
  /\ pc[r] = "idle"
  /\ \A q \in 1 .. r - 1 : pc[q] # "idle"
  /\ call' = [call EXCEPT ![r] = k]
  /\ start' = [start EXCEPT ![r] = clock]

(* timeout() of RxJS throws for what is no number, before the parameters   *)
(* are looked at.                                                          *)
Choke(r, k) ==
  /\ Arrive(r, k)
  /\ Budget(k) = None
  /\ Goto(r, "done")
  /\ Fail(r, k, PlainError)
  /\ UNCHANGED <<clock, orders, announced>>

(* The interceptor lets the request through; its timer can still fire. *)
Admit(r, k) ==
  /\ Arrive(r, k)
  /\ Budget(k) # None
  /\ \E t \in Instants : t >= clock + Budget(k)

(* The validation of the parameters fails, or a value object refuses them. *)
BadId(k) == k.id \in NoUuids \/ (k.protocol = "grpc" /\ k.id \notin V4Ids)

BadRequest(k) ==
  \/ (k.op = "get" /\ BadId(k))
  \/ /\ k.op = "create"
     /\ LET order == Received(k.protocol, k.body)
        IN Invalid(order) \/ ~ Constructible(order)

Refusal(k) ==
  CASE k.op = "get" -> IF k.protocol = "http" THEN HttpException(400)
                                              ELSE ValidationFailedError
    [] k.op = "create" -> LET order == Received(k.protocol, k.body)
                          IN IF Invalid(order) THEN ValidationError(order)
                                               ELSE PlainError

Refuse(r, k) ==
  /\ Admit(r, k)
  /\ BadRequest(k)
  /\ Goto(r, "done")
  /\ Fail(r, k, Refusal(k))
  /\ UNCHANGED <<clock, orders, announced>>

(* isHealthy answers true, whatever the state of the service. *)
Health(r, k) ==
  /\ Admit(r, k)
  /\ k.op = "health"
  /\ Goto(r, "done")
  /\ Succeed(r, k, {})
  /\ UNCHANGED <<clock, orders, announced>>

(* The application service asks the repository. *)
Ask(r, k) ==
  /\ Admit(r, k)
  /\ k.op # "health" /\ ~ BadRequest(k)
  /\ Goto(r, "querying")
  /\ UNCHANGED <<clock, orders, announced, answer>>

-----------------------------------------------------------------------------
(* The database answers.                                                   *)

Waits(r, op) == pc[r] = "querying" /\ call[r].op = op

Store(r) ==
  /\ Storable(RowsOf(Order(r)))
  /\ orders' = [orders EXCEPT ![r] = RowsOf(Order(r))]

Save(r) ==
  /\ Waits(r, "create")
  /\ Store(r)
  /\ Goto(r, "saved")
  /\ UNCHANGED <<clock, call, start, announced, answer>>

(* A mistake: the events are published whether or not anyone still waits. *)
MutantSaveOrphan(r) ==
  /\ pc[r] = "orphaned"
  /\ Store(r)
  /\ Goto(r, "done")
  /\ announced' = announced \cup {r}
  /\ UNCHANGED <<clock, call, start, answer>>

SaveOrphan(r) ==
  /\ pc[r] = "orphaned"
  /\ Store(r)
  /\ Goto(r, "done")
  /\ UNCHANGED <<clock, call, start, announced, answer>>

(* The save is acknowledged.  The object is mapped back; then the          *)
(* event is handed to the Kafka client and the request is answered.        *)
Created(r) ==
  /\ pc[r] = "saved"
  /\ Goto(r, "done")
  /\ IF Readable(SavedOf(Order(r)))
     THEN /\ announced' = announced \cup {r}
          /\ Succeed(r, call[r], {ViewOf(r, r)})
     ELSE /\ UNCHANGED announced
          /\ Fail(r, call[r], PlainError)
  /\ UNCHANGED <<clock, call, start, orders>>

(* The orders a query for reading yields: the one asked for, or all. *)
Result(k) ==
  IF k.op = "list" THEN Existing ELSE Existing \cap {k.target}

Read(r) ==
  /\ pc[r] = "querying"
  /\ call[r].op \in {"get", "list"}
  /\ Goto(r, "done")
  /\ LET k == call[r]
         found == Result(k)
     IN CASE k.op = "get" /\ found = {} ->
               Fail(r, k, HttpException(404))
          [] \E q \in found : ~ Readable(orders[q]) ->
               Fail(r, k, PlainError)
          [] OTHER ->
               Succeed(r, k, {ViewOf(r, q) : q \in found})
  /\ UNCHANGED <<clock, call, start, orders, announced>>

(* A mistake: a failed query is blamed on the request. *)
MutantQueryFails(r) ==
  /\ pc[r] \in {"querying", "orphaned"}
  /\ Goto(r, "done")
  /\ IF pc[r] = "orphaned" THEN UNCHANGED answer
     ELSE Fail(r, call[r], HttpException(400))
  /\ UNCHANGED <<clock, call, start, orders, announced>>

(* The query fails, and nothing was stored. *)
QueryFails(r) ==
  /\ pc[r] \in {"querying", "orphaned"}
  /\ Goto(r, "done")
  /\ IF pc[r] = "orphaned" THEN UNCHANGED answer
     ELSE Fail(r, call[r], PlainError)
  /\ UNCHANGED <<clock, call, start, orders, announced>>

(* The order was stored, but the connection is lost before that is known. *)
AckLost(r) ==
  /\ pc[r] = "saved"
  /\ Goto(r, "done")
  /\ Fail(r, call[r], PlainError)
  /\ UNCHANGED <<clock, call, start, orders, announced>>

-----------------------------------------------------------------------------
(* Time.                                                                   *)

Tick ==
  /\ \E t \in Instants :
       /\ t > clock
       /\ \A s \in Instants : s <= clock \/ s >= t
       /\ clock' = t
  /\ UNCHANGED <<call, pc, start, orders, announced, answer>>

(* HTTPInterceptor turns the TimeoutError into a RequestTimeoutException,  *)
(* gRPCInterceptor lets it pass.                                           *)
Lateness(k) == IF k.protocol = "http" THEN HttpException(408) ELSE PlainError

(* A mistake: the timer is stopped once the database has stored the order. *)
MutantTimeout(r) ==
  /\ pc[r] = "querying"
  /\ clock - start[r] >= Budget(call[r])
  /\ Goto(r, IF Waits(r, "create") THEN "orphaned" ELSE "done")
  /\ Fail(r, call[r], Lateness(call[r]))
  /\ UNCHANGED <<clock, call, start, orders, announced>>

(* The timer fires, at its time or later: the handler is unsubscribed from *)
(* and never continues, but a query that was sent is executed.             *)
Timeout(r) ==
  /\ pc[r] \in {"querying", "saved"}
  /\ clock - start[r] >= Budget(call[r])
  /\ Goto(r, IF Waits(r, "create") THEN "orphaned" ELSE "done")
  /\ Fail(r, call[r], Lateness(call[r]))
  /\ UNCHANGED <<clock, call, start, orders, announced>>

Next ==
  \/ Tick
  \/ \E r \in Requests :
       \/ \E k \in Offered :
            Choke(r, k) \/ Refuse(r, k) \/ Health(r, k) \/ Ask(r, k)
       \/ Save(r)
       \/ SaveOrphan(r)
       \/ Created(r)
       \/ Read(r)
       \/ QueryFails(r)
       \/ AckLost(r)
       \/ Timeout(r)

Spec == Init /\ [][Next]_vars

(* Time passes and timers fire; the database may hang for ever. *)
TimedSpec == Spec /\ WF_vars(Tick) /\ WF_vars(\E r \in Requests : Timeout(r))

-----------------------------------------------------------------------------

Answered(r, codes) == answer[r].code \in codes

(* What a client is told about an order it wants created is true: it       *)
(* exists and is announced if and only if the request succeeded, and a     *)
(* request that was found invalid has stored nothing and never will.  Only *)
(* a client that is told 408, 500 or INTERNAL cannot know.                 *)
AnswersMatchFate ==
  \A r \in Creations :
    /\ Answered(r, Successes) <=> r \in announced
    /\ r \in announced => r \in Existing
    /\ Answered(r, {400, INVALID_ARGUMENT}) => pc[r] = "done" /\ r \notin Existing
    /\ pc[r] = "done" /\ r \in Existing \ announced =>
         Answered(r, {408, 500, INTERNAL})

(* No client is told that its order is invalid unless it is, whatever the  *)
(* database or the timers do.                                              *)
NobodyIsBlamed ==
  \A r \in Creations :
    Answered(r, {400, INVALID_ARGUMENT}) => Invalid(call[r].body)

(* Whatever was stored can be read again: the value objects accept what    *)
(* the mapper and the trimming have left of the fields they were made of.  *)
(* Otherwise one order would make every list of orders fail.               *)
StoredIsReadable == \A r \in Existing : Readable(orders[r])

(* A product as it was sent, but for the blanks around its texts and for a *)
(* price of 0, which is lost.                                              *)
AsSent(line) ==
  [line EXCEPT !.name = Trim(@), !.description = Trim(@),
               !.price = IF @ = 0 THEN Missing ELSE @]

(* No client is ever shown a product of an order that its creator has not  *)
(* sent.  The creator is shown all it has sent.  Whoever gets or lists the *)
(* order is shown one product for each identifier, the first that was      *)
(* sent with it: of a body that names a product twice, the rest is lost.   *)
ShownAsOrdered ==
  \A r \in Asked : \A s \in answer[r].shown :
    LET sent == call[s.order].body.products
    IN /\ s.products \subseteq {AsSent(line) : line \in Range(sent)}
       /\ \A i \in DOMAIN sent :
            r = s.order \/ First(sent, i) => AsSent(sent[i]) \in s.products
       /\ r # s.order => \A p, q \in s.products : p.id = q.id => p = q

(* What a client may expect: the time it has named, from a second to five  *)
(* minutes; over gRPC until its deadline, and a second at least; or the    *)
(* default.  Of a time in the metadata gRPCInterceptor reads the first     *)
(* digit: whoever names one may expect the second that the clamp leaves.   *)
Promised(k) ==
  IF k.protocol = "grpc" /\ k.wish.first # None THEN Second
  ELSE IF k.wish.ms # None THEN Clamp(k.wish.ms)
  ELSE IF k.protocol = "grpc" /\ k.deadline # None THEN Larger(k.deadline, Second)
  ELSE Default

(* A deadline that gRPCInterceptor hands to a timer that cannot hold it.   *)
TooFar(k) ==
  /\ k.protocol = "grpc" /\ k.wish.first = None
  /\ k.deadline # None /\ k.deadline > MaxDelay

(* The server is not the first to lose patience, whatever the clients ask  *)
(* for, except for a deadline that is too far away: there it is, although  *)
(* the code means to leave a second at least.                              *)
NoEarlyTimeout ==
  [][\A r \in Requests :
       Timeout(r) => \/ clock - start[r] >= Promised(call[r])
                     \/ TooFar(call[r])]_vars

(* Every request is answered, even if the database hangs. *)
RequestsAreAnswered ==
  \A r \in Requests : (pc[r] # "idle") ~> (answer[r].code # None)
=============================================================================
