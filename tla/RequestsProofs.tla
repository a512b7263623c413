--------------------------- MODULE RequestsProofs ---------------------------
(***************************************************************************)
(* Proofs about Requests: what its clients can rely on, for any number of  *)
(* requests of any kind, any timeouts, and any database.                   *)
(***************************************************************************)
EXTENDS Requests, TLAPS

-----------------------------------------------------------------------------
(* The codes of the exceptions that requests to create an order meet.      *)

(* An exception of no special class is caught by the filter for Error, *)
LEMMA FilterOfError == FilterFor(PlainError) = "Error"
BY DEF FilterFor, Filters, PlainError

(* an error of validation by the filter for DomainError, *)
LEMMA FilterOfDomainError == FilterFor(ValidationFailedError) = "DomainError"
BY DEF FilterFor, Filters, ValidationFailedError

(* and an HttpException of any status by its own filter. *)
LEMMA FilterOfHttpException ==
  ASSUME NEW status
  PROVE  FilterFor(HttpException(status)) = "HttpException"
BY DEF FilterFor, Filters, HttpException

(* An exception of no special class is an internal error in both           *)
(* protocols,                                                              *)
LEMMA CodesOfError == HttpCode(PlainError) = 500 /\ GrpcCode(PlainError) = INTERNAL
BY FilterOfError, Zenon DEF HttpCode, GrpcCode

(* an error of validation is the fault of the client in both, *)
LEMMA CodesOfDomainError ==
  /\ HttpCode(ValidationFailedError) = 400
  /\ GrpcCode(ValidationFailedError) = INVALID_ARGUMENT
<1>1. ValidationFailedError.code = 400
  BY DEF ValidationFailedError
<1> QED
  BY <1>1, FilterOfDomainError, Zenon DEF HttpCode, GrpcCode

(* and an HttpException keeps its status over HTTP. *)
LEMMA HttpCodeOfHttpException ==
  ASSUME NEW status
  PROVE  HttpCode(HttpException(status)) = status
<1>1. HttpException(status).code = status
  BY DEF HttpException
<1> QED
  BY <1>1, FilterOfHttpException, Zenon DEF HttpCode

(* An error of axios and one of an RPC are caught by filters of their own. *)
LEMMA FiltersOfClients ==
  ASSUME NEW code
  PROVE  /\ FilterFor(AxiosError(code)) = "AxiosError"
         /\ FilterFor(RpcException(code)) = "RpcException"
<1>1. AxiosError(code).class = "AxiosError" /\ RpcException(code).class = "RpcException"
  BY DEF AxiosError, RpcException
<1>2. FilterFor(AxiosError(code)) = "AxiosError"
  BY <1>1 DEF FilterFor, Filters
<1>3. FilterFor(RpcException(code)) = "RpcException"
  BY <1>1 DEF FilterFor, Filters
<1> QED
  BY <1>2, <1>3

(* What may reach the filters of a controller when something went wrong:   *)
(* errors of axios have a response, and ValidationFailedError stands for   *)
(* every error of the domain, which all have its codes.                    *)
Failures ==
  {HttpException(status) : status \in 400 .. 599}
  \cup {AxiosError(status) : status \in 400 .. 599}
  \cup {RpcException(code) : code \in GrpcCodes \ {OK}}
  \cup {ValidationFailedError, PlainError}

(* The mappers between the protocols make no success of an error. *)
LEMMA MappersKeepErrors ==
  /\ \A status \in 400 .. 599 : http2grpc(status) \in GrpcCodes \ {OK}
  /\ \A code \in GrpcCodes \ {OK} : grpc2http(code) \in 400 .. 599
<1> USE DEF OK, CANCELLED, UNKNOWN, INVALID_ARGUMENT, DEADLINE_EXCEEDED, NOT_FOUND,
            ALREADY_EXISTS, PERMISSION_DENIED, RESOURCE_EXHAUSTED,
            FAILED_PRECONDITION, ABORTED, OUT_OF_RANGE, UNIMPLEMENTED, INTERNAL,
            UNAVAILABLE, DATA_LOSS, UNAUTHENTICATED, GrpcCodes
<1>1. \A status \in 400 .. 599 : http2grpc(status) \in GrpcCodes \ {OK}
  BY SMTT(60) DEF http2grpc
<1>2. \A code \in GrpcCodes \ {OK} : grpc2http(code) \in 400 .. 599
  BY SMTT(60) DEF grpc2http
<1> QED
  BY <1>1, <1>2

(* Where each exception that can be met ends, in the two protocols.        *)
LEMMA CodesOfFailures ==
  ASSUME NEW e \in Failures
  PROVE  \/ e.code \in 400 .. 599 /\ HttpCode(e) = e.code /\ GrpcCode(e) = http2grpc(e.code)
         \/ /\ e.code \in GrpcCodes \ {OK}
            /\ HttpCode(e) = grpc2http(e.code) /\ GrpcCode(e) = e.code
         \/ HttpCode(e) = 400 /\ GrpcCode(e) = INVALID_ARGUMENT
         \/ HttpCode(e) = 500 /\ GrpcCode(e) = INTERNAL
<1>1. ASSUME NEW status \in 400 .. 599, e = HttpException(status)
      PROVE  e.code = status /\ HttpCode(e) = status /\ GrpcCode(e) = http2grpc(status)
  <2>1. e.code = status
    BY <1>1 DEF HttpException
  <2> QED
    BY <1>1, <2>1, FilterOfHttpException, Zenon DEF HttpCode, GrpcCode
<1>2. ASSUME NEW status \in 400 .. 599, e = AxiosError(status)
      PROVE  e.code = status /\ HttpCode(e) = status /\ GrpcCode(e) = http2grpc(status)
  <2>1. e.code = status
    BY <1>2 DEF AxiosError
  <2> QED
    BY <1>2, <2>1, FiltersOfClients, Zenon DEF HttpCode, GrpcCode
<1>3. ASSUME NEW code \in GrpcCodes \ {OK}, e = RpcException(code)
      PROVE  e.code = code /\ HttpCode(e) = grpc2http(code) /\ GrpcCode(e) = code
  <2>1. e.code = code
    BY <1>3 DEF RpcException
  <2> QED
    BY <1>3, <2>1, FiltersOfClients, Zenon DEF HttpCode, GrpcCode
<1> QED
  BY <1>1, <1>2, <1>3, CodesOfError, CodesOfDomainError DEF Failures

(* No error is ever shown as a success, whichever protocol it came from    *)
(* and whichever it leaves by (the filters of the controllers and          *)
(* http2grpc.mapper.ts, grpc2http.mapper.ts).                              *)
THEOREM ErrorsStayErrors ==
  \A e \in Failures :
    /\ CodeFor("http", e) \in 400 .. 599
    /\ CodeFor("grpc", e) \in GrpcCodes \ {OK}
BY CodesOfFailures, MappersKeepErrors
DEF CodeFor, GrpcCodes, OK, INVALID_ARGUMENT, INTERNAL

(* Both protocols tell the same story: of the two codes of an error, the   *)
(* mappers make one the other, although each filter has branches of its    *)
(* own for HTTP and for gRPC.                                              *)
THEOREM ProtocolsAgree ==
  \A e \in Failures :
    \/ CodeFor("grpc", e) = http2grpc(CodeFor("http", e))
    \/ CodeFor("http", e) = grpc2http(CodeFor("grpc", e))
<1>1. http2grpc(400) = INVALID_ARGUMENT /\ http2grpc(500) = INTERNAL
  BY DEF http2grpc
<1> QED
  BY <1>1, CodesOfFailures DEF CodeFor

-----------------------------------------------------------------------------
(* The timers.                                                             *)

(* The bounds of the timeouts are in order. *)
LEMMA Bounds ==
  /\ Second \in Nat /\ 9 < Second /\ FiveMinutes \in Nat /\ Default \in Nat
  /\ Second <= FiveMinutes /\ Second <= Default /\ Default <= FiveMinutes
<1>1. Second \in Nat /\ 9 < Second
  BY DEF Second
<1> QED
  BY <1>1 DEF FiveMinutes, Default

(* A timeout that is clamped lies between a second and five minutes. *)
LEMMA ClampBounds ==
  ASSUME NEW ms \in Int
  PROVE  /\ Clamp(ms) \in Int
         /\ Clamp(ms) >= Second
         /\ Clamp(ms) <= FiveMinutes
BY Bounds DEF Clamp, Smaller, Larger

(* A time within these bounds is kept by a timer. *)
LEMMA BoundedDelay ==
  ASSUME NEW ms \in Int, ms <= FiveMinutes
  PROVE  Delay(ms) = ms
BY TimersAssumption, Bounds DEF Delay

(* A gRPC client that names a time in the metadata gets one second, no     *)
(* matter which: gRPCInterceptor clamps the first digit of the time.       *)
THEOREM MetadataGrantsOneSecond ==
  ASSUME NEW wish \in Wishes, NEW deadline \in Int \cup {None}, wish.first # None
  PROVE  GrpcTimeout(wish, deadline) = Second
<1>1. wish.first \in 0 .. 9
  BY DEF Wishes
<1> QED
  BY <1>1, Bounds DEF GrpcTimeout, Clamp, Smaller, Larger

(* The part of the invariant that the timers rely on: what has arrived is  *)
(* one of the calls on offer.                                              *)
Known ==
  /\ call \in [Requests -> Offered \cup {None}]
  /\ pc \in [Requests -> Stages]
  /\ start \in [Requests -> Nat]
  /\ clock \in Nat
  /\ \A r \in Requests : pc[r] # "idle" => call[r] \in Offered
  /\ \A r \in Requests : pc[r] \in {"querying", "saved"} => Budget(call[r]) # None

(* The types of the timers hold in every reachable state. *)
LEMMA KnownAlways == Spec => []Known
<1>1. Init => Known
  BY RequestsAssumption DEF Init, Known, Stages
<1>2. Known /\ [Next]_vars => Known'
  <2> SUFFICES ASSUME Known, [Next]_vars PROVE Known'
    OBVIOUS
  <2> USE DEF Known, Goto, Stages
  <2>1. ASSUME NEW r \in Requests, NEW k \in Offered,
               Choke(r, k) \/ Refuse(r, k) \/ Health(r, k) \/ Ask(r, k)
        PROVE  Known'
    BY <2>1 DEF Choke, Refuse, Health, Ask, Admit, Arrive
  <2>2. ASSUME NEW r \in Requests, Save(r) PROVE Known'
    BY <2>2 DEF Save, Waits
  <2>3. ASSUME NEW r \in Requests, SaveOrphan(r) PROVE Known'
    BY <2>3 DEF SaveOrphan
  <2>4. ASSUME NEW r \in Requests, Created(r) PROVE Known'
    BY <2>4 DEF Created
  <2>5. ASSUME NEW r \in Requests, Read(r) PROVE Known'
    BY <2>5 DEF Read
  <2>6. ASSUME NEW r \in Requests, QueryFails(r) PROVE Known'
    BY <2>6 DEF QueryFails
  <2>7. ASSUME NEW r \in Requests, AckLost(r) PROVE Known'
    BY <2>7 DEF AckLost
  <2>8. ASSUME NEW r \in Requests, Timeout(r) PROVE Known'
    BY <2>8 DEF Timeout
  <2>9. CASE Tick
    BY <2>9, RequestsAssumption DEF Tick
  <2>10. CASE UNCHANGED vars
    BY <2>10 DEF vars
  <2> QED
    BY <2>1, <2>2, <2>3, <2>4, <2>5, <2>6, <2>7, <2>8, <2>9, <2>10 DEF Next
<1> QED
  BY <1>1, <1>2, PTL DEF Spec

(* A timer that fires has waited for what was promised, unless the call    *)
(* has a deadline that is too far away.                                    *)
LEMMA TimersArePatient ==
  ASSUME NEW k \in Calls, Budget(k) # None, ~ TooFar(k)
  PROVE  Budget(k) \in Int /\ Budget(k) >= Promised(k) /\ Promised(k) \in Int
<1>1. k.wish \in Wishes /\ k.deadline \in Int \cup {None} /\ k.protocol \in {"http", "grpc"}
  BY DEF Calls
<1>2. k.wish.ms \in Nat \cup {None} /\ (k.wish.ms # None => k.wish.first # None)
  BY <1>1, TimersAssumption DEF Wishes
<1>3. CASE k.protocol = "http"
  <2>1. CASE k.wish.ms # None
    <3>1. k.wish.ms \in Int
      BY <1>2, <2>1
    <3>2. Budget(k) = Clamp(k.wish.ms) /\ Promised(k) = Clamp(k.wish.ms)
      BY <1>3, <2>1, <3>1, ClampBounds, BoundedDelay, TimersAssumption
         DEF Budget, HttpTimeout, Promised
    <3> QED
      BY <3>1, <3>2, ClampBounds
  <2>2. CASE k.wish.ms = None
    <3>1. Budget(k) = Default /\ Promised(k) = Default
      BY <1>3, <2>2, Bounds, BoundedDelay, TimersAssumption
         DEF Budget, HttpTimeout, DefaultFor, Promised
    <3> QED
      BY <3>1, Bounds
  <2> QED
    BY <2>1, <2>2
<1>4. CASE k.protocol = "grpc" /\ k.wish.first # None
  <2>1. GrpcTimeout(k.wish, k.deadline) = Second /\ Promised(k) = Second
    BY <1>1, <1>4, MetadataGrantsOneSecond DEF Promised
  <2>2. Budget(k) = Second
    BY <1>4, <2>1, Bounds, BoundedDelay, TimersAssumption DEF Budget
  <2> QED
    BY <2>1, <2>2, Bounds
<1>5. CASE k.protocol = "grpc" /\ k.wish.first = None
  <2>1. k.wish.ms = None
    BY <1>2, <1>5
  <2>2. CASE k.deadline # None
    <3>1. k.deadline \in Int /\ k.deadline <= MaxDelay
      BY <1>1, <1>5, <2>2, TimersAssumption DEF TooFar
    <3>2. /\ Larger(k.deadline, Second) \in Int
          /\ Larger(k.deadline, Second) <= MaxDelay
      BY <3>1, Bounds, TimersAssumption DEF Larger
    <3>3. Promised(k) = Larger(k.deadline, Second)
      BY <1>5, <2>1, <2>2 DEF Promised
    <3>4. GrpcTimeout(k.wish, k.deadline) = Larger(k.deadline, Second)
      BY <1>5, <2>2 DEF GrpcTimeout
    <3>5. Budget(k) = Larger(k.deadline, Second)
      BY <1>5, <3>2, <3>4, TimersAssumption DEF Budget, Delay
    <3> QED
      BY <3>2, <3>3, <3>5
  <2>3. CASE k.deadline = None
    <3>1. Budget(k) = Default /\ Promised(k) = Default
      BY <1>5, <2>1, <2>3, Bounds, BoundedDelay, TimersAssumption
         DEF Budget, GrpcTimeout, DefaultFor, Promised
    <3> QED
      BY <3>1, Bounds
  <2> QED
    BY <2>2, <2>3
<1> QED
  BY <1>1, <1>3, <1>4, <1>5

(* What one step of the timer of request r means for its client. *)
Patient(r) ==
  \/ clock - start[r] >= Promised(call[r])
  \/ TooFar(call[r])

(* No timer of HTTPInterceptor or gRPCInterceptor fires before what was    *)
(* promised to the client has passed, whatever its wish, its deadline and  *)
(* the configuration, except for a deadline that no timer can hold.        *)
THEOREM TimeoutsAreNotEarly == Spec => NoEarlyTimeout
<1>1. ASSUME Known, NEW r \in Requests, Timeout(r), ~ Patient(r) PROVE FALSE
  <2>1. call[r] \in Calls /\ Budget(call[r]) # None
    BY <1>1, RequestsAssumption DEF Known, Timeout
  <2>2. /\ Budget(call[r]) \in Int /\ Promised(call[r]) \in Int
        /\ Budget(call[r]) >= Promised(call[r])
    BY <1>1, <2>1, TimersArePatient DEF Patient
  <2>3. clock - start[r] \in Int /\ clock - start[r] >= Budget(call[r])
    BY <1>1 DEF Known, Timeout
  <2> QED
    BY <1>1, <2>2, <2>3 DEF Patient
<1>2. Known /\ [Next]_vars => [\A r \in Requests : Timeout(r) => Patient(r)]_vars
  BY <1>1
<1>3. QED
  BY <1>2, KnownAlways, PTL DEF Spec, NoEarlyTimeout, Patient

-----------------------------------------------------------------------------
(* What becomes of the body of a request.                                  *)

(* The codes of the answers that a request to create an order may get. *)
LEMMA CodeForBoth ==
  /\ CodeFor("http", PlainError) = 500 /\ CodeFor("grpc", PlainError) = INTERNAL
  /\ CodeFor("http", ValidationFailedError) = 400
  /\ CodeFor("grpc", ValidationFailedError) = INVALID_ARGUMENT
  /\ CodeFor("http", HttpException(408)) = 408
BY CodesOfError, CodesOfDomainError, HttpCodeOfHttpException DEF CodeFor

(* A price is never a number when it comes from gRPC. *)
LEMMA GrpcIsRefused ==
  ASSUME NEW body \in Bodies
  PROVE  /\ Invalid(Received("grpc", body))
         /\ body.products # <<>> =>
              ValidationError(Received("grpc", body)) = PlainError
<1> DEFINE order == Received("grpc", body)
<1>1. DOMAIN order.products = DOMAIN body.products
  BY DEF Received, Bodies
<1>2. ASSUME NEW i \in DOMAIN body.products
      PROVE  ~ ValidLine(order.products[i])
  <2>1. body.products[i] \in Lines
    BY <1>2 DEF Bodies
  <2>2. order.products[i].price \in {NaN, Missing}
    BY <2>1 DEF Received, Bodies, Lines
  <2> QED
    BY <2>2, InputAssumption DEF ValidLine
<1>3. CASE body.products = <<>>
  <2>1. DOMAIN order.products = {}
    BY <1>1, <1>3
  <2>2. order.products = <<>>
    BY <1>3 DEF Received, Bodies
  <2> QED
    BY <2>2, <1>3 DEF Invalid, ValidTop
<1>4. CASE body.products # <<>>
  <2>1. 1 \in DOMAIN body.products
    BY <1>4 DEF Bodies
  <2>2. ~ ValidProducts(order)
    BY <2>1, <1>1, <1>2 DEF ValidProducts
  <2> QED
    BY <2>2 DEF Invalid, ValidationError
<1> QED
  BY <1>3, <1>4

(* What the value objects accept, they accept again when it is read. *)
LEMMA RowIsAcceptable ==
  ASSUME NEW line \in Lines, Acceptable(line)
  PROVE  RowOf(Product(line)) \in Lines /\ Acceptable(RowOf(Product(line)))
<1>1. line.name \in Texts /\ line.description \in Texts
  BY DEF Lines, Acceptable, ProductName, ProductDescription
<1>2. Trim(line.name) \in Texts /\ Trim(line.description) \in Texts
  BY <1>1 DEF Texts, Trim
<1>3. ProductName(Trim(line.name)) /\ ProductDescription(Trim(line.description))
  BY <1>1, <1>2, InputAssumption DEF Texts, Trim, Acceptable, ProductName, ProductDescription
<1> QED
  BY <1>1, <1>2, <1>3 DEF Lines, Acceptable, RowOf, Product

(* The rows of a body that the domain accepts can be read again: no        *)
(* trimmed text is empty, and no price is lost that the domain requires.   *)
LEMMA RowsAreReadable ==
  ASSUME NEW body \in Bodies, Constructible(body)
  PROVE  /\ RowsOf(body) \subseteq Lines /\ RowsOf(body) # {}
         /\ Readable(RowsOf(body))
         /\ SavedOf(body) \subseteq Lines /\ Readable(SavedOf(body))
<1>1. ASSUME NEW i \in DOMAIN body.products
      PROVE  /\ RowOf(Product(body.products[i])) \in Lines
             /\ Acceptable(RowOf(Product(body.products[i])))
  BY <1>1, RowIsAcceptable DEF Bodies, Constructible
<1>2. RowsOf(body) # {}
  <2>1. 1 \in DOMAIN body.products
    BY DEF Constructible, Bodies
  <2>2. First(body.products, 1)
    BY DEF First
  <2> QED
    BY <2>1, <2>2 DEF RowsOf
<1>3. RowsOf(body) \subseteq Lines /\ Readable(RowsOf(body))
  BY <1>1 DEF RowsOf, Readable
<1>4. SavedOf(body) \subseteq Lines /\ Readable(SavedOf(body))
  BY <1>1 DEF SavedOf, Readable, Range
<1> QED
  BY <1>2, <1>3, <1>4

(* A request to create an order that is not refused has a body whose rows  *)
(* can be stored and read.                                                 *)
LEMMA AcceptedOrders ==
  ASSUME NEW k \in Offered, k.op = "create", ~ BadRequest(k)
  PROVE  LET order == Received(k.protocol, k.body)
         IN /\ RowsOf(order) \subseteq Lines /\ RowsOf(order) # {}
            /\ Readable(RowsOf(order))
            /\ SavedOf(order) \subseteq Lines /\ Readable(SavedOf(order))
            /\ order = k.body
<1>1. k.protocol \in {"http", "grpc"} /\ k.body \in Bodies
  BY RequestsAssumption DEF Calls
<1>2. k.protocol = "http"
  BY <1>1, GrpcIsRefused DEF BadRequest
<1>3. Received(k.protocol, k.body) = k.body
  BY <1>2 DEF Received
<1> QED
  BY <1>1, <1>3, RowsAreReadable DEF BadRequest

(* A request that is refused, and what its client is told. *)
LEMMA Refusals ==
  ASSUME NEW k \in Offered, k.op = "create", BadRequest(k)
  PROVE  /\ CodeFor(k.protocol, Refusal(k)) \in {400, INVALID_ARGUMENT, 500, INTERNAL}
         /\ CodeFor(k.protocol, Refusal(k)) \in {400, INVALID_ARGUMENT} => Invalid(k.body)
         /\ k.protocol = "grpc" /\ k.body.products # <<>> =>
              CodeFor(k.protocol, Refusal(k)) = INTERNAL
<1> DEFINE order == Received(k.protocol, k.body)
<1>1. k.protocol \in {"http", "grpc"} /\ k.body \in Bodies
  BY RequestsAssumption DEF Calls
<1>2. Refusal(k) = IF Invalid(order) THEN ValidationError(order) ELSE PlainError
  <2>1. k.op # "get"
    OBVIOUS
  <2> QED
    BY <2>1, Zenon DEF Refusal
<1>3. CASE k.protocol = "http"
  <2>1. order = k.body
    BY <1>3 DEF Received
  <2>2. Refusal(k) \in {PlainError, ValidationFailedError}
    BY <1>2 DEF ValidationError
  <2>3. CASE Invalid(order)
    BY <2>1, <2>2, <2>3, <1>3, CodeForBoth
  <2>4. CASE ~ Invalid(order)
    BY <2>4, <1>2, <1>3, CodeForBoth DEF INVALID_ARGUMENT
  <2> QED
    BY <2>3, <2>4
<1>4. CASE k.protocol = "grpc"
  <2>1. Invalid(order)
    BY <1>1, <1>4, GrpcIsRefused
  <2>2. CASE k.body.products = <<>>
    <3>1. Invalid(k.body)
      BY <2>2 DEF Invalid, ValidTop
    <3>2. Refusal(k) \in {PlainError, ValidationFailedError}
      BY <1>2 DEF ValidationError
    <3> QED
      BY <2>2, <3>1, <3>2, <1>4, CodeForBoth
  <2>3. CASE k.body.products # <<>>
    <3>1. Refusal(k) = PlainError
      BY <1>1, <1>2, <1>4, <2>1, <2>3, GrpcIsRefused
    <3> QED
      BY <3>1, <1>4, CodeForBoth DEF INVALID_ARGUMENT, INTERNAL
  <2> QED
    BY <2>2, <2>3
<1> QED
  BY <1>1, <1>3, <1>4

-----------------------------------------------------------------------------
(* The fate of a request: the inductive invariant.                         *)

Unknown == {408, 500, INTERNAL}

Fate(r) ==
  /\ pc[r] \in {"querying", "saved", "orphaned"} => ~ BadRequest(call[r])
  /\ pc[r] \in {"querying", "saved", "orphaned"} => Budget(call[r]) # None
  /\ Budget(call[r]) = None => orders[r] = {} /\ r \notin announced
  /\ pc[r] \in {"saved", "orphaned"} => call[r].op = "create"
  /\ orders[r] # {} => /\ pc[r] \in {"saved", "done"}
                      /\ call[r].op = "create" /\ ~ BadRequest(call[r])
                      /\ Readable(orders[r])
  /\ pc[r] = "saved" => orders[r] # {}
  /\ r \in announced => pc[r] = "done" /\ orders[r] # {}
  /\ pc[r] \in {"idle", "querying", "saved"} => answer[r].code = None
  /\ pc[r] \in {"orphaned", "done"} /\ call[r].op = "create" =>
       answer[r].code \in
         IF Budget(call[r]) = None THEN {CodeFor(call[r].protocol, PlainError)}
         ELSE IF BadRequest(call[r]) THEN {CodeFor(call[r].protocol, Refusal(call[r]))}
         ELSE IF r \in announced THEN Successes ELSE Unknown

Shaped ==
  /\ Known
  /\ orders \in [Requests -> SUBSET Lines]
  /\ answer = [r \in Requests |-> answer[r]]

FateInv == Shaped /\ \A r \in Requests : Fate(r)

(* A step of request r leaves the others alone. *)
OnlyConcerns(r) ==
  \A q \in Requests \ {r} :
    /\ pc'[q] = pc[q]
    /\ call'[q] = call[q]
    /\ orders'[q] = orders[q]
    /\ answer'[q] = answer[q]
    /\ q \in announced' <=> q \in announced

(* A step that concerns one request preserves the invariant if it does so  *)
(* for that request.                                                       *)
LEMMA OthersKeepTheirFate ==
  ASSUME FateInv, NEW r \in Requests, OnlyConcerns(r), Shaped', Fate(r)'
  PROVE  FateInv'
<1>1. ASSUME NEW q \in Requests \ {r} PROVE Fate(q)'
  <2>1. Fate(q) /\ pc'[q] = pc[q] /\ call'[q] = call[q] /\ orders'[q] = orders[q]
        /\ answer'[q] = answer[q] /\ (q \in announced' <=> q \in announced)
    BY <1>1 DEF FateInv, OnlyConcerns
  <2> QED
    BY <2>1 DEF Fate
<1> QED
  BY <1>1 DEF FateInv

(* The invariant holds before anything was asked. *)
LEMMA FateInit == Init => FateInv
<1> SUFFICES ASSUME Init PROVE FateInv
  OBVIOUS
<1>1. Known
  BY RequestsAssumption DEF Init, Known, Stages
<1>2. orders \in [Requests -> SUBSET Lines]
  BY DEF Init
<1> QED
  BY <1>1, <1>2, TimersAssumption DEF Init, FateInv, Shaped, Fate

(* Steps that answer: the shape of the answers is kept. *)
LEMMA TellKeepsShape ==
  ASSUME answer = [r \in Requests |-> answer[r]],
         NEW r \in Requests, NEW code, NEW shown, Tell(r, code, shown)
  PROVE  /\ answer' = [q \in Requests |-> answer'[q]]
         /\ answer'[r].code = code /\ answer'[r].shown = shown
         /\ \A q \in Requests \ {r} : answer'[q] = answer[q]
BY DEF Tell

(* Every step preserves the invariant. *)
LEMMA FateStep == FateInv /\ Known' /\ [Next]_vars => FateInv'
<1> SUFFICES ASSUME FateInv, Known', [Next]_vars PROVE FateInv'
  OBVIOUS
<1> USE DEF Goto
<1>s. /\ pc \in [Requests -> Stages] /\ call \in [Requests -> Offered \cup {None}]
      /\ orders \in [Requests -> SUBSET Lines] /\ answer = [r \in Requests |-> answer[r]]
      /\ \A r \in Requests : Fate(r)
      /\ \A r \in Requests : pc[r] # "idle" => call[r] \in Offered
  BY DEF FateInv, Shaped, Known
<1>1. ASSUME NEW r \in Requests, NEW k \in Offered, Refuse(r, k) PROVE FateInv'
  <2>1. Tell(r, CodeFor(k.protocol, Refusal(k)), {})
    BY <1>1 DEF Refuse, Fail
  <2>2. OnlyConcerns(r) /\ Shaped'
    BY <1>1, <1>s, <2>1, TellKeepsShape DEF Refuse, Admit, Arrive, OnlyConcerns, Shaped
  <2>3. pc[r] = "idle" /\ pc'[r] = "done" /\ call'[r] = k /\ BadRequest(k)
        /\ Budget(k) # None /\ orders' = orders /\ announced' = announced
        /\ answer'[r].code = CodeFor(k.protocol, Refusal(k))
    BY <1>1, <1>s, <2>1, TellKeepsShape DEF Refuse, Admit, Arrive
  <2>4. Fate(r)'
    <3>1. Fate(r)
      BY <1>s
    <3> QED
      BY <2>3, <3>1 DEF Fate
  <2> QED
    BY <2>2, <2>4, OthersKeepTheirFate
<1>2. ASSUME NEW r \in Requests, NEW k \in Offered, Health(r, k) PROVE FateInv'
  <2>1. \E code : Tell(r, code, {})
    BY <1>2 DEF Health, Succeed
  <2>2. OnlyConcerns(r) /\ Shaped'
    BY <1>2, <1>s, <2>1, TellKeepsShape DEF Health, Admit, Arrive, OnlyConcerns, Shaped
  <2>3. pc[r] = "idle" /\ pc'[r] = "done" /\ call'[r] = k /\ k.op = "health"
        /\ orders' = orders /\ announced' = announced
    BY <1>2, <1>s DEF Health, Admit, Arrive
  <2>4. Fate(r)'
    <3>1. Fate(r)
      BY <1>s
    <3> QED
      BY <2>3, <3>1 DEF Fate
  <2> QED
    BY <2>2, <2>4, OthersKeepTheirFate
<1>3. ASSUME NEW r \in Requests, NEW k \in Offered, Ask(r, k) PROVE FateInv'
  <2>2. OnlyConcerns(r) /\ Shaped'
    BY <1>3, <1>s DEF Ask, Admit, Arrive, OnlyConcerns, Shaped
  <2>3. pc[r] = "idle" /\ pc'[r] = "querying" /\ call'[r] = k /\ ~ BadRequest(k)
        /\ Budget(k) # None /\ orders' = orders /\ announced' = announced /\ answer' = answer
    BY <1>3, <1>s DEF Ask, Admit, Arrive
  <2>4. Fate(r)'
    <3>1. Fate(r)
      BY <1>s
    <3> QED
      BY <2>3, <3>1 DEF Fate
  <2> QED
    BY <2>2, <2>4, OthersKeepTheirFate
<1>4. ASSUME NEW r \in Requests, Save(r) \/ SaveOrphan(r) PROVE FateInv'
  <2>1. pc[r] \in {"querying", "orphaned"} /\ call[r].op = "create" /\ ~ BadRequest(call[r])
    BY <1>4, <1>s DEF Save, SaveOrphan, Waits, Fate
  <2>2. /\ RowsOf(Order(r)) \subseteq Lines /\ RowsOf(Order(r)) # {}
        /\ Readable(RowsOf(Order(r)))
    BY <1>s, <2>1, AcceptedOrders DEF Order
  <2>3. OnlyConcerns(r) /\ Shaped'
    BY <1>4, <1>s, <2>2 DEF Save, SaveOrphan, Store, OnlyConcerns, Shaped
  <2>4. /\ pc'[r] = IF pc[r] = "querying" THEN "saved" ELSE "done"
        /\ call' = call /\ announced' = announced /\ answer' = answer
        /\ orders'[r] = RowsOf(Order(r))
    BY <1>4, <1>s DEF Save, SaveOrphan, Store, Waits
  <2>5. Fate(r)'
    <3>1. Fate(r)
      BY <1>s
    <3> QED
      BY <2>1, <2>2, <2>4, <3>1 DEF Fate
  <2> QED
    BY <2>3, <2>5, OthersKeepTheirFate
<1>5. ASSUME NEW r \in Requests, Created(r) PROVE FateInv'
  <2>1. call[r].op = "create" /\ ~ BadRequest(call[r]) /\ Readable(orders[r])
        /\ pc[r] = "saved" /\ orders[r] # {} /\ call[r] \in Offered
        /\ Budget(call[r]) # None
    BY <1>5, <1>s DEF Created, Fate
  <2>2. Readable(SavedOf(Order(r)))
    BY <2>1, AcceptedOrders DEF Order
  <2>3. PICK code \in Successes : Tell(r, code, {ViewOf(r, r)})
    BY <1>5, <2>2 DEF Created, Succeed, Successes
  <2>4. OnlyConcerns(r) /\ Shaped'
    BY <1>5, <1>s, <2>1, <2>3, TellKeepsShape DEF Created, OnlyConcerns, Shaped
  <2>5. pc'[r] = "done" /\ call' = call /\ orders' = orders
        /\ announced' = announced \cup {r} /\ answer'[r].code \in Successes
    BY <1>5, <1>s, <2>2, <2>3, TellKeepsShape DEF Created
  <2>6. Fate(r)'
    BY <2>1, <2>5 DEF Fate
  <2> QED
    BY <2>4, <2>6, OthersKeepTheirFate
<1>6. ASSUME NEW r \in Requests, Read(r) PROVE FateInv'
  <2>1. pc[r] = "querying" /\ call[r].op # "create"
    BY <1>6 DEF Read
  <2>2. \E code, shown : Tell(r, code, shown)
    <3>1. \/ \E e : Fail(r, call[r], e)
          \/ \E shown : Succeed(r, call[r], shown)
      BY <1>6, Zenon DEF Read
    <3> QED
      BY <3>1 DEF Fail, Succeed
  <2>3. OnlyConcerns(r) /\ Shaped'
    BY <1>6, <1>s, <2>2, TellKeepsShape DEF Read, OnlyConcerns, Shaped
  <2>4. pc'[r] = "done" /\ call' = call /\ orders' = orders /\ announced' = announced
    BY <1>6, <1>s DEF Read
  <2>5. Fate(r)'
    <3>1. Fate(r)
      BY <1>s
    <3> QED
      BY <2>1, <2>4, <3>1 DEF Fate
  <2> QED
    BY <2>3, <2>5, OthersKeepTheirFate
<1>7. ASSUME NEW r \in Requests, QueryFails(r) \/ AckLost(r) PROVE FateInv'
  <2>1. pc[r] \in {"querying", "orphaned", "saved"} /\ ~ BadRequest(call[r])
        /\ call[r] \in Offered /\ r \notin announced
    BY <1>7, <1>s DEF QueryFails, AckLost, Fate
  <2>2. call[r].protocol \in {"http", "grpc"}
    BY <2>1, RequestsAssumption DEF Calls
  <2>3. CASE pc[r] = "orphaned" /\ QueryFails(r)
    <3>1. answer' = answer
      BY <2>3 DEF QueryFails
    <3>2. OnlyConcerns(r) /\ Shaped'
      BY <1>s, <2>3, <3>1 DEF QueryFails, OnlyConcerns, Shaped
    <3>3. pc'[r] = "done" /\ call' = call /\ orders' = orders /\ announced' = announced
      BY <1>s, <2>3 DEF QueryFails
    <3>4. Fate(r)'
      BY <1>s, <2>1, <2>3, <3>1, <3>3 DEF Fate
    <3> QED
      BY <3>2, <3>4, OthersKeepTheirFate
  <2>4. CASE Tell(r, CodeFor(call[r].protocol, PlainError), {})
    <3>1. OnlyConcerns(r) /\ Shaped'
      BY <1>7, <1>s, <2>4, TellKeepsShape DEF QueryFails, AckLost, OnlyConcerns, Shaped
    <3>2. pc'[r] = "done" /\ call' = call /\ orders' = orders /\ announced' = announced
      BY <1>7, <1>s DEF QueryFails, AckLost
    <3>3. answer'[r].code \in Unknown
      BY <1>s, <2>2, <2>4, TellKeepsShape, CodeForBoth DEF Unknown
    <3>4. Fate(r)'
      BY <1>s, <2>1, <3>2, <3>3 DEF Fate
    <3> QED
      BY <3>1, <3>4, OthersKeepTheirFate
  <2> QED
    BY <1>7, <2>3, <2>4 DEF QueryFails, AckLost, Fail
<1>8. ASSUME NEW r \in Requests, Timeout(r) PROVE FateInv'
  <2>1. pc[r] \in {"querying", "saved"} /\ ~ BadRequest(call[r])
        /\ call[r] \in Offered /\ r \notin announced
    BY <1>8, <1>s DEF Timeout, Fate
  <2>2. call[r].protocol \in {"http", "grpc"}
    BY <2>1, RequestsAssumption DEF Calls
  <2>3. Tell(r, CodeFor(call[r].protocol, Lateness(call[r])), {})
    BY <1>8 DEF Timeout, Fail
  <2>4. CodeFor(call[r].protocol, Lateness(call[r])) \in Unknown
    BY <2>2, CodeForBoth DEF Lateness, Unknown
  <2>5. OnlyConcerns(r) /\ Shaped'
    BY <1>8, <1>s, <2>3, TellKeepsShape DEF Timeout, OnlyConcerns, Shaped
  <2>6. /\ pc'[r] = IF Waits(r, "create") THEN "orphaned" ELSE "done"
        /\ call' = call /\ orders' = orders /\ announced' = announced
        /\ answer'[r].code \in Unknown
    BY <1>8, <1>s, <2>3, <2>4, TellKeepsShape DEF Timeout
  <2>7. Fate(r)'
    <3>1. Fate(r)
      BY <1>s
    <3> QED
      BY <2>1, <2>6, <3>1 DEF Fate, Waits
  <2> QED
    BY <2>5, <2>7, OthersKeepTheirFate
<1>9. CASE Tick \/ UNCHANGED vars
  <2>1. UNCHANGED <<call, pc, orders, announced, answer>>
    BY <1>9 DEF Tick, vars
  <2> QED
    BY <2>1 DEF FateInv, Shaped, Fate
<1>10. ASSUME NEW r \in Requests, NEW k \in Offered, Choke(r, k) PROVE FateInv'
  <2>1. Tell(r, CodeFor(k.protocol, PlainError), {})
    BY <1>10 DEF Choke, Fail
  <2>2. OnlyConcerns(r) /\ Shaped'
    BY <1>10, <1>s, <2>1, TellKeepsShape DEF Choke, Arrive, OnlyConcerns, Shaped
  <2>3. pc[r] = "idle" /\ pc'[r] = "done" /\ call'[r] = k /\ Budget(k) = None
        /\ orders' = orders /\ announced' = announced
        /\ answer'[r].code = CodeFor(k.protocol, PlainError)
    BY <1>10, <1>s, <2>1, TellKeepsShape DEF Choke, Arrive
  <2>4. Fate(r)'
    <3>1. Fate(r)
      BY <1>s
    <3>2. orders[r] = {} /\ r \notin announced
      BY <2>3, <3>1 DEF Fate
    <3> QED
      BY <2>3, <3>2 DEF Fate
  <2> QED
    BY <2>2, <2>4, OthersKeepTheirFate
<1> QED
  BY <1>1, <1>2, <1>3, <1>4, <1>5, <1>6, <1>7, <1>8, <1>9, <1>10 DEF Next

(* The invariant holds in every reachable state. *)
LEMMA FateAlways == Spec => []FateInv
BY FateInit, FateStep, KnownAlways, PTL DEF Spec

(* What creates an order is a call on offer, over HTTP or gRPC. *)
LEMMA CreationsAreCalls ==
  ASSUME Known, NEW r \in Creations
  PROVE  /\ r \in Requests /\ pc[r] # "idle"
         /\ call[r] \in Offered /\ call[r].op = "create"
         /\ call[r].protocol \in {"http", "grpc"} /\ call[r].body \in Bodies
BY RequestsAssumption DEF Known, Creations, Asked, Calls

-----------------------------------------------------------------------------
(* What clients are shown: a second invariant, on top of the first.        *)

(* An order is stored as it was sent, a code belongs to the protocol of    *)
(* the request, and every order that is shown is one that exists.          *)
Truth(r) ==
  /\ r \in Existing => orders[r] = RowsOf(call[r].body)
  /\ answer[r].code # None =>
       r \in Asked /\ answer[r].code \in CodesOf(call[r].protocol)
  /\ \A s \in answer[r].shown : \E q \in Existing : s = ViewOf(r, q)

TruthInv ==
  /\ clock \in Instants
  /\ start \in [Requests -> Instants]
  /\ announced \subseteq Requests
  /\ \A r \in Requests : Truth(r)

(* Every code of HTTP has one of gRPC. *)
LEMMA Http2GrpcCodes ==
  ASSUME NEW status \in HttpStatuses
  PROVE  http2grpc(status) \in GrpcCodes
BY DEF HttpStatuses, GrpcCodes, http2grpc, OK, CANCELLED, UNKNOWN,
       INVALID_ARGUMENT, DEADLINE_EXCEEDED, NOT_FOUND, ALREADY_EXISTS,
       PERMISSION_DENIED, RESOURCE_EXHAUSTED, FAILED_PRECONDITION,
       OUT_OF_RANGE, UNIMPLEMENTED, INTERNAL, UNAVAILABLE, UNAUTHENTICATED

(* The exceptions that requests meet are answered in their own protocol.   *)
LEMMA CodesBelong ==
  ASSUME NEW protocol \in {"http", "grpc"}
  PROVE  /\ CodeFor(protocol, PlainError) \in CodesOf(protocol)
         /\ CodeFor(protocol, ValidationFailedError) \in CodesOf(protocol)
         /\ \A status \in HttpStatuses :
              CodeFor(protocol, HttpException(status)) \in CodesOf(protocol)
<1>1. ASSUME NEW status \in HttpStatuses
      PROVE  CodeFor(protocol, HttpException(status)) \in CodesOf(protocol)
  <2>1. CASE protocol = "http"
    BY <2>1, HttpCodeOfHttpException DEF CodeFor, CodesOf
  <2>2. CASE protocol = "grpc"
    <3>1. HttpException(status).code = status
      BY DEF HttpException
    <3>2. GrpcCode(HttpException(status)) = http2grpc(status)
      BY <3>1, FilterOfHttpException, Zenon DEF GrpcCode
    <3> QED
      BY <2>2, <3>2, Http2GrpcCodes DEF CodeFor, CodesOf
  <2> QED
    BY <2>1, <2>2
<1>2. /\ {400, 500} \subseteq HttpStatuses
      /\ {INVALID_ARGUMENT, INTERNAL} \subseteq GrpcCodes
  BY DEF HttpStatuses, GrpcCodes, INVALID_ARGUMENT, INTERNAL
<1> QED
  BY <1>1, <1>2, CodeForBoth DEF CodesOf

(* A success has a code of its protocol, too. *)
LEMMA SuccessBelongs ==
  ASSUME NEW r \in Requests, NEW k \in Offered, NEW shown, Succeed(r, k, shown)
  PROVE  \E code \in CodesOf(k.protocol) : Tell(r, code, shown)
<1>1. k.protocol \in {"http", "grpc"}
  BY RequestsAssumption DEF Calls
<1>2. OK \in GrpcCodes /\ 200 \in HttpStatuses /\ 201 \in HttpStatuses
  BY DEF OK, GrpcCodes, HttpStatuses
<1>3. (IF k.protocol = "grpc" THEN OK ELSE IF k.op = "create" THEN 201 ELSE 200)
        \in CodesOf(k.protocol)
  BY <1>1, <1>2 DEF CodesOf
<1> QED
  BY <1>3 DEF Succeed

(* A refusal has a code of its protocol. *)
LEMMA RefusalBelongs ==
  ASSUME NEW k \in Offered, BadRequest(k)
  PROVE  CodeFor(k.protocol, Refusal(k)) \in CodesOf(k.protocol)
<1>1. k.protocol \in {"http", "grpc"}
  BY RequestsAssumption DEF Calls
<1>2. Refusal(k) \in {HttpException(400), ValidationFailedError, PlainError}
  <2>1. CASE k.op = "get"
    BY <2>1, Zenon DEF Refusal
  <2>2. CASE k.op = "create"
    <3>1. k.op # "get"
      BY <2>2
    <3> DEFINE order == Received(k.protocol, k.body)
    <3>2. Refusal(k) = IF Invalid(order) THEN ValidationError(order) ELSE PlainError
      BY <2>2, <3>1, Zenon DEF Refusal
    <3> QED
      BY <3>2 DEF ValidationError
  <2> QED
    BY <2>1, <2>2 DEF BadRequest
<1>3. 400 \in HttpStatuses
  BY DEF HttpStatuses
<1> QED
  BY <1>1, <1>2, <1>3, CodesBelong

(* What has arrived stays as it is. *)
LEMMA CallsStay ==
  ASSUME Known, [Next]_vars, NEW r \in Asked
  PROVE  r \in Asked' /\ call'[r] = call[r]
BY DEF Known, Next, vars, Choke, Refuse, Health, Ask, Admit, Arrive, Save, SaveOrphan, Created,
       Read, QueryFails, AckLost, Timeout, Tick, Goto, Waits, Asked

(* An order is stored once, as it was sent, and never changed. *)
LEMMA OrdersStay ==
  ASSUME FateInv, [Next]_vars, NEW r \in Requests, orders'[r] # orders[r]
  PROVE  /\ r \notin Existing
         /\ r \in Asked /\ orders'[r] = RowsOf(call[r].body)
<1>1. Save(r) \/ SaveOrphan(r)
  <2>1. \A q \in Requests : Store(q) => q = r
    BY DEF Store, FateInv, Shaped
  <2> QED
    BY <2>1 DEF Next, vars, Choke, Refuse, Health, Ask, Save, SaveOrphan, Created,
                Read, QueryFails, AckLost, Timeout, Tick
<1>2. /\ pc[r] \in {"querying", "orphaned"} /\ call[r].op = "create"
      /\ ~ BadRequest(call[r]) /\ r \notin Existing
  BY <1>1 DEF Save, SaveOrphan, Waits, FateInv, Fate, Existing
<1>3. call[r] \in Offered
  BY <1>2 DEF FateInv, Shaped, Known
<1>4. call[r].protocol = "http"
  <2>1. call[r].protocol \in {"http", "grpc"} /\ call[r].body \in Bodies
    BY <1>2, <1>3, RequestsAssumption DEF Calls
  <2> QED
    BY <1>2, <2>1, GrpcIsRefused DEF BadRequest
<1>5. orders'[r] = RowsOf(Order(r))
  BY <1>1 DEF Save, SaveOrphan, Store, FateInv, Shaped
<1> QED
  BY <1>2, <1>4, <1>5 DEF Order, Received, Asked

(* An answer has a code of the protocol, and shows orders that exist. *)
Answers(r) ==
  /\ r \in Asked'
  /\ answer'[r].code \in CodesOf(call'[r].protocol)
  /\ \A s \in answer'[r].shown : \E q \in Existing : s = ViewOf(r, q)

(* Whoever is told something is told something that belongs.               *)
LEMMA TellAnswers ==
  ASSUME FateInv, NEW r \in Requests, NEW k \in Offered,
         pc' = [pc EXCEPT ![r] = "done"] \/ pc' = [pc EXCEPT ![r] = "orphaned"],
         call'[r] = k,
         NEW code \in CodesOf(k.protocol), NEW shown, Tell(r, code, shown),
         \A s \in shown : \E q \in Existing : s = ViewOf(r, q)
  PROVE  \A q \in Requests : answer'[q] = answer[q] \/ Answers(q)
<1>1. pc'[r] # "idle"
  BY DEF FateInv, Shaped, Known
<1>2. Answers(r)
  BY <1>1, TellKeepsShape DEF FateInv, Shaped, Answers, Asked
<1> QED
  BY <1>2, TellKeepsShape DEF FateInv, Shaped

(* The same for whoever is shown no order. *)
LEMMA TellsNothing ==
  ASSUME FateInv, NEW r \in Requests, NEW k \in Offered,
         pc' = [pc EXCEPT ![r] = "done"] \/ pc' = [pc EXCEPT ![r] = "orphaned"],
         call'[r] = k,
         NEW code \in CodesOf(k.protocol), Tell(r, code, {})
  PROVE  \A q \in Requests : answer'[q] = answer[q] \/ Answers(q)
<1>1. pc'[r] # "idle"
  BY DEF FateInv, Shaped, Known
<1>2. Answers(r)
  BY <1>1, TellKeepsShape DEF FateInv, Shaped, Answers, Asked
<1> QED
  BY <1>2, TellKeepsShape DEF FateInv, Shaped

(* Every step leaves an answer as it is or gives one that belongs. *)
LEMMA AnswersBelong ==
  ASSUME FateInv, [Next]_vars
  PROVE  \A q \in Requests : answer'[q] = answer[q] \/ Answers(q)
<1> DEFINE Goal == \A q \in Requests : answer'[q] = answer[q] \/ Answers(q)
<1> USE DEF Goto
<1>s. /\ call \in [Requests -> Offered \cup {None}]
      /\ \A r \in Requests : pc[r] # "idle" => call[r] \in Offered
      /\ \A k \in Offered : k.protocol \in {"http", "grpc"}
  BY RequestsAssumption DEF FateInv, Shaped, Known, Calls
<1>1. ASSUME NEW r \in Requests, NEW k \in Offered, Refuse(r, k) PROVE Goal
  <2>1. /\ Tell(r, CodeFor(k.protocol, Refusal(k)), {})
        /\ pc' = [pc EXCEPT ![r] = "done"] /\ call'[r] = k
    BY <1>1, <1>s DEF Refuse, Admit, Arrive, Fail
  <2>2. CodeFor(k.protocol, Refusal(k)) \in CodesOf(k.protocol)
    BY <1>1, RefusalBelongs DEF Refuse
  <2> QED
    BY <2>1, <2>2, TellsNothing
<1>2. ASSUME NEW r \in Requests, NEW k \in Offered, Health(r, k) PROVE Goal
  <2>1. /\ Succeed(r, k, {})
        /\ pc' = [pc EXCEPT ![r] = "done"] /\ call'[r] = k
    BY <1>2, <1>s DEF Health, Admit, Arrive
  <2>2. PICK code \in CodesOf(k.protocol) : Tell(r, code, {})
    BY <2>1, SuccessBelongs
  <2> QED
    BY <2>1, <2>2, TellsNothing
<1>3. ASSUME NEW r \in Requests, Created(r) PROVE Goal
  <2>1. /\ pc' = [pc EXCEPT ![r] = "done"] /\ call'[r] = call[r]
        /\ call[r] \in Offered /\ r \in Existing
        /\ call[r].op = "create" /\ ~ BadRequest(call[r])
    BY <1>3, <1>s DEF Created, FateInv, Fate, Existing
  <2>2. Succeed(r, call[r], {ViewOf(r, r)})
    BY <1>3, <2>1, AcceptedOrders DEF Created, Order
  <2>3. PICK code \in CodesOf(call[r].protocol) : Tell(r, code, {ViewOf(r, r)})
    BY <2>1, <2>2, SuccessBelongs
  <2> QED
    BY <2>1, <2>3, TellAnswers
<1>4. ASSUME NEW r \in Requests, Read(r) PROVE Goal
  <2> DEFINE k == call[r]
             views == {ViewOf(r, q) : q \in Result(k)}
  <2>1. /\ pc' = [pc EXCEPT ![r] = "done"] /\ call'[r] = k /\ k \in Offered
    BY <1>4, <1>s DEF Read
  <2>2. \/ Fail(r, k, HttpException(404)) \/ Fail(r, k, PlainError)
        \/ Succeed(r, k, views)
    BY <1>4, Zenon DEF Read
  <2>3. CASE Fail(r, k, HttpException(404)) \/ Fail(r, k, PlainError)
    <3>1. 404 \in HttpStatuses
      BY DEF HttpStatuses
    <3>2. PICK code \in CodesOf(k.protocol) : Tell(r, code, {})
      BY <2>1, <2>3, <3>1, <1>s, CodesBelong DEF Fail
    <3> QED
      BY <2>1, <3>2, TellsNothing
  <2>4. CASE Succeed(r, k, views)
    <3>1. \A s \in views : \E q \in Existing : s = ViewOf(r, q)
      BY DEF Result
    <3> HIDE DEF views
    <3>2. PICK code \in CodesOf(k.protocol) : Tell(r, code, views)
      BY <2>1, <2>4, SuccessBelongs
    <3> QED
      BY <2>1, <3>1, <3>2, TellAnswers
  <2> QED
    BY <2>2, <2>3, <2>4
<1>5. ASSUME NEW r \in Requests, QueryFails(r) \/ AckLost(r) \/ Timeout(r),
             answer' # answer
      PROVE  Goal
  <2>1. /\ \/ pc' = [pc EXCEPT ![r] = "done"]
           \/ pc' = [pc EXCEPT ![r] = "orphaned"]
        /\ call'[r] = call[r] /\ call[r] \in Offered
        /\ \/ Fail(r, call[r], PlainError)
           \/ Fail(r, call[r], Lateness(call[r]))
    BY <1>5, <1>s DEF QueryFails, AckLost, Timeout
  <2>2. 408 \in HttpStatuses
    BY DEF HttpStatuses
  <2>3. PICK code \in CodesOf(call[r].protocol) : Tell(r, code, {})
    BY <2>1, <2>2, <1>s, CodesBelong DEF Fail, Lateness
  <2> QED
    BY <2>1, <2>3, TellsNothing
<1>6. CASE answer' = answer
  BY <1>6
<1>7. ASSUME NEW r \in Requests, NEW k \in Offered, Choke(r, k) PROVE Goal
  <2>1. /\ Tell(r, CodeFor(k.protocol, PlainError), {})
        /\ pc' = [pc EXCEPT ![r] = "done"] /\ call'[r] = k
    BY <1>7, <1>s DEF Choke, Arrive, Fail
  <2> QED
    BY <2>1, <1>s, CodesBelong, TellsNothing
<1> QED
  BY <1>1, <1>2, <1>3, <1>4, <1>5, <1>6, <1>7
  DEF Next, Ask, Save, SaveOrphan, Tick, vars

(* Every step preserves the second invariant. *)
LEMMA TruthNext ==
  ASSUME FateInv, TruthInv, [Next]_vars
  PROVE  TruthInv'
<1>1. \A q \in Existing :
        q \in Existing' /\ \A r \in Requests : ViewOf(r, q)' = ViewOf(r, q)
  <2>1. \A q \in Existing : orders'[q] = orders[q]
    BY OrdersStay DEF Existing
  <2>2. \A q \in Existing : call'[q] = call[q]
    BY CallsStay DEF Existing, Asked, FateInv, Shaped, Fate
  <2> QED
    BY <2>1, <2>2 DEF Existing, ViewOf, Order
<1>2. ASSUME NEW r \in Requests PROVE Truth(r)'
  <2>1. Truth(r)
    BY DEF TruthInv
  <2>2. r \in Existing' => orders'[r] = RowsOf(call'[r].body)
    <3>1. CASE orders'[r] # orders[r]
      BY <3>1, OrdersStay, CallsStay DEF FateInv, Shaped
    <3>2. CASE orders'[r] = orders[r]
      <4>1. r \in Existing' => r \in Existing /\ r \in Asked
        BY <3>2 DEF Existing, Asked, FateInv, Fate
      <4> QED
        BY <2>1, <3>2, <4>1, CallsStay DEF FateInv, Shaped, Truth
    <3> QED
      BY <3>1, <3>2
  <2>3. CASE answer'[r] = answer[r]
    <3>1. answer'[r].code # None =>
            r \in Asked' /\ answer'[r].code \in CodesOf(call'[r].protocol)
      BY <2>1, <2>3, CallsStay DEF FateInv, Shaped, Truth
    <3>2. \A s \in answer'[r].shown : \E q \in Existing' : s = ViewOf(r, q)'
      BY <1>1, <2>1, <2>3 DEF Truth
    <3> QED
      BY <2>2, <3>1, <3>2 DEF Truth, CodesOf
  <2>4. CASE Answers(r)
    <3>1. \A s \in answer'[r].shown : \E q \in Existing' : s = ViewOf(r, q)'
      BY <1>1, <2>4 DEF Answers
    <3> QED
      BY <2>2, <2>4, <3>1 DEF Truth, Answers, CodesOf
  <2> QED
    BY <2>3, <2>4, AnswersBelong
<1>3. clock' \in Instants /\ start' \in [Requests -> Instants]
  BY DEF TruthInv, Next, vars, Choke, Refuse, Health, Ask, Admit, Arrive, Save, SaveOrphan, Created,
         Read, QueryFails, AckLost, Timeout, Tick
<1>4. announced' \subseteq Requests
  BY DEF TruthInv, Next, vars, Choke, Refuse, Health, Ask, Save, SaveOrphan, Created,
         Read, QueryFails, AckLost, Timeout, Tick
<1> QED
  BY <1>2, <1>3, <1>4 DEF TruthInv

(* The second invariant holds in every reachable state. *)
LEMMA TruthAlways == Spec => [](FateInv /\ TruthInv)
<1>1. Init => TruthInv
  BY RequestsAssumption DEF Init, TruthInv, Truth, Existing
<1> QED
  BY <1>1, TruthNext, FateAlways, PTL DEF Spec

(* What the value objects and the mapper have made of a product is what is *)
(* made of it when it is read: trimming twice is trimming once.            *)
LEMMA ReadAsStored ==
  ASSUME NEW line \in Lines
  PROVE  Product(RowOf(Product(line))) = AsSent(line)
BY DEF Lines, Product, RowOf, Trim, AsSent

(* What is shown of a product has the shape of a product that was sent. *)
LEMMA SentIsLine ==
  ASSUME NEW line \in Lines, Acceptable(line)
  PROVE  AsSent(line) \in Lines
<1>1. line.name \in Texts /\ line.description \in Texts
  BY DEF Lines, Acceptable, ProductName, ProductDescription
<1>2. Trim(line.name) \in Texts /\ Trim(line.description) \in Texts
  BY <1>1 DEF Texts, Trim
<1> QED
  BY <1>2 DEF Lines, AsSent

(* What a view of an order shows: all of what its creator sent if it is    *)
(* the creator's, or what the first lines of the products say.             *)
LEMMA ViewsAreTrue ==
  ASSUME FateInv, TruthInv, NEW r \in Requests, NEW q \in Existing
  PROVE  LET sent == call[q].body.products
             view == ViewOf(r, q)
         IN /\ q \in Requests /\ view.order = q /\ sent \in Seq(Lines)
            /\ view.products =
                 {AsSent(sent[i]) :
                    i \in {j \in DOMAIN sent : r = q \/ First(sent, j)}}
            /\ \A i \in DOMAIN sent : Acceptable(sent[i])
<1> DEFINE sent == call[q].body.products
<1>1. /\ q \in Requests /\ orders[q] = RowsOf(call[q].body) /\ q \in Creations
      /\ call[q] \in Offered /\ ~ BadRequest(call[q]) /\ call[q].op = "create"
  BY CreationsAreCalls
     DEF Existing, TruthInv, Truth, FateInv, Shaped, Known, Fate, Creations, Asked, Stages
<1>2. Order(q) = call[q].body
  BY <1>1, AcceptedOrders DEF Order
<1>3. sent \in Seq(Lines)
  BY <1>1, CreationsAreCalls DEF FateInv, Shaped, Bodies
<1>4. \A i \in DOMAIN sent : Acceptable(sent[i])
  BY <1>1, <1>2 DEF BadRequest, Order, Constructible
<1>5. \A i \in DOMAIN sent : Product(RowOf(Product(sent[i]))) = AsSent(sent[i])
  BY <1>3, ReadAsStored
<1>6. CASE r = q
  <2>1. ViewOf(r, q).products = Shown(SavedOf(call[q].body))
    BY <1>2, <1>6 DEF ViewOf
  <2>2. Shown(SavedOf(call[q].body)) = {AsSent(sent[i]) : i \in DOMAIN sent}
    BY <1>5 DEF Shown, SavedOf, Range
  <2> QED
    BY <1>1, <1>3, <1>4, <1>6, <2>1, <2>2 DEF ViewOf
<1>7. CASE r # q
  <2>1. ViewOf(r, q).products = Shown(RowsOf(call[q].body))
    BY <1>1, <1>7 DEF ViewOf
  <2>2. Shown(RowsOf(call[q].body)) =
          {AsSent(sent[i]) : i \in {j \in DOMAIN sent : First(sent, j)}}
    BY <1>5 DEF Shown, RowsOf
  <2> QED
    BY <1>1, <1>3, <1>4, <1>7, <2>1, <2>2 DEF ViewOf
<1> QED
  BY <1>6, <1>7

-----------------------------------------------------------------------------
(* The results.                                                            *)

(* Every variable has its type: every request that is answered is answered *)
(* in its own protocol, with orders that somebody has created.             *)
THEOREM RequestsTypeCorrectness == Spec => []RequestsTypeOK
<1>1. FateInv /\ TruthInv => RequestsTypeOK
  <2> SUFFICES ASSUME FateInv, TruthInv PROVE RequestsTypeOK
    OBVIOUS
  <2>1. ASSUME NEW r \in Requests, NEW s \in answer[r].shown
        PROVE  s.order \in Requests /\ s.products \subseteq Lines
    <3>1. PICK q \in Existing : s = ViewOf(r, q)
      BY <2>1 DEF TruthInv, Truth
    <3> DEFINE sent == call[q].body.products
    <3>2. /\ q \in Requests /\ s.order = q /\ sent \in Seq(Lines)
          /\ s.products \subseteq {AsSent(sent[i]) : i \in DOMAIN sent}
          /\ \A i \in DOMAIN sent : Acceptable(sent[i])
      BY <2>1, <3>1, ViewsAreTrue
    <3>3. \A i \in DOMAIN sent : sent[i] \in Lines
      BY <3>2
    <3>4. \A i \in DOMAIN sent : AsSent(sent[i]) \in Lines
      BY <3>2, <3>3, SentIsLine
    <3> QED
      BY <3>2, <3>4
  <2> QED
    BY <2>1 DEF RequestsTypeOK, FateInv, Shaped, Known, TruthInv, Truth, Asked
<1> QED
  BY <1>1, TruthAlways, PTL

(* What any client is shown of an order, when it is created, got or        *)
(* listed, is what its creator has sent (the value objects trim texts, and *)
(* the mapper loses a price of 0); of a product that was sent twice, the   *)
(* database keeps the first line.                                          *)
THEOREM OrdersAreShownAsSent == Spec => []ShownAsOrdered
<1>1. FateInv /\ TruthInv => ShownAsOrdered
  <2> SUFFICES
        ASSUME FateInv, TruthInv, NEW r \in Asked, NEW s \in answer[r].shown
        PROVE  LET sent == call[s.order].body.products
               IN /\ s.products \subseteq {AsSent(line) : line \in Range(sent)}
                  /\ \A i \in DOMAIN sent :
                       r = s.order \/ First(sent, i) => AsSent(sent[i]) \in s.products
                  /\ r # s.order => \A p, q \in s.products : p.id = q.id => p = q
    BY DEF ShownAsOrdered
  <2>1. PICK q \in Existing : s = ViewOf(r, q)
    BY DEF TruthInv, Truth, Asked
  <2> DEFINE sent == call[q].body.products
  <2>2. /\ s.order = q /\ sent \in Seq(Lines)
        /\ s.products = {AsSent(sent[i]) :
                           i \in {j \in DOMAIN sent : r = q \/ First(sent, j)}}
    BY <2>1, ViewsAreTrue DEF Asked
  <2>3. s.products \subseteq {AsSent(line) : line \in Range(sent)}
    BY <2>2 DEF Range
  <2>4. \A i \in DOMAIN sent :
          r = q \/ First(sent, i) => AsSent(sent[i]) \in s.products
    BY <2>2
  <2>5. ASSUME r # q, NEW x \in s.products, NEW y \in s.products, x.id = y.id
        PROVE  x = y
    <3>1. PICK i \in DOMAIN sent : x = AsSent(sent[i]) /\ First(sent, i)
      BY <2>2, <2>5
    <3>2. PICK j \in DOMAIN sent : y = AsSent(sent[j]) /\ First(sent, j)
      BY <2>2, <2>5
    <3>3. sent[i] \in Lines /\ sent[j] \in Lines /\ i \in Nat \ {0} /\ j \in Nat \ {0}
      BY <2>2
    <3>4. sent[i].id = sent[j].id
      BY <2>5, <3>1, <3>2, <3>3 DEF AsSent, Lines
    <3>5. i = j
      BY <3>1, <3>2, <3>3, <3>4 DEF First
    <3> QED
      BY <3>1, <3>2, <3>5
  <2> QED
    BY <2>2, <2>3, <2>4, <2>5
<1> QED
  BY <1>1, TruthAlways, PTL

(* Every order that was stored satisfies the value objects it is read      *)
(* through (the mappers and the constructors of the value objects).        *)
THEOREM StoredCanBeRead == Spec => []StoredIsReadable
<1>1. FateInv => StoredIsReadable
  BY DEF FateInv, Fate, StoredIsReadable, Existing
<1> QED
  BY <1>1, FateAlways, PTL

(* CreateOrder over gRPC has never created an order, and a client that     *)
(* sends products is told INTERNAL: the ProductDTO wants a number and the  *)
(* proto sends a string, which is not converted.                           *)
THEOREM NothingIsCreatedOverGrpc ==
  Spec => [](\A r \in Creations :
               call[r].protocol = "grpc" =>
                 /\ r \notin Existing
                 /\ call[r].body.products # <<>> => Answered(r, {INTERNAL}))
<1>1. FateInv => (\A r \in Creations :
               call[r].protocol = "grpc" =>
                 /\ r \notin Existing
                 /\ call[r].body.products # <<>> => Answered(r, {INTERNAL}))
  <2> SUFFICES ASSUME FateInv, NEW r \in Creations, call[r].protocol = "grpc"
               PROVE  /\ r \notin Existing
                      /\ call[r].body.products # <<>> => Answered(r, {INTERNAL})
    OBVIOUS
  <2>1. /\ r \in Requests /\ pc[r] # "idle" /\ call[r] \in Offered
        /\ call[r].op = "create" /\ call[r].body \in Bodies
    BY CreationsAreCalls DEF FateInv, Shaped
  <2>2. BadRequest(call[r])
    BY <2>1, GrpcIsRefused DEF BadRequest
  <2>3. Fate(r) /\ pc[r] = "done"
    BY <2>1, <2>2 DEF FateInv, Shaped, Known, Stages, Fate
  <2>4. r \notin Existing /\ r \notin announced
    BY <2>2, <2>3 DEF Fate, Existing
  <2>5. CASE Budget(call[r]) # None
    <3>1. answer[r].code = CodeFor(call[r].protocol, Refusal(call[r]))
      BY <2>1, <2>2, <2>3, <2>5 DEF Fate
    <3> QED
      BY <2>1, <2>2, <2>4, <3>1, Refusals DEF Answered
  <2>6. CASE Budget(call[r]) = None
    <3>1. answer[r].code = CodeFor(call[r].protocol, PlainError)
      BY <2>1, <2>3, <2>4, <2>6 DEF Fate
    <3> QED
      BY <2>4, <3>1, CodeForBoth DEF Answered
  <2> QED
    BY <2>5, <2>6
<1> QED
  BY <1>1, FateAlways, PTL

(* 400 and INVALID_ARGUMENT are only answered to orders that the class     *)
(* validators refuse, however the database and the timers behave.          *)
THEOREM BlameIsDeserved == Spec => []NobodyIsBlamed
<1>1. FateInv => NobodyIsBlamed
  <2> SUFFICES ASSUME FateInv, NEW r \in Creations,
                      Answered(r, {400, INVALID_ARGUMENT})
               PROVE  Invalid(call[r].body)
    BY DEF NobodyIsBlamed
  <2>1. /\ r \in Requests /\ pc[r] # "idle" /\ call[r] \in Offered
        /\ call[r].op = "create" /\ call[r].protocol \in {"http", "grpc"}
    BY CreationsAreCalls DEF FateInv, Shaped
  <2>2. Fate(r) /\ pc[r] \in Stages
    BY <2>1 DEF FateInv, Shaped, Known
  <2>3. answer[r].code \in {400, INVALID_ARGUMENT}
    BY DEF Answered
  <2>4. pc[r] \in {"orphaned", "done"}
    BY <2>1, <2>2, <2>3, TimersAssumption DEF Fate, Stages, INVALID_ARGUMENT
  <2>5. Budget(call[r]) # None /\ BadRequest(call[r])
    <3>1. /\ CodeFor(call[r].protocol, PlainError) \in {500, INTERNAL}
          /\ {500, INTERNAL} \cap {400, INVALID_ARGUMENT} = {}
      BY <2>1, CodeForBoth DEF INVALID_ARGUMENT, INTERNAL
    <3> QED
      BY <2>1, <2>2, <2>3, <2>4, <3>1
         DEF Fate, Successes, Unknown, INVALID_ARGUMENT, INTERNAL, OK
  <2>6. answer[r].code = CodeFor(call[r].protocol, Refusal(call[r]))
    BY <2>1, <2>2, <2>4, <2>5 DEF Fate
  <2> QED
    BY <2>1, <2>3, <2>5, <2>6, Refusals
<1> QED
  BY <1>1, FateAlways, PTL

(* A client that is told of success or of a bad request is told the truth, *)
(* and one whose order was stored but not announced is told of an error.   *)
THEOREM AnswersAreTrue == Spec => []AnswersMatchFate
<1>1. FateInv => AnswersMatchFate
  <2> SUFFICES
        ASSUME FateInv, NEW r \in Creations
        PROVE  /\ Answered(r, Successes) <=> r \in announced
               /\ r \in announced => r \in Existing
               /\ Answered(r, {400, INVALID_ARGUMENT}) =>
                    pc[r] = "done" /\ r \notin Existing
               /\ pc[r] = "done" /\ r \in Existing \ announced =>
                    Answered(r, {408, 500, INTERNAL})
    BY DEF AnswersMatchFate
  <2>1. /\ r \in Requests /\ pc[r] # "idle" /\ call[r] \in Offered
        /\ call[r].op = "create" /\ call[r].protocol \in {"http", "grpc"}
    BY CreationsAreCalls DEF FateInv, Shaped
  <2>2. Fate(r) /\ pc[r] \in Stages
    BY <2>1 DEF FateInv, Shaped, Known
  <2>3. CASE pc[r] \in {"querying", "saved"}
    BY <2>2, <2>3, TimersAssumption
       DEF Fate, Answered, Successes, INVALID_ARGUMENT, OK
  <2>4. CASE pc[r] \in {"orphaned", "done"} /\ BadRequest(call[r])
    <3>1. answer[r].code \in {400, INVALID_ARGUMENT, 500, INTERNAL}
      <4>1. CodeFor(call[r].protocol, PlainError) \in {500, INTERNAL}
        BY <2>1, CodeForBoth
      <4>2. CASE Budget(call[r]) = None
        BY <2>1, <2>2, <2>4, <4>1, <4>2 DEF Fate
      <4>3. CASE Budget(call[r]) # None
        <5>1. answer[r].code = CodeFor(call[r].protocol, Refusal(call[r]))
          BY <2>1, <2>2, <2>4, <4>3 DEF Fate
        <5> QED
          BY <2>1, <2>4, <5>1, Refusals
      <4> QED
        BY <4>2, <4>3
    <3>2. r \notin Existing /\ r \notin announced /\ pc[r] = "done"
      BY <2>1, <2>2, <2>4 DEF Fate, Existing
    <3> QED
      BY <3>1, <3>2 DEF Answered, Successes, INVALID_ARGUMENT, INTERNAL, OK
  <2>5. CASE pc[r] \in {"orphaned", "done"} /\ ~ BadRequest(call[r])
    <3>1. answer[r].code \in IF r \in announced THEN Successes ELSE Unknown
      <4>1. CodeFor(call[r].protocol, PlainError) \in Unknown
        BY <2>1, CodeForBoth DEF Unknown
      <4>2. CASE Budget(call[r]) = None
        BY <2>1, <2>2, <2>5, <4>1, <4>2 DEF Fate
      <4>3. CASE Budget(call[r]) # None
        BY <2>1, <2>2, <2>5, <4>3 DEF Fate
      <4> QED
        BY <4>2, <4>3
    <3>2. r \in announced => r \in Existing
      BY <2>1, <2>2 DEF Fate, Existing
    <3> QED
      BY <3>1, <3>2 DEF Answered, Successes, Unknown, INVALID_ARGUMENT, INTERNAL, OK
  <2> QED
    BY <2>1, <2>2, <2>3, <2>4, <2>5 DEF Stages
<1> QED
  BY <1>1, FateAlways, PTL
=============================================================================
