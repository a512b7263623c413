---------------------------- MODULE ErrorFilters ----------------------------
(***************************************************************************)
(* From an exception to the code its caller sees: the exception filters of *)
(* src/shared/filters and the mappers between the codes of HTTP and gRPC.  *)
(* Messages and causes are left out.                                       *)
(***************************************************************************)
EXTENDS Naturals

(* Codes of gRPC (@grpc/grpc-js). *)
OK == 0
CANCELLED == 1
UNKNOWN == 2
INVALID_ARGUMENT == 3
DEADLINE_EXCEEDED == 4
NOT_FOUND == 5
ALREADY_EXISTS == 6
PERMISSION_DENIED == 7
RESOURCE_EXHAUSTED == 8
FAILED_PRECONDITION == 9
ABORTED == 10
OUT_OF_RANGE == 11
UNIMPLEMENTED == 12
INTERNAL == 13
UNAVAILABLE == 14
DATA_LOSS == 15
UNAUTHENTICATED == 16

GrpcCodes == 0 .. 16

HttpStatuses == 100 .. 599

http2grpc(status) ==
  CASE status \in {100, 200, 201} -> OK
    [] status = 101               -> CANCELLED
    [] status \in {400, 422}      -> INVALID_ARGUMENT
    [] status = 401               -> UNAUTHENTICATED
    [] status = 403               -> PERMISSION_DENIED
    [] status = 404               -> NOT_FOUND
    [] status = 408               -> DEADLINE_EXCEEDED
    [] status = 409               -> ALREADY_EXISTS
    [] status = 413               -> OUT_OF_RANGE
    [] status = 428               -> FAILED_PRECONDITION
    [] status = 429               -> RESOURCE_EXHAUSTED
    [] status = 500               -> INTERNAL
    [] status = 501               -> UNIMPLEMENTED
    [] status = 503               -> UNAVAILABLE
    [] OTHER                      -> UNKNOWN

grpc2http(code) ==
  CASE code = OK                      -> 200
    [] code \in {CANCELLED, ABORTED}  -> 405
    [] code = UNKNOWN                 -> 502
    [] code = INVALID_ARGUMENT        -> 400
    [] code = DEADLINE_EXCEEDED       -> 408
    [] code \in {NOT_FOUND, UNAVAILABLE} -> 404
    [] code = ALREADY_EXISTS          -> 409
    [] code = PERMISSION_DENIED       -> 403
    [] code = RESOURCE_EXHAUSTED      -> 429
    [] code = FAILED_PRECONDITION     -> 428
    [] code = OUT_OF_RANGE            -> 413
    [] code = UNIMPLEMENTED           -> 501
    [] code = UNAUTHENTICATED         -> 401
    [] OTHER                          -> 500

(* An exception: its class, and the status or code it carries if it does.  *)
HttpException(status) == [class |-> "HttpException", code |-> status]
AxiosError(status)    == [class |-> "AxiosError", code |-> status]
RpcException(code)    == [class |-> "RpcException", code |-> code]
PlainError            == [class |-> "Error", code |-> 0]
ValidationFailedError == [class |-> "DomainError", code |-> 400]

(* The classes the filters of the controllers catch, in the order in which *)
(* they are tried: the reverse of the order in which they are listed.      *)
Filters == <<"HttpException", "AxiosError", "RpcException", "DomainError",
             "Error">>

(* The first filter that catches e; every exception is an Error. *)
FilterFor(e) ==
  LET i == CHOOSE i \in 1 .. 5 :
             /\ Filters[i] \in {e.class, "Error"}
             /\ \A j \in 1 .. i - 1 : Filters[j] \notin {e.class, "Error"}
  IN Filters[i]

(* The code of each filter in an HTTP and in an RPC context. *)
HttpCode(e) ==
  CASE FilterFor(e) \in {"HttpException", "AxiosError"} -> e.code
    [] FilterFor(e) = "RpcException" -> grpc2http(e.code)
    [] FilterFor(e) = "DomainError"  -> e.code
    [] FilterFor(e) = "Error"        -> 500

GrpcCode(e) ==
  CASE FilterFor(e) \in {"HttpException", "AxiosError"} -> http2grpc(e.code)
    [] FilterFor(e) = "RpcException" -> e.code
    [] FilterFor(e) = "DomainError"  -> IF e.code = 400 THEN INVALID_ARGUMENT
                                                        ELSE INTERNAL
    [] FilterFor(e) = "Error"        -> INTERNAL

(* A mistake: the codes of HTTP are used over gRPC, too. *)
MutantCodeFor(protocol, e) == HttpCode(e)

CodeFor(protocol, e) == IF protocol = "http" THEN HttpCode(e) ELSE GrpcCode(e)
=============================================================================
