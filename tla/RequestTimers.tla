--------------------------- MODULE RequestTimers ---------------------------
(***************************************************************************)
(* How long a request may take: timeout() of HTTPInterceptor and of        *)
(* gRPCInterceptor (src/shared/interceptors), in milliseconds.             *)
(*                                                                         *)
(* A client may name a time: over HTTP in the header x-timeout or in the   *)
(* query, over gRPC in the metadata.  It does so in a string, of which the *)
(* gRPC interceptor reads the first character only.  Whoever does not, or  *)
(* does not set a deadline, gets the time of the configuration: the module *)
(* that reads it does not know HTTP_TIMEOUT and GRPC_TIMEOUT, so that they *)
(* are left in the strings that environment variables are.                 *)
(***************************************************************************)
EXTENDS Integers

CONSTANTS
  None,         \* no number, no deadline
  Configured,   \* the protocols whose time is set: HTTP_TIMEOUT, GRPC_TIMEOUT
  MaxDelay      \* the longest delay of a timer of Node.js: 2^31 - 1

Smaller(a, b) == IF a <= b THEN a ELSE b
Larger(a, b) == IF a >= b THEN a ELSE b

(* A string that names a time: the number it denotes, and its first digit; *)
(* and no such string.                                                     *)
Wishes == [ms : Nat, first : 0 .. 9]
          \cup [ms : {None}, first : (0 .. 9) \cup {None}]

NoWish == [ms |-> None, first |-> None]

Second == 1000
Default == 30 * Second
FiveMinutes == 300 * Second

ASSUME TimersAssumption ==
  /\ Configured \subseteq {"http", "grpc"}
  /\ MaxDelay \in Nat /\ MaxDelay >= FiveMinutes
  /\ None \notin Int

(* "Clamp custom timeout to reasonable bounds (1s to 5min)". *)
Clamp(ms) == Smaller(Larger(ms, Second), FiveMinutes)

(* The time of the configuration, or None if it is a string. *)
DefaultFor(protocol) == IF protocol \in Configured THEN None ELSE Default

HttpTimeout(wish) ==
  IF wish.ms # None THEN Clamp(wish.ms) ELSE DefaultFor("http")

(* A mistake: a deadline that is near is taken as it is. *)
MutantGrpcTimeout(wish, deadline) ==
  IF wish.first # None THEN Clamp(wish.first)
  ELSE IF deadline # None THEN Larger(deadline, 1)
  ELSE DefaultFor("grpc")

(* deadline is the time left until the deadline of the call, if it has one *)
(* (it is negative once that has passed).                                  *)
GrpcTimeout(wish, deadline) ==
  IF wish.first # None THEN Clamp(wish.first)
  ELSE IF deadline # None THEN Larger(deadline, Second)
  ELSE DefaultFor("grpc")

(* When a timer of so many milliseconds fires: Node.js takes what does not *)
(* fit for 1.                                                              *)
Delay(ms) == IF ms > MaxDelay THEN 1 ELSE ms
=============================================================================
