----------------------------- MODULE MCRequests -----------------------------
(***************************************************************************)
(* Requests for TLC: a body that is accepted, bodies that differ from it   *)
(* in one field, and the times a client may name.                          *)
(***************************************************************************)
EXTENDS Requests

Text(raw, trimmed) == [raw |-> raw, trimmed |-> trimmed]

GoodLine == [id |-> "p1", quantity |-> 2, name |-> Text(8, 6),
             description |-> Text(0, 0), price |-> 5]

Another == [GoodLine EXCEPT !.id = "p2"]

GoodBody == [customer |-> "p1", dated |-> TRUE, products |-> <<GoodLine>>]

BadLines ==
  {[Another EXCEPT !.id = "other version"],
   [Another EXCEPT !.quantity = 0],
   [Another EXCEPT !.price = NaN],
   [Another EXCEPT !.name = Missing],
   [Another EXCEPT !.name = Text(3, 1)],
   [Another EXCEPT !.name = Text(101, 100)],
   [Another EXCEPT !.description = Missing],
   [Another EXCEPT !.quantity = MaxInteger + 1]}

(* Accepted, at a boundary. *)
EdgeBody ==
  [GoodBody EXCEPT !.products =
     <<[GoodLine EXCEPT !.price = 0, !.quantity = MaxInteger,
                        !.name = Text(100, 2), !.description = Text(500, 500)],
       Another>>]

(* The same product twice, in different quantities. *)
TwiceBody ==
  [GoodBody EXCEPT !.products = <<GoodLine, [GoodLine EXCEPT !.quantity = 3]>>]

OddBodies ==
  {[GoodBody EXCEPT !.customer = Missing],
   [GoodBody EXCEPT !.customer = "other version"],
   [GoodBody EXCEPT !.customer = "no uuid"],
   [GoodBody EXCEPT !.dated = FALSE],
   [GoodBody EXCEPT !.products = <<>>],
   [GoodBody EXCEPT !.dated = FALSE, !.products = <<[GoodLine EXCEPT !.price = NaN]>>]}
  \cup {[GoodBody EXCEPT !.products = <<GoodLine, line>>] : line \in BadLines}

BaseCall == [protocol |-> "http", op |-> "create", body |-> GoodBody,
             target |-> None, id |-> "p1", wish |-> NoWish, deadline |-> None]

Creating ==
  {[BaseCall EXCEPT !.body = b] : b \in OddBodies \cup {EdgeBody, TwiceBody}}
  \cup {[BaseCall EXCEPT !.wish = w] :
          w \in {NoWish, [ms |-> 500, first |-> 5], [ms |-> 400000, first |-> 4]}}
  \cup {[BaseCall EXCEPT !.protocol = "grpc", !.body = b, !.deadline = 6000] :
          b \in {GoodBody, [GoodBody EXCEPT !.products = <<>>]}}

Reading ==
  {[BaseCall EXCEPT !.op = "list", !.body = None, !.protocol = p] :
     p \in {"http", "grpc"}}
  \cup {[BaseCall EXCEPT !.op = "get", !.body = None, !.id = i,
                         !.protocol = IF d = None THEN "http" ELSE "grpc",
                         !.deadline = d] :
          i \in {"p1", "other version", "no uuid"}, d \in {None, 6000}}
  \cup {[BaseCall EXCEPT !.op = "get", !.body = None, !.target = 1],
        [BaseCall EXCEPT !.op = "health", !.body = None]}

(* "5000" and "5s" in the metadata, and deadlines that have passed, are    *)
(* near, and are too far.                                                  *)
Hurried ==
  {[BaseCall EXCEPT !.op = "get", !.body = None, !.target = 1,
                    !.protocol = "grpc", !.deadline = d] :
     d \in {-50, 400, 6000, MaxDelay + 1}}
  \cup {[BaseCall EXCEPT !.op = "list", !.body = None,
                         !.protocol = p, !.wish = [ms |-> 5000, first |-> 5]] :
          p \in {"http", "grpc"}}
  \cup {[BaseCall EXCEPT !.op = "list", !.body = None, !.protocol = "grpc",
                         !.wish = [ms |-> None, first |-> 5], !.deadline = 6000]}

AllCalls == Creating \cup Reading \cup Hurried
=============================================================================
