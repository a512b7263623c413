----------------------------- MODULE OrderInput -----------------------------
(***************************************************************************)
(* What becomes of the body of a request to create an order: its           *)
(* conversion by gRPC, the validation of the DTOs (src/application/orders/ *)
(* dtos), the value objects of the domain, the rows of the database, and   *)
(* back.                                                                   *)
(*                                                                         *)
(* Of a text only its length matters, as it is and trimmed; of an          *)
(* identifier, whether it is a UUID and of which version, and which other  *)
(* products of the same order have it.                                     *)
(***************************************************************************)
EXTENDS Integers, Sequences, Functions, ErrorFilters

CONSTANTS
  Missing,     \* a field that is not there
  NaN,         \* a value that is not a number
  MaxInteger,  \* the largest number in a column of type integer
  V4Ids,       \* identifiers that are UUIDs of version 4,
  OtherUuids,  \* UUIDs of other versions,
  NoUuids      \* and no UUIDs at all

Texts == {t \in [raw : Nat, trimmed : Nat] : t.trimmed <= t.raw}

ASSUME InputAssumption ==
  /\ {Missing, NaN} \cap Int = {} /\ Missing # NaN
  /\ Missing \notin Texts
  /\ MaxInteger \in Nat
  /\ Missing \notin V4Ids \cup OtherUuids \cup NoUuids
  /\ V4Ids \cap (OtherUuids \cup NoUuids) = {} /\ OtherUuids \cap NoUuids = {}

Ids == V4Ids \cup OtherUuids \cup NoUuids

(* A product of an order, as a client sends it, and an order. *)
Lines == [id : Ids, quantity : Int \cup {NaN},
          name : Texts \cup {Missing}, description : Texts \cup {Missing},
          price : Int \cup {NaN, Missing}]

Bodies == [customer : Ids \cup {Missing}, dated : BOOLEAN, products : Seq(Lines)]

(* The message CreateOrderRequest declares the price as a string, which is *)
(* not converted.                                                          *)
Received(protocol, body) ==
  IF protocol = "http" THEN body
  ELSE [body EXCEPT !.products =
          [i \in DOMAIN body.products |->
             [body.products[i] EXCEPT !.price = IF @ = Missing THEN @ ELSE NaN]]]

-----------------------------------------------------------------------------
(* Validation.                                                             *)

(* ProductDTO. *)
ValidLine(line) ==
  /\ line.id \in V4Ids
  /\ line.quantity \in Nat \ {0}
  /\ line.price \in Nat

(* CreateOrderCommand, its products aside. *)
ValidTop(body) ==
  /\ body.customer # Missing
  /\ body.dated
  /\ body.products # <<>>

ValidProducts(body) == \A i \in DOMAIN body.products : ValidLine(body.products[i])

Invalid(body) == ~ ValidTop(body) \/ ~ ValidProducts(body)

(* The error of products carries its constraints in children only, and the *)
(* constructor of ValidationFailedError throws when it looks for them.     *)
ValidationError(body) ==
  IF ~ ValidProducts(body) THEN PlainError ELSE ValidationFailedError

-----------------------------------------------------------------------------
(* Value objects, whose constructors throw what is not accepted here.      *)

IsUuid(id) == id \in V4Ids \cup OtherUuids

(* A mistake: the length is checked before the name is trimmed. *)
MutantProductName(text) ==
  text # Missing /\ text.trimmed > 0 /\ text.raw >= 2 /\ text.raw <= 100

ProductName(text) == text # Missing /\ text.trimmed >= 2 /\ text.raw <= 100

ProductDescription(text) == text # Missing /\ text.raw <= 500

ProductQuantity(n) == n \in Nat \ {0}

Acceptable(line) ==
  /\ IsUuid(line.id)
  /\ ProductQuantity(line.quantity)
  /\ ProductName(line.name)
  /\ ProductDescription(line.description)

Constructible(body) ==
  /\ IsUuid(body.customer)
  /\ body.products # <<>>
  /\ \A i \in DOMAIN body.products : Acceptable(body.products[i])

Trim(text) == [raw |-> text.trimmed, trimmed |-> text.trimmed]

(* A product of the domain: texts are kept trimmed. *)
Product(line) ==
  [line EXCEPT !.name = Trim(@), !.description = Trim(@)]

-----------------------------------------------------------------------------
(* Rows.                                                                   *)

(* The mapper stores a price of 0 as none. *)
RowOf(product) == [product EXCEPT !.price = IF @ = 0 THEN Missing ELSE @]

(* What is saved, and stays with the handler that saves it: all the        *)
(* products of the body.                                                   *)
SavedOf(body) == {RowOf(Product(line)) : line \in Range(body.products)}

(* A product that no earlier one of the body has the identifier of. *)
First(products, i) == \A j \in 1 .. i - 1 : products[j].id # products[i].id

(* A mistake: of products with the same identifier, all but the last are   *)
(* dropped.                                                                *)
MutantRowsOf(body) ==
  {RowOf(Product(body.products[i])) :
     i \in {j \in DOMAIN body.products :
              \A l \in DOMAIN body.products :
                l > j => body.products[l].id # body.products[j].id}}

(* What is stored.  The identifier is the primary key, and TypeORM merges  *)
(* what has the same key in one save into the row of the first.            *)
RowsOf(body) ==
  {RowOf(Product(body.products[i])) :
     i \in {j \in DOMAIN body.products : First(body.products, j)}}

Storable(rows) == \A row \in rows : row.quantity <= MaxInteger

(* The value objects accept what was stored. *)
Readable(rows) == \A row \in rows : Acceptable(row)

(* The products of the order that is read, as the DTO shows them; the      *)
(* database returns them in any order.                                     *)
Shown(rows) == {Product(row) : row \in rows}
=============================================================================
