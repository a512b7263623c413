---------------------------- MODULE ProductRows ----------------------------
(***************************************************************************)
(* The table of products behind OrderTypeORMRepository.save                *)
(* (src/infrastructure/persistence/orders/).  Its primary key is the id of *)
(* the product alone, and a row names the one order it belongs to.  The    *)
(* products of an order are written by cascade, so orders that contain the *)
(* same product write the same row.                                        *)
(*                                                                         *)
(* TypeORM's save takes two steps.  It loads the order and the products    *)
(* concerned and computes what has to be written; then it writes that in   *)
(* one transaction.  Other saves may come in between, as they may between  *)
(* findById and save.                                                      *)
(***************************************************************************)
EXTENDS Naturals, FiniteSets, Sequences

CONSTANTS
  Orders,      \* identifiers of the orders that are ever created
  Products,    \* identifiers of products
  Calls,       \* bound: identifiers of the calls that are ever made
  Items,       \* Items[o]: the products order o is created with
  Priced,      \* Priced[o]: those of them that are given a price above 0
  MaxOpen,     \* most calls under way at a time
  Nobody,      \* the order_id of a row that belongs to no order
  Nothing      \* no row, no object

ASSUME ItemsAssumption ==
  /\ Items \in [Orders -> SUBSET Products]
  /\ \A o \in Orders : Items[o] # {} /\ Priced[o] \subseteq Items[o]

ASSUME RowsBounds == IsFiniteSet(Calls) /\ MaxOpen \in Nat \ {0}

(* A product in an object: whose details and whose price it shows. *)
Lines == [details : Orders, price : Orders \cup {Nothing}]

ASSUME RowsNulls ==
  Nobody \notin Orders /\ Nothing \notin Orders \cup {Nobody} \cup Lines

VARIABLES
  created,     \* the orders that have a row, in the order of their creation
  owner,       \* owner[p]: order_id of the row of p, or Nothing if it has none
  details,     \* details[p]: the order whose quantity, name and description
               \*   the row of p shows
  price,       \* price[p]: the order whose price it shows
  pc,          \* pc[c]: where call c stands
  order,       \* order[c]: the order call c is about
  held,        \* held[c]: the products of the object c has in its hands
  plan,        \* plan[c]: what the save of c is going to write
  overlapped   \* two calls have been under way at the same time (history)

rows == <<owner, details, price>>
rowVars == <<created, rows, pc, order, held, plan, overlapped>>

(* "finding": findById has been issued; "saving": save has been issued;    *)
(* "writing": what to write has been computed.                             *)
Stages == {"idle", "finding", "saving", "writing", "done"}

(* The rows a save inserts, links to its order, updates and unlinks. *)
Plans == [insert : SUBSET Products, link : SUBSET Products,
          rewrite : SUBSET Products, reprice : SUBSET Products,
          unlink : SUBSET Products]

RowsTypeOK ==
  /\ created \in Seq(Orders)
  /\ owner \in [Products -> Orders \cup {Nobody, Nothing}]
  /\ details \in [Products -> Orders \cup {Nothing}]
  /\ price \in [Products -> Orders \cup {Nothing}]
  /\ pc \in [Calls -> Stages]
  /\ order \in [Calls -> Orders \cup {Nothing}]
  /\ held \in [Calls -> [Products -> Lines \cup {Nothing}]]
  /\ plan \in [Calls -> Plans \cup {Nothing}]
  /\ overlapped \in BOOLEAN

Open == {c \in Calls : pc[c] \in {"finding", "saving", "writing"}}

Exists(o) == \E i \in DOMAIN created : created[i] = o

(* What findById finds: the rows that name o. *)
Listed(o) == {p \in Products : owner[p] = o}

Holds(c) == {p \in Products : held[c][p] # Nothing}

-----------------------------------------------------------------------------

RowsInit ==
  /\ created = <<>>
  /\ owner = [p \in Products |-> Nothing]
  /\ details = [p \in Products |-> Nothing]
  /\ price = [p \in Products |-> Nothing]
  /\ pc = [c \in Calls |-> "idle"]
  /\ order = [c \in Calls |-> Nothing]
  /\ held = [c \in Calls |-> [p \in Products |-> Nothing]]
  /\ plan = [c \in Calls |-> Nothing]
  /\ overlapped = FALSE

Goto(c, stage) == pc' = [pc EXCEPT ![c] = stage]

Enter(c, o, stage) ==
  /\ pc[c] = "idle"
  /\ Cardinality(Open) < MaxOpen
  /\ order' = [order EXCEPT ![c] = o]
  /\ Goto(c, stage)
  /\ overlapped' = (overlapped \/ Open # {})

(* A mistake: a price that is missing is parsed all the same. *)
MutantParses(o) ==
  [p \in Products |->
     IF p \in Items[o]
     THEN [details |-> o, price |-> IF p \in Priced[o] THEN o ELSE "NaN"]
     ELSE Nothing]

(* The object createOrder saves.  The mapper stores a price of 0 as none. *)
NewProducts(o) ==
  [p \in Products |->
     IF p \in Items[o]
     THEN [details |-> o, price |-> IF p \in Priced[o] THEN o ELSE Nothing]
     ELSE Nothing]

(* An order is created, under an identifier nobody has used. *)
Create(c, o) ==
  /\ \A d \in Calls : order[d] # o
  /\ Enter(c, o, "saving")
  /\ held' = [held EXCEPT ![c] = NewProducts(o)]
  /\ UNCHANGED <<created, rows, plan>>

(* A call that changes the status of an order. *)
Change(c, o) ==
  /\ Enter(c, o, "finding")
  /\ UNCHANGED <<created, rows, held, plan>>

(* Mistakes: the order is read without its relation to the products; the   *)
(* products are read without regard to their order.                        *)
MutantReadsNoProducts(c) ==
  /\ pc[c] = "finding"
  /\ Exists(order[c])
  /\ Goto(c, "saving")
  /\ UNCHANGED <<created, rows, order, held, plan, overlapped>>

MutantReadsAllProducts(c) ==
  /\ pc[c] = "finding"
  /\ Exists(order[c])
  /\ held' = [held EXCEPT ![c] =
       [p \in Products |-> IF owner[p] # Nothing
                           THEN [details |-> details[p], price |-> price[p]]
                           ELSE Nothing]]
  /\ Goto(c, "saving")
  /\ UNCHANGED <<created, rows, order, plan, overlapped>>

(* findById answers, and the aggregate accepts the call. *)
Read(c) ==
  /\ pc[c] = "finding"
  /\ Exists(order[c])
  /\ held' = [held EXCEPT ![c] =
       [p \in Products |-> IF p \in Listed(order[c])
                           THEN [details |-> details[p], price |-> price[p]]
                           ELSE Nothing]]
  /\ Goto(c, "saving")
  /\ UNCHANGED <<created, rows, order, plan, overlapped>>

(* The order is missing, the aggregate refuses, or the query fails; or a   *)
(* save fails, which leaves nothing of its transaction behind.             *)
GiveUp(c) ==
  /\ c \in Open
  /\ Goto(c, "done")
  /\ UNCHANGED <<created, rows, order, held, plan, overlapped>>

(* A mistake: a row that is there is linked but not updated. *)
MutantLoad(c) ==
  /\ pc[c] = "saving"
  /\ plan' = [plan EXCEPT ![c] =
       [insert  |-> {p \in Holds(c) : owner[p] = Nothing},
        link    |-> {p \in Holds(c) : owner[p] \notin {order[c], Nothing}},
        rewrite |-> {},
        reprice |-> {},
        unlink  |-> Listed(order[c]) \ Holds(c)]]
  /\ Goto(c, "writing")
  /\ UNCHANGED <<created, rows, order, held, overlapped>>

(* save loads the rows of the order and of the object's products: what is  *)
(* not there is to be inserted, what belongs to another order to be linked *)
(* to this one, what differs to be updated (a price that is undefined is   *)
(* not compared), and what the order lists but the object does not hold    *)
(* loses its order.                                                        *)
Load(c) ==
  /\ pc[c] = "saving"
  /\ plan' = [plan EXCEPT ![c] =
       [insert  |-> {p \in Holds(c) : owner[p] = Nothing},
        link    |-> {p \in Holds(c) : owner[p] \notin {order[c], Nothing}},
        rewrite |-> {p \in Holds(c) : owner[p] # Nothing
                                   /\ details[p] # held[c][p].details},
        reprice |-> {p \in Holds(c) : owner[p] # Nothing
                                   /\ held[c][p].price \notin {price[p], Nothing}},
        unlink  |-> Listed(order[c]) \ Holds(c)]]
  /\ Goto(c, "writing")
  /\ UNCHANGED <<created, rows, order, held, overlapped>>

(* No row has the key of one that is to be inserted. *)
NoDuplicates(c) == \A p \in plan[c].insert : owner[p] = Nothing

(* A mistake: a row that is there by now is skipped, not refused. *)
MutantWrite(c) ==
  /\ pc[c] = "writing"
  /\ LET w == plan[c]
         fresh == {p \in w.insert : owner[p] = Nothing}
     IN /\ owner' = [p \in Products |->
                       IF p \in fresh \cup w.link THEN order[c]
                       ELSE IF p \in w.unlink THEN Nobody
                       ELSE owner[p]]
        /\ details' = [p \in Products |->
                         IF p \in fresh \cup w.rewrite
                         THEN held[c][p].details ELSE details[p]]
        /\ price' = [p \in Products |->
                       IF p \in fresh \cup w.reprice
                       THEN held[c][p].price ELSE price[p]]
  /\ created' = IF Exists(order[c]) THEN created ELSE Append(created, order[c])
  /\ Goto(c, "done")
  /\ UNCHANGED <<order, held, plan, overlapped>>

(* The transaction, whose statements name rows by their keys only.  If a   *)
(* row to be inserted is there by now, it is rolled back (GiveUp).         *)
Write(c) ==
  /\ pc[c] = "writing"
  /\ NoDuplicates(c)
  /\ LET w == plan[c]
     IN /\ owner' = [p \in Products |->
                       IF p \in w.insert \cup w.link THEN order[c]
                       ELSE IF p \in w.unlink THEN Nobody
                       ELSE owner[p]]
        /\ details' = [p \in Products |->
                         IF p \in w.insert \cup w.rewrite
                         THEN held[c][p].details ELSE details[p]]
        /\ price' = [p \in Products |->
                       IF p \in w.insert \cup w.reprice
                       THEN held[c][p].price ELSE price[p]]
  /\ created' = IF Exists(order[c]) THEN created ELSE Append(created, order[c])
  /\ Goto(c, "done")
  /\ UNCHANGED <<order, held, plan, overlapped>>

RowsNext ==
  \E c \in Calls :
    \/ \E o \in Orders : Create(c, o) \/ Change(c, o)
    \/ Read(c)
    \/ Load(c)
    \/ Write(c)
    \/ GiveUp(c)

RowsSpec == RowsInit /\ [][RowsNext]_rowVars

-----------------------------------------------------------------------------

(* No other order contains a product of o. *)
Unshared(o) == \A n \in Orders \ {o} : Items[n] \cap Items[o] = {}

(* An order whose products nobody else orders keeps them, with their       *)
(* details and prices, whatever is saved late, twice or not at all.        *)
UnsharedIsKept ==
  \A o \in Orders : Exists(o) /\ Unshared(o) =>
    /\ Listed(o) = Items[o]
    /\ \A p \in Items[o] :
         /\ details[p] = o
         /\ price[p] = IF p \in Priced[o] THEN o ELSE Nothing

(* An order never shows a product it was not created with, although saves  *)
(* move rows from order to order.                                          *)
OnlyOrderedProducts == \A o \in Orders : Listed(o) \subseteq Items[o]

(* An order comes into being with all its products or not at all, also     *)
(* when another creation inserts one of them at the same time.             *)
CreationIsWhole ==
  [][\A o \in Orders : ~ Exists(o) /\ Exists(o)' => Listed(o)' = Items[o]]_rowVars

(* Who has the rows when calls do not overlap: an order keeps exactly the  *)
(* products that no later order contains, and a row shows the details of   *)
(* the order it belongs to.                                                *)
LastBuyerHolds ==
  ~ overlapped =>
    \A i \in DOMAIN created :
      LET later == {created[j] : j \in {k \in DOMAIN created : k > i}}
      IN /\ Listed(created[i]) = Items[created[i]] \ UNION {Items[n] : n \in later}
         /\ \A p \in Listed(created[i]) : details[p] = created[i]

(* "An order must have at least one product" (docs/bounded-contexts.md). *)
AtLeastOneProduct == \A o \in Orders : Exists(o) => Listed(o) # {}
=============================================================================
