-------------------------- MODULE ProductRowsProofs --------------------------
(***************************************************************************)
(* Proofs about ProductRows, for all orders and products, whatever the     *)
(* orders share and however many saves overlap.                            *)
(***************************************************************************)
EXTENDS ProductRows, TLAPS

-----------------------------------------------------------------------------
(* The inductive invariant.                                                *)

(* RowsTypeOK, but for the history variable. *)
Typed ==
  /\ created \in Seq(Orders)
  /\ owner \in [Products -> Orders \cup {Nobody, Nothing}]
  /\ details \in [Products -> Orders \cup {Nothing}]
  /\ price \in [Products -> Orders \cup {Nothing}]
  /\ pc \in [Calls -> Stages]
  /\ order \in [Calls -> Orders \cup {Nothing}]
  /\ held \in [Calls -> [Products -> Lines \cup {Nothing}]]
  /\ plan \in [Calls -> Plans \cup {Nothing}]

(* A call that holds the products of an order. *)
Saving(c) == pc[c] \in {"saving", "writing"}

(* A row always shows the details of some order. *)
RowsAreFull == \A p \in Products : owner[p] # Nothing => details[p] \in Orders

(* What a call holds belongs to its order.  What it plans to write concerns *)
(* what it holds, and what it does not plan to insert is there: rows move,  *)
(* but never vanish.                                                        *)
PlanFits(c) ==
  /\ plan[c] \in Plans
  /\ \A p \in plan[c].insert \cup plan[c].link \cup plan[c].rewrite
              \cup plan[c].reprice : held[c][p] # Nothing
  /\ plan[c].unlink \subseteq Items[order[c]]
  /\ \A p \in Products :
       /\ held[c][p] # Nothing /\ p \notin plan[c].insert => owner[p] # Nothing
       /\ p \in plan[c].unlink => owner[p] # Nothing

CallsFit ==
  \A c \in Calls :
    /\ pc[c] # "idle" => order[c] \in Orders
    /\ Saving(c) => Holds(c) \subseteq Items[order[c]]
    /\ pc[c] = "writing" => PlanFits(c)

(* An order that is not there has no rows, and whoever saves it creates it *)
(* as a whole.                                                             *)
NewOrders ==
  /\ \A o \in Orders : ~ Exists(o) => Listed(o) = {}
  /\ \A c \in Calls : Saving(c) /\ ~ Exists(order[c]) =>
       /\ Holds(c) = Items[order[c]]
       /\ pc[c] = "writing" =>
            /\ plan[c].insert \cup plan[c].link = Items[order[c]]
            /\ plan[c].unlink = {}

PriceOf(o, p) == IF p \in Priced[o] THEN o ELSE Nothing

(* A product that only one order contains: its row, if there is one, is as *)
(* it was created, and so is what the calls hold.                          *)
UnsharedRows ==
  \A o \in Orders : Unshared(o) =>
    /\ \A p \in Items[o] :
         /\ owner[p] # Nothing => /\ owner[p] = o /\ details[p] = o
                                  /\ price[p] = PriceOf(o, p)
         /\ Exists(o) => owner[p] # Nothing
    /\ \A c \in Calls : Saving(c) /\ order[c] = o =>
         /\ \A p \in Items[o] :
              held[c][p] = [details |-> o, price |-> PriceOf(o, p)]
         /\ pc[c] = "writing" => plan[c].unlink = {}

RowsInv ==
  /\ Typed
  /\ RowsAreFull
  /\ CallsFit
  /\ OnlyOrderedProducts
  /\ NewOrders
  /\ UnsharedRows

-----------------------------------------------------------------------------
(* Facts about the steps.                                                  *)

(* The transaction of save() creates the order it saves, if it is not      *)
(* there, and no other.                                                    *)
LEMMA WriteCreates ==
  ASSUME Typed, NEW c \in Calls, order[c] \in Orders, Write(c)
  PROVE  /\ created' \in Seq(Orders)
         /\ \A o : Exists(o)' <=> Exists(o) \/ o = order[c]
<1>1. CASE Exists(order[c])
  BY <1>1 DEF Write, Typed, Exists
<1>2. CASE ~ Exists(order[c])
  <2>1. created' = Append(created, order[c]) /\ created \in Seq(Orders)
    BY <1>2 DEF Write, Typed
  <2>2. /\ created' \in Seq(Orders)
        /\ DOMAIN created' = DOMAIN created \cup {Len(created) + 1}
        /\ \A i \in DOMAIN created : created'[i] = created[i]
        /\ created'[Len(created) + 1] = order[c]
    BY <2>1
  <2> QED
    BY <2>2 DEF Exists
<1> QED
  BY <1>1, <1>2

(* What an order was created with is something that rows can show. *)
LEMMA OwnLines ==
  \A o \in Orders : \A p : [details |-> o, price |-> PriceOf(o, p)] \in Lines
BY DEF Lines, PriceOf

(* The invariant holds in an empty database. *)
LEMMA InitRowsInv == RowsInit => RowsInv
<1> SUFFICES ASSUME RowsInit PROVE RowsInv
  OBVIOUS
<1>1. Typed
  BY DEF RowsInit, Typed, Stages
<1>2. \A o \in Orders : ~ Exists(o) /\ Listed(o) = {}
  BY RowsNulls DEF RowsInit, Exists, Listed
<1>3. RowsAreFull /\ CallsFit /\ OnlyOrderedProducts /\ NewOrders
  BY <1>2 DEF RowsInit, RowsAreFull, CallsFit, OnlyOrderedProducts, NewOrders, Saving
<1>4. UnsharedRows
  BY <1>2, ItemsAssumption DEF RowsInit, UnsharedRows, Saving
<1> QED
  BY <1>1, <1>3, <1>4 DEF RowsInv

(* A step that changes neither the rows nor created keeps what is said of  *)
(* them, and of every call it does not concern.                            *)
LEMMA CallSteps ==
  ASSUME RowsInv, UNCHANGED <<created, rows>>, Typed', NEW c \in Calls,
         \A d \in Calls \ {c} : /\ pc'[d] = pc[d] /\ order'[d] = order[d]
                                /\ held'[d] = held[d] /\ plan'[d] = plan[d],
         pc'[c] # "idle" => order'[c] \in Orders,
         Saving(c)' =>
           /\ Holds(c)' \subseteq Items[order'[c]]
           /\ ~ Exists(order'[c]) => Holds(c)' = Items[order'[c]]
           /\ Unshared(order'[c]) =>
                \A p \in Items[order'[c]] :
                  held'[c][p] = [details |-> order'[c], price |-> PriceOf(order'[c], p)],
         pc'[c] = "writing" =>
           /\ PlanFits(c)'
           /\ ~ Exists(order'[c]) =>
                /\ plan'[c].insert \cup plan'[c].link = Items[order'[c]]
                /\ plan'[c].unlink = {}
           /\ Unshared(order'[c]) => plan'[c].unlink = {}
  PROVE  RowsInv'
<1>1. /\ \A o : Exists(o)' <=> Exists(o)
      /\ \A o : Listed(o)' = Listed(o)
      /\ owner' = owner /\ details' = details /\ price' = price
  BY DEF Exists, Listed, rows
<1>2. RowsAreFull' /\ OnlyOrderedProducts'
  BY <1>1 DEF RowsInv, RowsAreFull, OnlyOrderedProducts
<1>3. ASSUME NEW d \in Calls, d # c
      PROVE  /\ Saving(d)' <=> Saving(d)
             /\ Holds(d)' = Holds(d)
             /\ PlanFits(d)' <=> PlanFits(d)
  BY <1>1, <1>3 DEF Saving, Holds, PlanFits
<1>4. CallsFit'
  BY <1>3 DEF CallsFit, RowsInv
<1>5. NewOrders'
  BY <1>1, <1>3 DEF NewOrders, RowsInv
<1>6. UnsharedRows'
  <2> SUFFICES
        ASSUME NEW o \in Orders, Unshared(o)
        PROVE  /\ \A p \in Items[o] :
                    /\ owner[p] # Nothing => /\ owner[p] = o /\ details[p] = o
                                             /\ price[p] = PriceOf(o, p)
                    /\ Exists(o) => owner[p] # Nothing
               /\ \A d \in Calls : Saving(d)' /\ order'[d] = o =>
                    /\ \A p \in Items[o] :
                         held'[d][p] = [details |-> o, price |-> PriceOf(o, p)]
                    /\ pc'[d] = "writing" => plan'[d].unlink = {}
    BY <1>1 DEF UnsharedRows, Unshared, PriceOf
  <2>1. ASSUME NEW d \in Calls, d # c, Saving(d)', order'[d] = o
        PROVE  /\ \A p \in Items[o] :
                    held'[d][p] = [details |-> o, price |-> PriceOf(o, p)]
               /\ pc'[d] = "writing" => plan'[d].unlink = {}
    BY <1>3, <2>1 DEF RowsInv, UnsharedRows
  <2> QED
    BY <2>1 DEF RowsInv, UnsharedRows
<1> QED
  BY <1>2, <1>4, <1>5, <1>6 DEF RowsInv

-----------------------------------------------------------------------------
(* The steps.                                                              *)

(* A call that builds a new order preserves the invariant: it holds        *)
(* exactly the products of its order.                                      *)
LEMMA CreateKeepsInv ==
  ASSUME RowsInv, NEW c \in Calls, NEW o \in Orders, Create(c, o)
  PROVE  RowsInv'
<1>1. NewProducts(o) \in [Products -> Lines \cup {Nothing}]
  BY DEF NewProducts, Lines
<1>2. Typed'
  BY <1>1 DEF RowsInv, Typed, Create, Enter, Goto, Stages, rows
<1>3. /\ pc'[c] = "saving" /\ order'[c] = o /\ held'[c] = NewProducts(o)
      /\ \A d \in Calls \ {c} : /\ pc'[d] = pc[d] /\ order'[d] = order[d]
                                /\ held'[d] = held[d] /\ plan'[d] = plan[d]
      /\ UNCHANGED <<created, rows>>
  BY DEF RowsInv, Typed, Create, Enter, Goto
<1>4. \A p \in Items[o] :
        /\ NewProducts(o)[p] = [details |-> o, price |-> PriceOf(o, p)]
        /\ NewProducts(o)[p] \in Lines
  BY ItemsAssumption DEF NewProducts, PriceOf, Lines
<1>5. Holds(c)' = Items[o]
  <2>1. \A p \in Products : p \in Items[o] <=> NewProducts(o)[p] # Nothing
    BY <1>4, RowsNulls DEF NewProducts
  <2> QED
    BY <1>3, <2>1, ItemsAssumption DEF Holds
<1> QED
  BY <1>2, <1>3, <1>4, <1>5, CallSteps

(* So does a call that begins to change an order, and holds nothing yet, *)
LEMMA ChangeKeepsInv ==
  ASSUME RowsInv, NEW c \in Calls, NEW o \in Orders, Change(c, o)
  PROVE  RowsInv'
<1>1. Typed'
  BY DEF RowsInv, Typed, Change, Enter, Goto, Stages, rows
<1>2. /\ pc'[c] = "finding" /\ order'[c] = o
      /\ \A d \in Calls \ {c} : /\ pc'[d] = pc[d] /\ order'[d] = order[d]
                                /\ held'[d] = held[d] /\ plan'[d] = plan[d]
      /\ UNCHANGED <<created, rows>>
  BY DEF RowsInv, Typed, Change, Enter, Goto
<1>3. ~ Saving(c)'
  BY <1>2 DEF Saving
<1> QED
  BY <1>1, <1>2, <1>3, CallSteps

(* and one that gives up, and holds nothing any more. *)
LEMMA GiveUpKeepsInv ==
  ASSUME RowsInv, NEW c \in Calls, GiveUp(c)
  PROVE  RowsInv'
<1>1. Typed'
  BY DEF RowsInv, Typed, GiveUp, Goto, Stages, rows
<1>2. /\ pc'[c] = "done" /\ order' = order /\ order[c] \in Orders
      /\ \A d \in Calls \ {c} : /\ pc'[d] = pc[d] /\ order'[d] = order[d]
                                /\ held'[d] = held[d] /\ plan'[d] = plan[d]
      /\ UNCHANGED <<created, rows>>
  BY DEF RowsInv, Typed, CallsFit, GiveUp, Goto, Open
<1>3. ~ Saving(c)'
  BY <1>2 DEF Saving
<1> QED
  BY <1>1, <1>2, <1>3, CallSteps

(* A call that reads its order holds what the rows list, and they only     *)
(* list what the order contains.                                           *)
LEMMA ReadKeepsInv ==
  ASSUME RowsInv, NEW c \in Calls, Read(c)
  PROVE  RowsInv'
<1> DEFINE o == order[c]
<1>1. /\ pc[c] = "finding" /\ o \in Orders /\ Exists(o)
      /\ pc'[c] = "saving" /\ order'[c] = o
      /\ held'[c] = [p \in Products |->
           IF p \in Listed(o) THEN [details |-> details[p], price |-> price[p]]
                              ELSE Nothing]
      /\ \A d \in Calls \ {c} : /\ pc'[d] = pc[d] /\ order'[d] = order[d]
                                /\ held'[d] = held[d] /\ plan'[d] = plan[d]
      /\ UNCHANGED <<created, rows>>
  BY DEF RowsInv, Typed, CallsFit, Read, Goto
<1>2. \A p \in Listed(o) : [details |-> details[p], price |-> price[p]] \in Lines
  <2>1. ASSUME NEW p \in Listed(o) PROVE details[p] \in Orders
                                         /\ price[p] \in Orders \cup {Nothing}
    BY <1>1, <2>1, RowsNulls DEF RowsInv, Typed, RowsAreFull, Listed
  <2> QED
    BY <2>1 DEF Lines
<1>3. Typed'
  <2>1. held'[c] \in [Products -> Lines \cup {Nothing}]
    BY <1>1, <1>2
  <2>2. held' \in [Calls -> [Products -> Lines \cup {Nothing}]]
    BY <2>1 DEF RowsInv, Typed, Read
  <2> QED
    BY <2>2 DEF RowsInv, Typed, Read, Goto, Stages, rows
<1>4. Holds(c)' = Listed(o)
  BY <1>1, <1>2, RowsNulls DEF Holds, Listed
<1>5. Holds(c)' \subseteq Items[o]
  BY <1>1, <1>4 DEF RowsInv, OnlyOrderedProducts
<1>6. ASSUME Unshared(o), NEW p \in Items[o]
      PROVE  held'[c][p] = [details |-> o, price |-> PriceOf(o, p)]
  <2>1. p \in Products /\ owner[p] = o /\ details[p] = o /\ price[p] = PriceOf(o, p)
    BY <1>1, <1>6, ItemsAssumption DEF RowsInv, UnsharedRows
  <2> QED
    BY <1>1, <2>1 DEF Listed
<1> HIDE DEF o
<1>7. Exists(order'[c])
  BY <1>1
<1>8. ~ (pc'[c] = "writing")
  BY <1>1
<1> QED
  BY <1>1, <1>3, <1>5, <1>6, <1>7, <1>8, CallSteps

(* save() plans from the rows it finds: what it does not plan to insert is *)
(* there, and stays there until it writes, since no row is ever removed.   *)
LEMMA LoadKeepsInv ==
  ASSUME RowsInv, NEW c \in Calls, Load(c)
  PROVE  RowsInv'
<1> DEFINE o == order[c]
           w == plan'[c]
<1>1. /\ pc[c] = "saving" /\ Saving(c) /\ o \in Orders /\ order'[c] = o
      /\ pc'[c] = "writing" /\ held' = held
      /\ \A d \in Calls \ {c} : /\ pc'[d] = pc[d] /\ order'[d] = order[d]
                                /\ held'[d] = held[d] /\ plan'[d] = plan[d]
      /\ UNCHANGED <<created, rows>>
  BY DEF RowsInv, Typed, CallsFit, Load, Goto, Saving
<1>2. /\ w.insert = {p \in Holds(c) : owner[p] = Nothing}
      /\ w.link = {p \in Holds(c) : owner[p] \notin {o, Nothing}}
      /\ w.rewrite \subseteq {p \in Holds(c) : owner[p] # Nothing}
      /\ w.reprice \subseteq {p \in Holds(c) : owner[p] # Nothing}
      /\ w.unlink = Listed(o) \ Holds(c)
      /\ w \in Plans
  BY DEF RowsInv, Typed, Load, Plans, Holds, Listed
<1>3. Typed'
  <2>1. plan' = [plan EXCEPT ![c] = w]
    BY DEF RowsInv, Typed, Load
  <2> HIDE DEF w
  <2>2. plan' \in [Calls -> Plans \cup {Nothing}]
    BY <1>2, <2>1 DEF RowsInv, Typed
  <2> QED
    BY <2>2 DEF RowsInv, Typed, Load, Goto, Stages, rows
<1>4. /\ Holds(c) \subseteq Items[o] /\ Holds(c)' = Holds(c)
      /\ Listed(o) \subseteq Items[o]
  BY <1>1 DEF RowsInv, CallsFit, OnlyOrderedProducts, Holds
<1>5. PlanFits(c)'
  <2>1. owner' = owner
    BY <1>1 DEF rows
  <2>2. /\ \A p \in w.insert \cup w.link \cup w.rewrite \cup w.reprice :
             held[c][p] # Nothing
        /\ w.unlink \subseteq Items[o]
        /\ \A p \in Products :
             /\ held[c][p] # Nothing /\ p \notin w.insert => owner[p] # Nothing
             /\ p \in w.unlink => owner[p] # Nothing
    BY <1>1, <1>2, <1>4, RowsNulls DEF Holds, Listed
  <2> QED
    BY <1>1, <1>2, <2>1, <2>2 DEF PlanFits
<1>6. ~ Exists(o) => /\ Holds(c) = Items[o]
                     /\ w.insert \cup w.link = Items[o]
                     /\ w.unlink = {}
  <2> SUFFICES ASSUME ~ Exists(o)
               PROVE  /\ Holds(c) = Items[o]
                      /\ w.insert \cup w.link = Items[o]
                      /\ w.unlink = {}
    OBVIOUS
  <2>1. Holds(c) = Items[o] /\ Listed(o) = {}
    BY <1>1 DEF RowsInv, NewOrders
  <2>2. \A p \in Holds(c) : owner[p] # o
    BY <2>1 DEF Listed, Holds
  <2> QED
    BY <1>2, <2>1, <2>2
<1>7. Unshared(o) =>
        /\ \A p \in Items[o] :
             held[c][p] = [details |-> o, price |-> PriceOf(o, p)]
        /\ w.unlink = {}
  <2> SUFFICES ASSUME Unshared(o)
               PROVE  /\ \A p \in Items[o] :
                           held[c][p] = [details |-> o, price |-> PriceOf(o, p)]
                      /\ w.unlink = {}
    OBVIOUS
  <2>1. \A p \in Items[o] :
          held[c][p] = [details |-> o, price |-> PriceOf(o, p)]
    BY <1>1 DEF RowsInv, UnsharedRows
  <2>2. \A p \in Items[o] : held[c][p] \in Lines /\ p \in Products
    BY <1>1, <2>1, OwnLines, ItemsAssumption
  <2>3. Items[o] \subseteq Holds(c)
    BY <2>2, RowsNulls DEF Holds
  <2> QED
    BY <1>2, <1>4, <2>1, <2>3
<1>8. Exists(o)' <=> Exists(o)
  BY <1>1 DEF Exists
<1> HIDE DEF o, w
<1> QED
  BY <1>1, <1>3, <1>4, <1>5, <1>6, <1>7, <1>8, CallSteps DEF o, w

(* What a write does to the rows. *)
LEMMA Written ==
  ASSUME RowsInv, NEW c \in Calls, Write(c)
  PROVE  /\ pc[c] = "writing" /\ Saving(c) /\ order[c] \in Orders /\ PlanFits(c)
         /\ \A p \in Products :
              /\ owner'[p] = IF p \in plan[c].insert \cup plan[c].link THEN order[c]
                             ELSE IF p \in plan[c].unlink THEN Nobody ELSE owner[p]
              /\ details'[p] = IF p \in plan[c].insert \cup plan[c].rewrite
                               THEN held[c][p].details ELSE details[p]
              /\ price'[p] = IF p \in plan[c].insert \cup plan[c].reprice
                             THEN held[c][p].price ELSE price[p]
              /\ owner[p] # Nothing => owner'[p] # Nothing
         /\ \A d \in Calls : ~ (d = c) => (Saving(d)' <=> Saving(d)) /\ pc'[d] = pc[d]
         /\ pc'[c] = "done" /\ ~ Saving(c)'
         /\ order' = order /\ held' = held /\ plan' = plan
<1>1. pc[c] = "writing" /\ Saving(c) /\ order[c] \in Orders /\ PlanFits(c)
  BY DEF RowsInv, CallsFit, Write, Saving
<1>2. pc' = [pc EXCEPT ![c] = "done"] /\ order' = order /\ held' = held /\ plan' = plan
  BY DEF Write, Goto
<1>3. /\ pc'[c] = "done" /\ ~ Saving(c)'
      /\ \A d \in Calls : ~ (d = c) => (Saving(d)' <=> Saving(d)) /\ pc'[d] = pc[d]
  BY <1>2 DEF Saving, RowsInv, Typed
<1> QED
  BY <1>1, <1>2, <1>3, RowsNulls DEF Write

(* The transaction leaves every row full. *)
LEMMA WriteKeepsTypes ==
  ASSUME RowsInv, NEW c \in Calls, Write(c)
  PROVE  Typed' /\ RowsAreFull'
<1>1. \A p \in Products : held[c][p] # Nothing =>
        held[c][p].details \in Orders /\ held[c][p].price \in Orders \cup {Nothing}
  BY DEF RowsInv, Typed, Lines
<1>2. ASSUME NEW p \in Products
      PROVE  /\ owner'[p] \in Orders \cup {Nobody, Nothing}
             /\ details'[p] \in Orders \cup {Nothing}
             /\ price'[p] \in Orders \cup {Nothing}
             /\ owner'[p] # Nothing => details'[p] \in Orders
  <2>1. /\ owner[p] \in Orders \cup {Nobody, Nothing}
        /\ details[p] \in Orders \cup {Nothing}
        /\ price[p] \in Orders \cup {Nothing}
        /\ owner[p] # Nothing => details[p] \in Orders
    BY DEF RowsInv, Typed, RowsAreFull
  <2>2. /\ p \in plan[c].insert \cup plan[c].link \cup plan[c].rewrite
                 \cup plan[c].reprice => held[c][p] # Nothing
        /\ p \in plan[c].link \ plan[c].insert => owner[p] # Nothing
        /\ p \in plan[c].unlink => owner[p] # Nothing
    BY Written DEF PlanFits
  <2> QED
    BY <1>1, <2>1, <2>2, Written
<1>3. created' \in Seq(Orders)
  BY WriteCreates, Written DEF RowsInv
<1>4. pc' \in [Calls -> Stages]
  BY DEF RowsInv, Typed, Write, Goto, Stages
<1>5. /\ owner' \in [Products -> Orders \cup {Nobody, Nothing}]
      /\ details' \in [Products -> Orders \cup {Nothing}]
      /\ price' \in [Products -> Orders \cup {Nothing}]
  <2>1. /\ owner' = [p \in Products |-> owner'[p]]
        /\ details' = [p \in Products |-> details'[p]]
        /\ price' = [p \in Products |-> price'[p]]
    BY DEF Write
  <2> QED
    BY <1>2, <2>1
<1>6. Typed'
  BY <1>3, <1>4, <1>5, Written DEF RowsInv, Typed
<1> QED
  BY <1>2, <1>6 DEF RowsAreFull

(* The transaction preserves the invariant: it only touches products of    *)
(* its order, however old its plan is.                                     *)
LEMMA WriteKeepsInv ==
  ASSUME RowsInv, NEW c \in Calls, Write(c)
  PROVE  RowsInv'
<1> DEFINE o == order[c]
           w == plan[c]
           touched == w.insert \cup w.link \cup w.rewrite \cup w.reprice \cup w.unlink
<1>1. touched \subseteq Items[o] /\ touched \subseteq Products
  BY Written, ItemsAssumption DEF RowsInv, CallsFit, PlanFits, Holds, Plans
<1>2. \A q : Exists(q)' <=> Exists(q) \/ q = o
  BY WriteCreates, Written DEF RowsInv
<1>3. Typed' /\ RowsAreFull'
  BY WriteKeepsTypes
<1>4. CallsFit'
  <2>1. ASSUME NEW d \in Calls, d # c, pc[d] = "writing", PlanFits(d)
        PROVE  PlanFits(d)'
    BY <2>1, Written DEF PlanFits
  <2>2. \A d \in Calls : Holds(d)' = Holds(d)
    BY Written DEF Holds
  <2> QED
    BY <2>1, <2>2, Written DEF RowsInv, CallsFit
<1>5. \A q \in Orders : q # o => Listed(q)' \subseteq Listed(q)
  BY Written, RowsNulls DEF Listed
<1>6. OnlyOrderedProducts'
  <2>1. Listed(o)' \subseteq Listed(o) \cup touched
    BY Written, RowsNulls DEF Listed
  <2> QED
    BY <1>1, <1>5, <2>1, Written DEF RowsInv, OnlyOrderedProducts
<1>7. NewOrders'
  <2>1. \A d \in Calls : Holds(d)' = Holds(d)
    BY Written DEF Holds
  <2> QED
    BY <1>2, <1>5, <2>1, Written DEF RowsInv, NewOrders
<1>8. UnsharedRows'
  <2> SUFFICES
        ASSUME NEW q \in Orders, Unshared(q)
        PROVE  /\ \A p \in Items[q] :
                    /\ owner'[p] # Nothing => /\ owner'[p] = q /\ details'[p] = q
                                              /\ price'[p] = PriceOf(q, p)
                    /\ Exists(q)' => owner'[p] # Nothing
               /\ \A d \in Calls : Saving(d)' /\ order'[d] = q =>
                    /\ \A p \in Items[q] :
                         held'[d][p] = [details |-> q, price |-> PriceOf(q, p)]
                    /\ pc'[d] = "writing" => plan'[d].unlink = {}
    BY DEF UnsharedRows, Unshared, PriceOf
  <2>1. \A d \in Calls : Saving(d)' /\ order'[d] = q =>
          /\ \A p \in Items[q] :
               held'[d][p] = [details |-> q, price |-> PriceOf(q, p)]
          /\ pc'[d] = "writing" => plan'[d].unlink = {}
    BY Written DEF RowsInv, UnsharedRows
  <2>2. ASSUME NEW p \in Items[q]
        PROVE  /\ owner'[p] # Nothing => /\ owner'[p] = q /\ details'[p] = q
                                         /\ price'[p] = PriceOf(q, p)
               /\ Exists(q)' => owner'[p] # Nothing
    <3>1. /\ p \in Products
          /\ owner[p] # Nothing => /\ owner[p] = q /\ details[p] = q
                                   /\ price[p] = PriceOf(q, p)
          /\ Exists(q) => owner[p] # Nothing
      BY ItemsAssumption DEF RowsInv, UnsharedRows
    <3>2. CASE q = o
      <4>1. held[c][p] = [details |-> o, price |-> PriceOf(o, p)] /\ w.unlink = {}
        BY <3>2, Written DEF RowsInv, UnsharedRows
      <4>2. held[c][p] # Nothing
        BY <3>2, <4>1, OwnLines, RowsNulls
      <4>3. p \notin w.insert => owner[p] # Nothing
        BY <3>1, <4>2, Written DEF PlanFits
      <4>4. p \in w.insert => owner'[p] = o
        BY <3>1, Written
      <4>5. owner'[p] = o
        BY <3>1, <3>2, <4>1, <4>3, <4>4, Written
      <4>6. details'[p] = o /\ price'[p] = PriceOf(o, p)
        BY <3>1, <3>2, <4>1, <4>3, Written
      <4> QED
        BY <3>2, <4>5, <4>6, Written, RowsNulls
    <3>3. CASE q # o
      <4>1. p \notin touched
        BY <1>1, <3>3, Written DEF Unshared
      <4>2. owner'[p] = owner[p] /\ details'[p] = details[p] /\ price'[p] = price[p]
        BY <3>1, <4>1, Written
      <4> QED
        BY <1>2, <3>1, <3>3, <4>2
    <3> QED
      BY <3>2, <3>3
  <2> QED
    BY <2>1, <2>2
<1> QED
  BY <1>3, <1>4, <1>6, <1>7, <1>8 DEF RowsInv

(* The invariant holds in every reachable state. *)
LEMMA RowsInvariant == RowsSpec => []RowsInv
<1>1. RowsInv /\ [RowsNext]_rowVars => RowsInv'
  <2> SUFFICES ASSUME RowsInv, [RowsNext]_rowVars PROVE RowsInv'
    OBVIOUS
  <2>1. CASE UNCHANGED rowVars
    <3>1. /\ created' = created /\ owner' = owner /\ details' = details
          /\ price' = price /\ pc' = pc /\ order' = order /\ held' = held
          /\ plan' = plan
      BY <2>1 DEF rowVars, rows
    <3>2. Typed' /\ RowsAreFull' /\ OnlyOrderedProducts'
      BY <3>1 DEF RowsInv, Typed, RowsAreFull, OnlyOrderedProducts, Listed
    <3>3. CallsFit'
      BY <3>1 DEF RowsInv, CallsFit, Saving, Holds, PlanFits
    <3>4. NewOrders'
      BY <3>1 DEF RowsInv, NewOrders, Saving, Holds, Exists, Listed
    <3>5. UnsharedRows'
      BY <3>1 DEF RowsInv, UnsharedRows, Saving, Exists, Unshared, PriceOf
    <3> QED
      BY <3>2, <3>3, <3>4, <3>5 DEF RowsInv
  <2> QED
    BY <2>1, CreateKeepsInv, ChangeKeepsInv, ReadKeepsInv, LoadKeepsInv,
       WriteKeepsInv, GiveUpKeepsInv DEF RowsNext
<1> QED
  BY <1>1, InitRowsInv, PTL DEF RowsSpec

-----------------------------------------------------------------------------
(* Calls that do not overlap.                                              *)

(* What the i-th order keeps: the products no later order contains. *)
Later(i) == {created[j] : j \in {k \in DOMAIN created : k > i}}
Kept(i) == Items[created[i]] \ UNION {Items[n] : n \in Later(i)}

(* What findById makes of the rows of o. *)
Found(o) ==
  [p \in Products |-> IF p \in Listed(o)
                      THEN [details |-> details[p], price |-> price[p]]
                      ELSE Nothing]

Empty(w) == w.insert \cup w.link \cup w.rewrite \cup w.reprice \cup w.unlink = {}

(* The call under way holds what the rows show, or the products of a new   *)
(* order; it is going to write nothing, or every product of the new order. *)
UpToDate(c) ==
  /\ pc[c] = "saving" =>
       held[c] = IF Exists(order[c]) THEN Found(order[c]) ELSE NewProducts(order[c])
  /\ pc[c] = "writing" =>
       IF Exists(order[c]) THEN Empty(plan[c])
       ELSE \A p \in Items[order[c]] :
              /\ held[c][p].details = order[c]
              /\ p \in plan[c].insert \cup plan[c].rewrite \/ details[p] = order[c]

SerialRows ==
  /\ \A o \in Orders : Exists(o) => \E c \in Calls : pc[c] # "idle" /\ order[c] = o
  /\ \A p \in Products : owner[p] \in Orders => details[p] = owner[p]
  /\ \A i \in DOMAIN created : Listed(created[i]) = Kept(i)
  /\ \A c, d \in Open : c = d
  /\ \A c \in Calls : UpToDate(c)

SerialRowsInv == ~ overlapped => SerialRows

(* Nothing is created yet. *)
LEMMA InitSerialRows == RowsInit => SerialRows
<1> SUFFICES ASSUME RowsInit PROVE SerialRows
  OBVIOUS
<1>1. DOMAIN created = {} /\ Open = {}
  BY DEF RowsInit, Open
<1> QED
  BY <1>1, RowsNulls DEF RowsInit, SerialRows, Exists, UpToDate

(* A step of the one call under way that writes nothing. *)
LEMMA SerialCallStep ==
  ASSUME SerialRows, UNCHANGED <<created, rows>>, NEW c \in Calls,
         \A d \in Calls \ {c} : pc'[d] = pc[d] /\ order'[d] = order[d],
         pc[c] # "idle" => pc'[c] # "idle" /\ order'[c] = order[c],
         Open' \subseteq {c},
         UpToDate(c)'
  PROVE  SerialRows'
<1>1. /\ created' = created /\ owner' = owner /\ details' = details
      /\ \A o : Exists(o)' = Exists(o)
  BY DEF rows, Exists
<1>2. \A i : Listed(created[i])' = Listed(created[i]) /\ Kept(i)' = Kept(i)
  BY <1>1 DEF Listed, Kept, Later
<1>3. ASSUME NEW d \in Calls PROVE UpToDate(d)'
  BY <1>3 DEF UpToDate, Open
<1> QED
  BY <1>1, <1>2, <1>3 DEF SerialRows

(* What is known of the call under way when it is the only one. *)
LEMMA OnlyOpen ==
  ASSUME SerialRows, NEW c \in Open
  PROVE  Open = {c}
  BY DEF SerialRows

(* A call that begins does not overlap if no other is under way. *)
LEMMA SerialEnter ==
  ASSUME RowsInv, SerialRows, ~ overlapped', NEW c \in Calls, NEW o \in Orders,
         Create(c, o) \/ Change(c, o)
  PROVE  SerialRows'
<1>1. /\ pc[c] = "idle" /\ Open = {} /\ order'[c] = o
      /\ UNCHANGED <<created, rows>>
      /\ \A d \in Calls \ {c} : pc'[d] = pc[d] /\ order'[d] = order[d]
  BY DEF RowsInv, Typed, Create, Change, Enter, Goto
<1>2. Open' \subseteq {c}
  BY <1>1 DEF Open
<1>3. UpToDate(c)'
  <2>1. CASE Create(c, o)
    <3>1. ~ Exists(o)
      BY <2>1 DEF SerialRows, Create
    <3>2. ~ Exists(o)'
      BY <1>1, <3>1 DEF Exists
    <3>3. /\ pc'[c] = "saving" /\ held'[c] = NewProducts(o)
      BY <2>1 DEF RowsInv, Typed, Create, Enter, Goto
    <3> QED
      BY <1>1, <3>2, <3>3 DEF UpToDate, NewProducts
  <2>2. CASE Change(c, o)
    BY <2>2 DEF RowsInv, Typed, Change, Enter, Goto, UpToDate
  <2> QED
    BY <2>1, <2>2
<1> QED
  BY <1>1, <1>2, <1>3, SerialCallStep

(* findById finds the rows as they are. *)
LEMMA SerialRead ==
  ASSUME RowsInv, SerialRows, NEW c \in Calls, Read(c)
  PROVE  SerialRows'
<1>1. /\ UNCHANGED <<created, rows>> /\ order' = order
      /\ pc'[c] = "saving" /\ held'[c] = Found(order[c])
      /\ \A d \in Calls \ {c} : pc'[d] = pc[d]
  BY DEF RowsInv, Typed, Read, Goto, Found
<1>2. Open' \subseteq {c}
  <2>1. Open = {c}
    BY OnlyOpen DEF Read, Open
  <2> QED
    BY <1>1, <2>1 DEF Open
<1>3. UpToDate(c)'
  <2>1. Found(order[c])' = Found(order[c]) /\ Exists(order[c])'
    BY <1>1 DEF Found, Listed, Exists, rows, Read
  <2> QED
    BY <1>1, <2>1 DEF UpToDate
<1> QED
  BY <1>1, <1>2, <1>3, SerialCallStep DEF Read

(* save finds nothing to do for an order that is there, and plans to write *)
(* every product of a new one.                                             *)
LEMMA SerialLoad ==
  ASSUME RowsInv, SerialRows, NEW c \in Calls, Load(c)
  PROVE  SerialRows'
<1> DEFINE o == order[c]
           w == plan'[c]
<1>1. /\ UNCHANGED <<created, rows>> /\ order' = order /\ held' = held
      /\ pc[c] = "saving" /\ pc'[c] = "writing" /\ o \in Orders
      /\ \A d \in Calls \ {c} : pc'[d] = pc[d]
  BY DEF RowsInv, Typed, CallsFit, Load, Goto
<1>2. /\ w.insert = {p \in Holds(c) : owner[p] = Nothing}
      /\ w.link = {p \in Holds(c) : owner[p] \notin {o, Nothing}}
      /\ w.rewrite = {p \in Holds(c) : owner[p] # Nothing
                                      /\ details[p] # held[c][p].details}
      /\ w.reprice = {p \in Holds(c) : owner[p] # Nothing
                                      /\ held[c][p].price \notin {price[p], Nothing}}
      /\ w.unlink = Listed(o) \ Holds(c)
  BY DEF RowsInv, Typed, Load
<1>3. Open' \subseteq {c}
  <2>1. Open = {c}
    BY OnlyOpen DEF Load, Open
  <2> QED
    BY <1>1, <2>1 DEF Open
<1>4. Exists(o)' = Exists(o) /\ details' = details
  BY <1>1 DEF Exists, rows
<1>5. CASE Exists(o)
  <2>1. held[c] = Found(o)
    BY <1>1, <1>5 DEF SerialRows, UpToDate
  <2>2. \A p \in Listed(o) : /\ p \in Products /\ owner[p] = o
                             /\ held[c][p] = [details |-> details[p], price |-> price[p]]
                             /\ held[c][p] \in Lines
    <3>1. ASSUME NEW p \in Listed(o)
          PROVE  /\ p \in Products /\ owner[p] = o
                 /\ details[p] \in Orders /\ price[p] \in Orders \cup {Nothing}
      BY <1>1, RowsNulls DEF Listed, RowsInv, RowsAreFull, Typed
    <3> QED
      BY <2>1, <3>1 DEF Found, Lines
  <2>3. Holds(c) = Listed(o)
    <3>1. \A p \in Products \ Listed(o) : held[c][p] = Nothing
      BY <2>1 DEF Found
    <3> QED
      BY <2>2, <3>1, RowsNulls DEF Holds, Listed
  <2>4. \A p \in Holds(c) : /\ owner[p] = o /\ o # Nothing
                            /\ held[c][p].details = details[p]
                            /\ held[c][p].price = price[p]
    <3>1. o # Nothing
      BY <1>1, RowsNulls
    <3>2. ASSUME NEW p \in Holds(c)
          PROVE  /\ owner[p] = o /\ o # Nothing
                 /\ held[c][p].details = details[p]
                 /\ held[c][p].price = price[p]
      <4>1. /\ owner[p] = o
            /\ held[c][p] = [details |-> details[p], price |-> price[p]]
        BY <2>2, <2>3
      <4>2. held[c][p].details = details[p]
        BY <4>1
      <4>3. held[c][p].price = price[p]
        BY <4>1
      <4> QED
        BY <3>1, <4>1, <4>2, <4>3
    <3> QED
      BY <3>2
  <2> HIDE DEF o, w
  <2>5. w.insert = {} /\ w.link = {}
    BY <1>2, <2>4
  <2>6. w.rewrite = {} /\ w.reprice = {}
    BY <1>2, <2>4
  <2>7. Empty(w)
    BY <1>2, <2>3, <2>5, <2>6 DEF Empty
  <2> QED
    BY <1>1, <1>3, <1>4, <1>5, <2>7, SerialCallStep DEF UpToDate, o, w
<1>6. CASE ~ Exists(o)
  <2>1. held[c] = NewProducts(o) /\ Holds(c) = Items[o]
    BY <1>1, <1>6 DEF SerialRows, UpToDate, RowsInv, NewOrders, Saving
  <2>2. \A p \in Items[o] : p \in Products /\ held[c][p].details = o
    BY <1>1, <2>1, ItemsAssumption DEF NewProducts
  <2> HIDE DEF o, w
  <2>3. \A p \in Items[o] : p \in w.insert \cup w.rewrite \/ details[p] = o
    BY <1>2, <2>1, <2>2
  <2> QED
    BY <1>1, <1>3, <1>4, <1>6, <2>2, <2>3, SerialCallStep DEF UpToDate, o, w
<1> QED
  BY <1>5, <1>6

(* A call that ends without a write leaves nobody under way. *)
LEMMA SerialGiveUp ==
  ASSUME RowsInv, SerialRows, NEW c \in Calls, GiveUp(c)
  PROVE  SerialRows'
<1>1. /\ UNCHANGED <<created, rows>> /\ order' = order /\ c \in Open
      /\ pc'[c] = "done" /\ \A d \in Calls \ {c} : pc'[d] = pc[d]
  BY DEF RowsInv, Typed, GiveUp, Goto
<1>2. Open' \subseteq {c}
  BY <1>1, OnlyOpen DEF Open
<1>3. UpToDate(c)'
  BY <1>1 DEF UpToDate
<1> QED
  BY <1>1, <1>2, <1>3, SerialCallStep

(* A save that has nothing to write leaves everything as it is. *)
LEMMA SerialWriteOld ==
  ASSUME RowsInv, SerialRows, NEW c \in Calls, Write(c), Exists(order[c])
  PROVE  SerialRows'
<1>1. Empty(plan[c])
  BY Written DEF SerialRows, UpToDate
<1>2. \A p \in Products : owner'[p] = owner[p] /\ details'[p] = details[p]
  BY <1>1, Written DEF Empty
<1>3. created' = created
  BY DEF Write
<1>4. Open' = {}
  BY OnlyOpen, Written DEF Open
<1>5. \A o : Listed(o)' = Listed(o) /\ (Exists(o)' <=> Exists(o))
  BY <1>2, <1>3 DEF Listed, Exists
<1>6. \A i \in DOMAIN created : Listed(created[i])' = Kept(i)'
  BY <1>3, <1>5 DEF SerialRows, Kept, Later
<1>7. \A d \in Calls : UpToDate(d)'
  BY <1>4 DEF UpToDate, Open
<1>8. \A d \in Calls : pc[d] # "idle" => pc'[d] # "idle" /\ order'[d] = order[d]
  BY Written
<1> QED
  BY <1>2, <1>3, <1>4, <1>5, <1>6, <1>7, <1>8 DEF SerialRows

(* A new order takes its products from all others, and becomes the last.   *)
LEMMA SerialWriteNew ==
  ASSUME RowsInv, SerialRows, NEW c \in Calls, Write(c), ~ Exists(order[c])
  PROVE  SerialRows'
<1> PICK o \in Orders : o = order[c]
  BY Written
<1> PICK n \in Nat : n = Len(created)
  BY DEF RowsInv, Typed
<1>1. /\ plan[c].insert \cup plan[c].link = Items[o] /\ plan[c].unlink = {}
      /\ plan[c].rewrite \subseteq Items[o] /\ Items[o] \subseteq Products
  BY Written, ItemsAssumption
  DEF RowsInv, NewOrders, CallsFit, PlanFits, Plans, Holds
<1>2. \A p \in Products :
        /\ owner'[p] = IF p \in Items[o] THEN o ELSE owner[p]
        /\ p \notin Items[o] => details'[p] = details[p]
  BY <1>1, Written
<1>3. \A p \in Items[o] : details'[p] = o
  BY <1>1, Written DEF SerialRows, UpToDate
<1>4. /\ created \in Seq(Orders) /\ DOMAIN created = 1 .. n
      /\ DOMAIN created' = 1 .. (n + 1)
      /\ \A i \in 1 .. n : created'[i] = created[i]
      /\ created'[n + 1] = o
  BY DEF Write, RowsInv, Typed
<1>5. \A i \in 1 .. n : created[i] \in Orders \ {o}
  BY <1>4 DEF Exists
<1>6. /\ Listed(o)' = Items[o]
      /\ \A q \in Orders \ {o} : Listed(q)' = Listed(q) \ Items[o]
  <2>1. Listed(o) = {}
    BY DEF RowsInv, NewOrders
  <2> QED
    BY <1>1, <1>2, <2>1 DEF Listed
<1>7. ASSUME NEW i \in 1 .. n PROVE Listed(created[i])' = Kept(i)'
  <2>1. Later(i)' = Later(i) \cup {o}
    <3>1. \A k : k \in DOMAIN created' /\ k > i <=>
                 (k \in DOMAIN created /\ k > i) \/ k = n + 1
      BY <1>4
    <3>2. \A k \in DOMAIN created : created'[k] = created[k]
      BY <1>4
    <3> QED
      BY <1>4, <3>1, <3>2 DEF Later
  <2>2. Kept(i)' = Kept(i) \ Items[o]
    BY <1>4, <2>1 DEF Kept
  <2>3. Listed(created[i]) = Kept(i)
    BY <1>4 DEF SerialRows
  <2> QED
    BY <1>4, <1>5, <1>6, <2>2, <2>3
<1>8. Listed(created[n + 1])' = Kept(n + 1)'
  <2>1. Later(n + 1)' = {}
    BY <1>4 DEF Later
  <2> QED
    BY <1>4, <1>6, <2>1 DEF Kept
<1>9. \A i \in DOMAIN created' : Listed(created[i])' = Kept(i)'
  BY <1>4, <1>7, <1>8
<1>10. \A p \in Products : owner'[p] \in Orders => details'[p] = owner'[p]
  BY <1>2, <1>3 DEF SerialRows
<1>11. Open' = {}
  BY OnlyOpen, Written DEF Open
<1>12. \A d \in Calls : UpToDate(d)'
  BY <1>11 DEF UpToDate, Open
<1>13. \A q \in Orders : Exists(q)' => \E d \in Calls : pc'[d] # "idle" /\ order'[d] = q
  <2>1. \A q : Exists(q)' <=> Exists(q) \/ q = o
    BY WriteCreates, Written DEF RowsInv
  <2>2. \A d \in Calls : pc[d] # "idle" => pc'[d] # "idle" /\ order'[d] = order[d]
    BY Written
  <2> QED
    BY <2>1, <2>2, Written DEF SerialRows
<1> QED
  BY <1>9, <1>10, <1>11, <1>12, <1>13 DEF SerialRows

(* Every step of calls that do not overlap preserves the invariant.        *)
LEMMA SerialRowsNext ==
  ASSUME RowsInv, SerialRowsInv, [RowsNext]_rowVars
  PROVE  SerialRowsInv'
<1> SUFFICES ASSUME ~ overlapped' PROVE SerialRows'
  BY DEF SerialRowsInv
<1>1. ASSUME NEW c \in Calls, NEW o \in Orders, Create(c, o) \/ Change(c, o)
      PROVE  SerialRows'
  <2>1. ~ overlapped
    BY <1>1, Zenon DEF Create, Change, Enter
  <2> QED
    BY <1>1, <2>1, SerialEnter DEF SerialRowsInv
<1>2. ASSUME NEW c \in Calls, Read(c) \/ Load(c) \/ Write(c) \/ GiveUp(c)
      PROVE  SerialRows'
  <2>1. ~ overlapped
    BY <1>2 DEF Read, Load, Write, GiveUp
  <2> QED
    BY <1>2, <2>1, SerialRead, SerialLoad, SerialWriteOld, SerialWriteNew, SerialGiveUp
    DEF SerialRowsInv
<1>3. CASE UNCHANGED rowVars
  <2>1. /\ created' = created /\ owner' = owner /\ details' = details
        /\ price' = price /\ pc' = pc /\ order' = order /\ held' = held
        /\ plan' = plan /\ overlapped' = overlapped
    BY <1>3 DEF rowVars, rows
  <2>2. \A o : Exists(o)' = Exists(o) /\ Listed(o)' = Listed(o) /\ Found(o)' = Found(o)
    BY <2>1 DEF Exists, Listed, Found
  <2>3. \A c \in Calls : UpToDate(c)' = UpToDate(c)
    BY <2>1, <2>2 DEF UpToDate
  <2> QED
    BY <2>1, <2>2, <2>3 DEF SerialRowsInv, SerialRows, Kept, Later, Open
<1> QED
  BY <1>1, <1>2, <1>3 DEF RowsNext

-----------------------------------------------------------------------------
(* The results.                                                            *)

(* Every variable has its type, in whatever order calls load and write. *)
THEOREM RowsTypeCorrectness == RowsSpec => []RowsTypeOK
<1>1. RowsInit => overlapped \in BOOLEAN
  BY Zenon DEF RowsInit
<1>2. overlapped \in BOOLEAN /\ [RowsNext]_rowVars => (overlapped \in BOOLEAN)'
  <2> SUFFICES ASSUME overlapped \in BOOLEAN, [RowsNext]_rowVars
               PROVE  overlapped' \in BOOLEAN
    OBVIOUS
  <2>1. \/ overlapped' = (overlapped \/ Open # {})
        \/ overlapped' = overlapped
    BY DEF RowsNext, rowVars, Create, Change, Enter, Read, Load, Write, GiveUp
  <2> QED
    BY <2>1, Zenon
<1>3. RowsInv /\ overlapped \in BOOLEAN => RowsTypeOK
  BY DEF RowsInv, Typed, RowsTypeOK
<1> QED
  BY <1>1, <1>2, <1>3, RowsInvariant, PTL DEF RowsSpec

(* No save moves a product into an order that was not created with it.     *)
THEOREM ProductsAreOrdered == RowsSpec => []OnlyOrderedProducts
<1>1. RowsInv => OnlyOrderedProducts
  BY DEF RowsInv
<1> QED
  BY <1>1, RowsInvariant, PTL

(* An order that shares no product keeps all of them as they were, however *)
(* the saves of this and of other orders overlap.                          *)
THEOREM UnsharedOrdersAreKept == RowsSpec => []UnsharedIsKept
<1>1. RowsInv => UnsharedIsKept
  <2> SUFFICES ASSUME RowsInv, NEW o \in Orders, Exists(o), Unshared(o)
               PROVE  /\ Listed(o) = Items[o]
                      /\ \A p \in Items[o] : details[p] = o /\ price[p] = PriceOf(o, p)
    BY DEF UnsharedIsKept, PriceOf
  <2>1. \A p \in Items[o] : p \in Products /\ owner[p] = o /\ details[p] = o
                            /\ price[p] = PriceOf(o, p)
    BY ItemsAssumption DEF RowsInv, UnsharedRows
  <2> QED
    BY <2>1 DEF RowsInv, OnlyOrderedProducts, Listed
<1> QED
  BY <1>1, RowsInvariant, PTL

(* An order comes into being with all of its products: the transaction of  *)
(* repository.save is refused or whole.                                    *)
THEOREM OrdersAreCreatedWhole == RowsSpec => CreationIsWhole
<1>1. RowsInv /\ [RowsNext]_rowVars =>
        [\A o \in Orders : ~ Exists(o) /\ Exists(o)' => Listed(o)' = Items[o]]_rowVars
  <2> SUFFICES ASSUME RowsInv, [RowsNext]_rowVars,
                      NEW o \in Orders, ~ Exists(o), Exists(o)'
               PROVE  Listed(o)' = Items[o]
    OBVIOUS
  <2>1. created' # created
    BY DEF Exists
  <2>2. PICK c \in Calls : Write(c)
    BY <2>1 DEF RowsNext, rowVars, Create, Change, Read, Load, GiveUp
  <2>3. order[c] = o
    BY <2>2, WriteCreates, Written DEF RowsInv
  <2>4. /\ plan[c].insert \cup plan[c].link = Items[o] /\ plan[c].unlink = {}
        /\ Listed(o) = {}
    BY <2>2, <2>3, Written DEF RowsInv, NewOrders
  <2>5. \A p \in Products : owner'[p] = o <=> p \in Items[o]
    BY <2>2, <2>3, <2>4, Written DEF Listed
  <2> QED
    BY <2>5, ItemsAssumption DEF Listed
<1> QED
  BY <1>1, RowsInvariant, PTL DEF RowsSpec, CreationIsWhole

(* As long as calls do not overlap, an order keeps exactly the products no *)
(* later order contains, and its rows show its own details: a product      *)
(* belongs to whoever ordered it last.                                     *)
THEOREM ProductsGoToTheLastBuyer == RowsSpec => []LastBuyerHolds
<1>1. RowsInit => SerialRowsInv
  BY InitSerialRows DEF SerialRowsInv
<1>2. RowsInv /\ SerialRowsInv /\ [RowsNext]_rowVars => SerialRowsInv'
  BY SerialRowsNext
<1>3. RowsInv /\ SerialRowsInv => LastBuyerHolds
  <2> SUFFICES ASSUME RowsInv, SerialRows, NEW i \in DOMAIN created
               PROVE  /\ Listed(created[i]) = Kept(i)
                      /\ \A p \in Listed(created[i]) : details[p] = created[i]
    BY DEF LastBuyerHolds, SerialRowsInv, Kept, Later
  <2>1. created[i] \in Orders
    BY DEF RowsInv, Typed
  <2> QED
    BY <2>1 DEF SerialRows, Listed
<1> QED
  BY <1>1, <1>2, <1>3, RowsInvariant, PTL DEF RowsSpec
=============================================================================
