----------------------------- MODULE ShopProofs -----------------------------
(***************************************************************************)
(* Proofs about Shop, for any number of orders and of items; and about     *)
(* Pricing, for any prices, rates and quantities.                          *)
(***************************************************************************)
EXTENDS MCShop, Sequences, FiniteSetTheorems, WellFoundedInduction, TLAPS

-----------------------------------------------------------------------------
(* Types.                                                                  *)

LEMMA TypeInit == ShopInit => ShopTypeOK
<1> SUFFICES ASSUME ShopInit PROVE ShopTypeOK
  OBVIOUS
<1> USE DEF ShopInit, Init
<1>1. CartTypeOK
  BY DEF CartInit, CartTypeOK
<1>2. topic \in Seq(Orders) /\ Len(topic) = 0
  OBVIOUS
<1>3. CheckoutTypeOK
  BY <1>1, <1>2 DEF CheckoutTypeOK
<1>4. A!AccountTypeOK
  <2>1. 0 \in 0..0 /\ 0 \in 0..Len(topic)
    BY <1>2
  <2>2. QED
    BY <2>1 DEF A!AccountInit, A!AccountTypeOK
<1>5. QED
  BY <1>3, <1>4 DEF ShopTypeOK

\* The checkout service and the cart: one step per call.
LEMMA CheckoutTypes ==
    ASSUME ShopTypeOK, CheckoutStep
    PROVE  ShopTypeOK'
<1> USE DEF ShopTypeOK, CheckoutTypeOK, CartTypeOK, A!AccountTypeOK, bookVars
<1>1. ASSUME NEW a \in Adds, Add(a)
      PROVE  ShopTypeOK'
  <2>1. alone' \subseteq Adds \cup Orders
    BY <1>1 DEF Add, Begins
  <2>2. UNCHANGED <<sagaVars, producerVars, bookVars>>
    BY <1>1 DEF Add, CheckoutStep
  <2>3. CASE HashGet(a)
    BY <2>1, <2>2, <2>3 DEF HashGet, sagaVars, producerVars
  <2>4. CASE HashSet(a)
    BY <2>1, <2>2, <2>4 DEF HashSet, sagaVars, producerVars
  <2>5. CASE AddFails(a)
    BY <2>1, <2>2, <2>5 DEF AddFails, sagaVars, producerVars
  <2>6. QED
    BY <1>1, <2>3, <2>4, <2>5 DEF Add
<1>2. CASE Expire
  BY <1>2 DEF CheckoutStep, Expire, ExpireKey, sagaVars, producerVars
<1>3. ASSUME NEW o \in Orders, PlaceOrder(o)
      PROVE  ShopTypeOK'
  <2> USE <1>3 DEF CheckoutStep, Goto, cartVars, producerVars
  <2>1. CASE GetUserCart(o)
    BY <2>1 DEF GetUserCart, Begins
  <2>2. CASE Prepare(o)
    BY <2>2 DEF Prepare
  <2>3. CASE Fail(o)
    BY <2>3 DEF Fail
  <2>4. CASE ChargeCard(o)
    BY <2>4 DEF ChargeCard
  <2>5. CASE ShipOrder(o)
    BY <2>5 DEF ShipOrder
  <2>6. CASE EmptyUserCart(o)
    BY <2>6 DEF EmptyUserCart, EmptyCart
  <2>7. CASE EmptyFails(o)
    BY <2>7 DEF EmptyFails
  <2>8. CASE Publish(o)
    BY <2>8 DEF Publish
  <2>9. CASE PublishNot(o)
    BY <2>9 DEF PublishNot
  <2>10. CASE Answer(o)
    BY <2>10 DEF Answer
  <2>11. QED
    BY <2>1, <2>2, <2>3, <2>4, <2>5, <2>6, <2>7, <2>8, <2>9, <2>10 DEF PlaceOrder
<1>4. CASE Kafka
  <2> USE <1>4 DEF CheckoutStep, cartVars
  <2>1. ASSUME NEW o \in Orders, CopySend(o) \/ CopyAnswer(o)
        PROVE  ShopTypeOK'
    BY <2>1 DEF CopySend, CopyAnswer, Kafka
  <2>2. ASSUME NEW m \in sending, Deliver(m)
        PROVE  ShopTypeOK'
    <3>1. m[1] \in Orders
      OBVIOUS
    <3>2. topic' \in Seq(Orders) /\ Len(topic) <= Len(topic')
      BY <2>2, <3>1 DEF Deliver
    <3>3. QED
      BY <2>2, <3>2 DEF Deliver, Kafka
  <2>3. CASE LogError
    BY <2>3 DEF LogError, Kafka
  <2>4. QED
    BY <2>1, <2>2, <2>3 DEF Kafka
<1>5. CASE Crash
  BY <1>5 DEF CheckoutStep, Crash, cartVars
<1>6. QED
  BY <1>1, <1>2, <1>3, <1>4, <1>5 DEF CheckoutStep

LEMMA AccountTypes ==
    ASSUME ShopTypeOK, AccountStep
    PROVE  ShopTypeOK'
<1> USE DEF ShopTypeOK, A!AccountTypeOK, AccountStep, A!Account
<1>1. CheckoutTypeOK'
  BY DEF CheckoutTypeOK, CartTypeOK, cartVars, sagaVars
<1>2. topic \in Seq(Orders)
  BY DEF CheckoutTypeOK
<1>3. CASE A!Consume
  BY <1>1, <1>2, <1>3 DEF A!Consume
<1>4. CASE A!Refuse
  BY <1>1, <1>4 DEF A!Refuse
<1>5. CASE A!SaveFails
  BY <1>1, <1>5 DEF A!SaveFails
<1>6. CASE A!Save
  BY <1>1, <1>6 DEF A!Save
<1>7. CASE A!AutoCommit
  BY <1>1, <1>7 DEF A!AutoCommit
<1>8. CASE A!Restart
  BY <1>1, <1>8 DEF A!Restart
<1>9. QED
  BY <1>3, <1>4, <1>5, <1>6, <1>7, <1>8

\* Every variable of the shop keeps its type.
THEOREM TypeCorrect == ShopSpec => []ShopTypeOK
<1>1. ShopTypeOK /\ [ShopNext]_shopVars => ShopTypeOK'
  <2>1. ASSUME ShopTypeOK, UNCHANGED shopVars
        PROVE  ShopTypeOK'
    BY <2>1 DEF shopVars, checkoutVars, cartVars, sagaVars, producerVars, bookVars,
                ShopTypeOK, CheckoutTypeOK, CartTypeOK, A!AccountTypeOK
  <2>2. QED
    BY <2>1, CheckoutTypes, AccountTypes DEF ShopNext
<1>2. QED
  BY TypeInit, <1>1, PTL DEF ShopSpec

-----------------------------------------------------------------------------
(* The ledger: what each part holds is an order that has been shipped.     *)

LInv ==
    /\ \A o \in Orders :
        /\ orderAt[o] = "ship" => o \in charged
        /\ orderAt[o] \in {"empty", "publish", "ack", "placed"} => o \in shipped
        /\ copyAt[o] # "none" => o \in shipped
    /\ shipped \subseteq charged
    /\ \A m \in sending : m[1] \in shipped
    /\ \A i \in 1..Len(topic) : topic[i] \in shipped
    /\ current \in shipped \cup {None}
    /\ pending \cup tracked \cup db \subseteq shipped

LEMMA LedgerInit == ShopInit => LInv
<1> SUFFICES ASSUME ShopInit PROVE LInv
  OBVIOUS
<1>1. Len(topic) = 0
  BY DEF ShopInit, Init
<1>2. QED
  BY <1>1 DEF ShopInit, Init, A!AccountInit, LInv

LEMMA LedgerNext ==
    ASSUME ShopTypeOK, LInv, [ShopNext]_shopVars
    PROVE  LInv'
<1> USE DEF LInv, ShopTypeOK, CheckoutTypeOK
<1>1. CASE UNCHANGED shopVars
  BY <1>1 DEF shopVars, checkoutVars, sagaVars, producerVars, bookVars
<1>2. ASSUME CheckoutStep, NEW a \in Adds, Add(a)
      PROVE  LInv'
  BY <1>2 DEF CheckoutStep, Add, sagaVars, producerVars, bookVars
<1>3. CASE CheckoutStep /\ Expire
  BY <1>3 DEF CheckoutStep, Expire, sagaVars, producerVars, bookVars
<1>4. ASSUME CheckoutStep, NEW o \in Orders, PlaceOrder(o)
      PROVE  LInv'
  <2> USE <1>4 DEF Goto, producerVars
  <2>0. UNCHANGED bookVars
    BY DEF CheckoutStep
  <2>1. CASE GetUserCart(o) \/ Prepare(o) \/ Fail(o)
    BY <2>0, <2>1 DEF GetUserCart, Prepare, Fail, bookVars
  <2>2. CASE ChargeCard(o)
    BY <2>0, <2>2 DEF ChargeCard, bookVars
  <2>3. CASE ShipOrder(o)
    BY <2>0, <2>3 DEF ShipOrder, bookVars
  <2>4. CASE EmptyUserCart(o) \/ EmptyFails(o)
    BY <2>0, <2>4 DEF EmptyUserCart, EmptyFails, bookVars
  <2>5. CASE Publish(o)
    BY <2>0, <2>5 DEF Publish, bookVars
  <2>6. CASE PublishNot(o)
    BY <2>0, <2>6 DEF PublishNot, bookVars
  <2>7. CASE Answer(o)
    BY <2>0, <2>7 DEF Answer, bookVars
  <2>8. QED
    BY <2>1, <2>2, <2>3, <2>4, <2>5, <2>6, <2>7 DEF PlaceOrder
<1>5. CASE CheckoutStep /\ Kafka
  <2>0. UNCHANGED <<bookVars, orderAt, charged, shipped>>
    BY <1>5 DEF CheckoutStep, Kafka
  <2>1. ASSUME NEW o \in Orders, CopySend(o) \/ CopyAnswer(o)
        PROVE  LInv'
    BY <2>0, <2>1 DEF CopySend, CopyAnswer, bookVars
  <2>2. ASSUME NEW m \in sending, Deliver(m)
        PROVE  LInv'
    <3>1. m[1] \in Orders /\ m[1] \in shipped
      OBVIOUS
    <3>2. \A i \in 1..Len(topic') : topic'[i] \in shipped
      BY <2>2, <3>1 DEF Deliver
    <3>3. QED
      BY <2>0, <2>2, <3>2 DEF Deliver, bookVars
  <2>3. CASE LogError
    BY <2>0, <2>3 DEF LogError, bookVars
  <2>4. QED
    BY <1>5, <2>1, <2>2, <2>3 DEF Kafka
<1>6. CASE CheckoutStep /\ Crash
  BY <1>6 DEF CheckoutStep, Crash, bookVars
<1>7. CASE AccountStep
  <2> USE <1>7 DEF AccountStep, A!Account, A!AccountTypeOK
  <2>0. UNCHANGED <<topic, sending, orderAt, charged, shipped, copyAt>>
    BY DEF sagaVars
  <2>1. CASE A!Consume
    BY <2>0, <2>1 DEF A!Consume
  <2>2. CASE A!Refuse \/ A!AutoCommit \/ A!Restart
    BY <2>0, <2>2 DEF A!Refuse, A!AutoCommit, A!Restart
  <2>3. CASE A!SaveFails \/ A!Save
    BY <2>0, <2>3 DEF A!SaveFails, A!Save
  <2>4. QED
    BY <2>1, <2>2, <2>3
<1>8. QED
  BY <1>1, <1>2, <1>3, <1>4, <1>5, <1>6, <1>7 DEF ShopNext, CheckoutStep

\* Every step of the shop is a step of the ledger or none.
LEMMA LedgerStep ==
    ASSUME ShopTypeOK, LInv, [ShopNext]_shopVars
    PROVE  [Ledger!Next]_<<charged, shipped, db>>
<1> USE DEF LInv, ShopTypeOK, CheckoutTypeOK
<1> DEFINE Stutter == UNCHANGED <<charged, shipped, db>>
<1>1. CASE UNCHANGED shopVars
  BY <1>1 DEF shopVars, checkoutVars, sagaVars, bookVars
<1>2. ASSUME CheckoutStep, NEW o \in Orders, PlaceOrder(o)
      PROVE  Stutter \/ Ledger!Next
  <2>0. db' = db
    BY <1>2 DEF CheckoutStep, bookVars
  <2>1. CASE ChargeCard(o)
    BY <2>0, <2>1 DEF ChargeCard, Ledger!Next, Ledger!Charge
  <2>2. CASE ShipOrder(o)
    BY <2>0, <2>2 DEF ShipOrder, Goto, Ledger!Next, Ledger!Ship
  <2>3. CASE ~ChargeCard(o) /\ ~ShipOrder(o)
    BY <1>2, <2>0, <2>3 DEF PlaceOrder, GetUserCart, Prepare, Fail, EmptyUserCart, EmptyFails,
                            Publish, PublishNot, Answer
  <2>4. QED
    BY <2>1, <2>2, <2>3
<1>3. CASE CheckoutStep /\ ~\E o \in Orders : PlaceOrder(o)
  BY <1>3 DEF CheckoutStep, Add, Expire, Kafka, Crash, sagaVars, bookVars
<1>4. CASE AccountStep
  <2> USE <1>4 DEF AccountStep, A!Account, sagaVars
  <2>1. CASE A!Save
    <3> DEFINE S == pending \cup {current}
    <3>1. S \subseteq shipped /\ S \in SUBSET Orders
      BY <2>1 DEF A!Save
    <3>2. db' = db \cup S /\ UNCHANGED <<charged, shipped>>
      BY <2>1 DEF A!Save
    <3>3. QED
      BY <3>1, <3>2 DEF Ledger!Next, Ledger!Account
  <2>2. CASE ~A!Save
    BY <2>2 DEF A!Consume, A!Refuse, A!SaveFails, A!AutoCommit, A!Restart
  <2>3. QED
    BY <2>1, <2>2
<1>5. QED
  BY <1>1, <1>2, <1>3, <1>4 DEF ShopNext

(***************************************************************************)
(* The services implement the ledger: whatever fails, an order is shipped  *)
(* only when charged for, in the database only when shipped, and none of   *)
(* it is taken back (main.go, lines 277-307; Consumer.cs, lines 79-131).   *)
(***************************************************************************)
THEOREM LedgerKept == ShopSpec => KeepsLedger
<1>1. ShopInit => Ledger!Init
  BY DEF ShopInit, Init, A!AccountInit, Ledger!Init
<1>2. ShopTypeOK /\ LInv /\ [ShopNext]_shopVars => [Ledger!Next]_(Ledger!ledger)
  BY LedgerStep DEF Ledger!ledger
<1>3. ShopTypeOK /\ LInv /\ [ShopNext]_shopVars => LInv'
  BY LedgerNext
<1>4. QED
  BY <1>1, <1>2, <1>3, LedgerInit, TypeCorrect, PTL DEF ShopSpec, KeepsLedger, Ledger!Spec

-----------------------------------------------------------------------------
(* The books.                                                              *)

BInv ==
    /\ tracked \subseteq db
    /\ restarted \/ \A i \in 1..position : topic[i] \in db \cup pending \cup {current}
    /\ restarted \/ unsure \/ (db \subseteq tracked /\ pending \cap db = {})

LEMMA BooksInit == ShopInit => BInv
<1> SUFFICES ASSUME ShopInit PROVE BInv
  OBVIOUS
<1>1. 1..position = {}
  BY DEF ShopInit, A!AccountInit
<1>2. QED
  BY <1>1 DEF ShopInit, A!AccountInit, BInv

LEMMA BooksNext ==
    ASSUME ShopTypeOK, BInv, [ShopNext]_shopVars
    PROVE  BInv'
<1> USE DEF BInv
<1>0. position \in Nat /\ position <= Len(topic) /\ topic \in Seq(Orders)
  BY DEF ShopTypeOK, CheckoutTypeOK, A!AccountTypeOK
<1>1. CASE UNCHANGED bookVars
  <2>1. topic' = topic \/ \E o \in Orders : topic' = Append(topic, o)
    <3>1. ASSUME NEW m \in sending, Deliver(m)
          PROVE  topic' = topic \/ \E o \in Orders : topic' = Append(topic, o)
      BY <3>1 DEF Deliver, ShopTypeOK, CheckoutTypeOK
    <3>2. ASSUME NEW o \in Orders, PlaceOrder(o)
          PROVE  topic' = topic
      BY <3>2 DEF PlaceOrder, GetUserCart, Prepare, Fail, ChargeCard, ShipOrder, EmptyUserCart,
                  EmptyFails, Publish, PublishNot, Answer, producerVars
    <3>3. CASE Kafka
      BY <3>1, <3>3 DEF Kafka, CopySend, CopyAnswer, LogError
    <3>4. QED
      BY <3>2, <3>3 DEF ShopNext, CheckoutStep, Add, Expire, Crash, AccountStep, A!Account,
                        producerVars, shopVars, checkoutVars
  <2>2. \A i \in 1..position : topic'[i] = topic[i]
    BY <1>0, <2>1
  <2>3. QED
    BY <1>1, <2>2 DEF bookVars
<1>2. CASE AccountStep
  <2> USE <1>2 DEF AccountStep, A!Account
  <2>1. CASE A!Consume
    <3>1. \A i \in 1..position' : i \in 1..position \/ topic[i] = current'
      BY <1>0, <2>1 DEF A!Consume
    <3>2. restarted \/ \A i \in 1..position : topic[i] \in db \cup pending
      <4>1. ASSUME NEW i \in 1..position
            PROVE  topic[i] # None
        BY <1>0, NoneAssumption
      <4>2. QED
        BY <2>1, <4>1 DEF A!Consume
    <3>3. QED
      BY <2>1, <3>1, <3>2 DEF A!Consume
  <2>2. CASE A!Refuse
    BY <2>2 DEF A!Refuse, A!Known
  <2>3. CASE A!SaveFails
    BY <2>3 DEF A!SaveFails, A!Known
  <2>4. CASE A!Save
    BY <2>4 DEF A!Save, A!Known
  <2>5. CASE A!AutoCommit \/ A!Restart
    BY <2>5 DEF A!AutoCommit, A!Restart
  <2>6. QED
    BY <2>1, <2>2, <2>3, <2>4, <2>5
<1>3. QED
  BY <1>1, <1>2 DEF ShopNext, CheckoutStep, shopVars

(***************************************************************************)
(* The accounting service forgets no order unless it is killed, and none   *)
(* it has saved waits to be saved but for a kill or a lost answer          *)
(* (Consumer.cs, lines 79-141).                                            *)
(***************************************************************************)
THEOREM Books == ShopSpec => []BooksSound
<1>1. ShopTypeOK /\ BInv => BooksSound
  <2> SUFFICES ASSUME ShopTypeOK, BInv PROVE BooksSound
    OBVIOUS
  <2>1. ForgottenNeedsRestart
    BY DEF BInv, ForgottenNeedsRestart, A!ForgottenNeedsRestart, A!Handled
  <2>2. StuckNeedsCause
    BY DEF BInv, StuckNeedsCause, A!StuckNeedsCause
  <2>3. QED
    BY <2>1, <2>2 DEF BooksSound
<1>2. ShopTypeOK /\ BInv /\ [ShopNext]_shopVars => BInv'
  BY BooksNext
<1>3. QED
  BY <1>1, <1>2, BooksInit, TypeCorrect, PTL DEF ShopSpec

-----------------------------------------------------------------------------
(* The cart.  A call that is alone has no other beside it, so that what it *)
(* has read is what the cart holds; what any call holds was in the cart.   *)

Phase ==
    \A o \in Orders :
        /\ orderAt[o] \in {"idle", "prepare", "charge"} => o \notin shipped
        /\ orderAt[o] = "empty" => o \in shipped
        /\ orderAt[o] \in {"idle", "prepare", "charge", "ship", "empty"} => o \notin cleared

Undisturbed ==
    /\ \A a \in alone \cap Adding : Adding = {a} /\ Ordering = {}
    /\ \A o \in alone \cap Ordering : Ordering = {o} /\ Adding = {}

Kept ==
    \A a \in alone \cap Adds :
        addAt[a] = "added" =>
            /\ a \in cart \cup ShippedItems \cup expired
            /\ \A b \in Adding : a \in value[b] \cup ShippedItems \cup expired
            /\ \A o \in Ordering : a \in items[o] \cup ShippedItems \cup expired

\* Nobody has an item whose AddItem has not written it.
Written ==
    \A a \in Adds :
        addAt[a] \in {"idle", "set"} =>
            a \notin cart /\ (\A b \in Adds : a \notin value[b]) /\ \A o \in Orders : a \notin items[o]

\* What an undisturbed order has emptied out of the cart, nobody has any more.
Apart ==
    \A o \in alone \cap cleared :
        /\ items[o] \cap cart = {}
        /\ \A b \in Adding : items[o] \cap value[b] = {}
        /\ \A p \in Ordering \cup (alone \cap cleared) : p # o => items[o] \cap items[p] = {}

CInv == Phase /\ Undisturbed /\ Kept /\ Written /\ Apart

LEMMA CartInitially == ShopInit => CInv
<1> SUFFICES ASSUME ShopInit PROVE CInv
  OBVIOUS
<1>1. Adding = {} /\ Ordering = {}
  BY DEF ShopInit, Init, CartInit, Adding, Ordering
<1>2. Kept
  BY DEF ShopInit, Init, CartInit, Kept
<1>3. QED
  BY <1>1, <1>2 DEF ShopInit, Init, CartInit, CInv, Phase, Undisturbed, Written, Apart

\* A step that leaves the cart and what has been read alone.
LEMMA CartFrame ==
    ASSUME ShopTypeOK, CInv, Phase', UNCHANGED <<cartVars, items, alone, cleared>>,
           Ordering' \subseteq Ordering, shipped \subseteq shipped'
    PROVE  CInv'
<1> USE DEF CInv, cartVars
<1>1. Adding' = Adding
  BY DEF Adding
<1>2. ShippedItems \subseteq ShippedItems'
  BY DEF ShippedItems
<1>3. Undisturbed'
  BY <1>1 DEF Undisturbed
<1>4. Kept'
  <2> SUFFICES ASSUME NEW a \in alone' \cap Adds, addAt'[a] = "added"
               PROVE  /\ a \in cart' \cup ShippedItems' \cup expired'
                      /\ \A b \in Adding' : a \in value'[b] \cup ShippedItems' \cup expired'
                      /\ \A o \in Ordering' : a \in items'[o] \cup ShippedItems' \cup expired'
    BY DEF Kept
  <2>1. QED
    BY <1>1, <1>2 DEF Kept
<1>5. Written'
  BY DEF Written
<1>6. Apart'
  BY <1>1 DEF Apart
<1>7. QED
  BY <1>3, <1>4, <1>5, <1>6

LEMMA CartByAdd ==
    ASSUME ShopTypeOK, CInv, NEW c \in Adds, Add(c)
    PROVE  CInv'
<1> USE DEF ShopTypeOK, CheckoutTypeOK, CartTypeOK
<1>0. UNCHANGED <<orderAt, items, shipped, cleared>> /\ Ordering' = Ordering /\ ShippedItems' = ShippedItems
  BY DEF Add, sagaVars, Ordering, ShippedItems
<1>1. Phase'
  BY <1>0 DEF CInv, Phase
<1>2. CASE HashGet(c) /\ Begins(c)
  <2>1. Adding' = Adding \cup {c} /\ c \notin Adding
    BY <1>2 DEF HashGet, Adding
  <2>2. alone' \subseteq alone /\ (Adding \cup Ordering # {} => alone' \cap (Adding' \cup Ordering') = {})
    BY <1>0, <1>2, <2>1 DEF Begins
  <2>3. Undisturbed'
    BY <1>0, <2>1, <2>2 DEF Undisturbed
  <2>4. /\ UNCHANGED <<cart, expired>>
        /\ value'[c] = cart /\ \A b \in Adding : value'[b] = value[b]
        /\ \A a \in Adds : addAt'[a] = "added" => addAt[a] = "added"
    BY <1>2, <2>1 DEF HashGet, Adding
  <2>5. Kept'
    BY <1>0, <2>1, <2>2, <2>4 DEF CInv, Kept
  <2>6. Written'
    BY <1>0, <1>2 DEF CInv, Written, HashGet
  <2>7. Apart'
    BY <1>0, <2>1, <2>2, <2>4 DEF CInv, Apart
  <2>8. QED
    BY <1>1, <2>3, <2>5, <2>6, <2>7 DEF CInv
<1>3. CASE (HashSet(c) \/ AddFails(c)) /\ UNCHANGED alone
  <2>1. Adding' = Adding \ {c} /\ c \in Adding
    BY <1>3 DEF HashSet, AddFails, Adding
  <2>2. Undisturbed'
    BY <1>0, <1>3, <2>1 DEF CInv, Undisturbed
  <2>3. \A b \in Adding' : value'[b] = value[b]
    BY <1>3, <2>1 DEF HashSet, AddFails, Adding
  <2>4. Kept'
    <3> SUFFICES ASSUME NEW a \in alone \cap Adds, addAt'[a] = "added"
                 PROVE  /\ a \in cart' \cup ShippedItems \cup expired
                        /\ \A b \in Adding' : a \in value[b] \cup ShippedItems \cup expired
                        /\ \A o \in Ordering : a \in items[o] \cup ShippedItems \cup expired
      BY <1>0, <1>3, <2>3 DEF Kept, HashSet, AddFails
    <3>1. CASE a = c
      <4>1. Adding' = {} /\ Ordering = {}
        BY <2>1, <3>1 DEF CInv, Undisturbed
      <4>2. c \in cart'
        BY <1>3, <3>1 DEF HashSet, AddFails
      <4>3. QED
        BY <3>1, <4>1, <4>2
    <3>2. CASE a # c
      <4>1. addAt[a] = "added"
        BY <1>3, <3>2 DEF HashSet, AddFails
      <4>2. cart' = cart \/ cart' = value[c] \cup {c}
        BY <1>3 DEF HashSet, AddFails
      <4>3. QED
        BY <2>1, <4>1, <4>2 DEF CInv, Kept
    <3>3. QED
      BY <3>1, <3>2
  <2>5. Written'
    BY <1>0, <1>3 DEF CInv, Written, HashSet, AddFails
  <2>6. Apart'
    <3> SUFFICES ASSUME NEW o \in alone \cap cleared
                 PROVE  /\ items[o] \cap cart' = {}
                        /\ \A b \in Adding' : items[o] \cap value[b] = {}
                        /\ \A p \in Ordering \cup (alone \cap cleared) : p # o => items[o] \cap items[p] = {}
      BY <1>0, <1>3, <2>3 DEF Apart
    <3>1. c \notin items[o]
      BY <2>1 DEF CInv, Written, Adding
    <3>2. cart' = cart \/ cart' = value[c] \cup {c}
      BY <1>3 DEF HashSet, AddFails
    <3>3. QED
      BY <2>1, <3>1, <3>2 DEF CInv, Apart
  <2>7. QED
    BY <1>1, <2>2, <2>4, <2>5, <2>6 DEF CInv
<1>4. QED
  BY <1>2, <1>3 DEF Add

LEMMA CartByExpire ==
    ASSUME ShopTypeOK, CInv, Expire
    PROVE  CInv'
<1>0. UNCHANGED <<orderAt, items, shipped, cleared, alone, addAt, value>> /\ ShippedItems' = ShippedItems
  BY DEF Expire, ExpireKey, sagaVars, ShippedItems
<1>1. Adding' = {} /\ Ordering' = {} /\ cart' = {} /\ expired' = expired \cup cart
  BY DEF Expire, ExpireKey, sagaVars, Adding, Ordering
<1>2. QED
  BY <1>0, <1>1 DEF CInv, Phase, Undisturbed, Kept, Written, Apart

LEMMA CartByOrder ==
    ASSUME ShopTypeOK, CInv, NEW c \in Orders, PlaceOrder(c)
    PROVE  CInv'
<1> USE DEF ShopTypeOK, CheckoutTypeOK, CartTypeOK, Goto
<1>1. CASE GetUserCart(c)
  <2>1. Ordering' = Ordering \cup {c} /\ c \notin Ordering /\ Adding' = Adding
    BY <1>1 DEF GetUserCart, Ordering, Adding, cartVars
  <2>2. alone' \subseteq alone /\ (Adding \cup Ordering # {} => alone' \cap (Adding' \cup Ordering') = {})
    BY <1>1, <2>1 DEF GetUserCart, Begins
  <2>3. c \notin shipped /\ c \notin cleared /\ UNCHANGED <<cartVars, shipped, cleared>>
    BY <1>1 DEF GetUserCart, CInv, Phase
  <2>4. items'[c] = cart /\ \A o \in Orders \ {c} : items'[o] = items[o]
    BY <1>1 DEF GetUserCart
  <2>5. ShippedItems' = ShippedItems
    BY <2>3, <2>4 DEF ShippedItems
  <2>6. Phase'
    BY <1>1 DEF GetUserCart, CInv, Phase
  <2>7. Undisturbed'
    BY <2>1, <2>2 DEF Undisturbed
  <2>8. \A o \in Ordering : o \in Orders \ {c}
    BY <2>1 DEF Ordering
  <2>9. Kept'
    BY <2>1, <2>2, <2>3, <2>4, <2>5, <2>8 DEF CInv, Kept, cartVars
  <2>10. Written'
    BY <2>3, <2>4 DEF CInv, Written, cartVars
  <2>11. Apart'
    BY <2>1, <2>2, <2>3, <2>4, <2>8 DEF CInv, Apart, cartVars
  <2>12. QED
    BY <2>6, <2>7, <2>9, <2>10, <2>11 DEF CInv
<1>2. CASE EmptyUserCart(c)
  <2>1. Ordering' = Ordering \ {c} /\ c \in Ordering /\ Adding' = Adding
    BY <1>2 DEF EmptyUserCart, EmptyCart, Ordering, Adding
  <2>2. /\ cart' = {} /\ cleared' = cleared \cup {c}
        /\ UNCHANGED <<addAt, value, expired, items, shipped, alone>>
    BY <1>2 DEF EmptyUserCart, EmptyCart
  <2>3. ShippedItems' = ShippedItems /\ items[c] \subseteq ShippedItems
    BY <1>2, <2>2 DEF EmptyUserCart, ShippedItems, CInv, Phase
  <2>4. Phase'
    BY <1>2 DEF EmptyUserCart, CInv, Phase
  <2>5. Undisturbed'
    BY <2>1, <2>2 DEF CInv, Undisturbed
  <2>6. Kept'
    BY <2>1, <2>2, <2>3 DEF CInv, Kept
  <2>7. Written'
    BY <2>2 DEF CInv, Written
  <2>8. Apart'
    <3>1. CASE c \in alone
      <4>1. Ordering' = {} /\ Adding' = {}
        BY <2>1, <3>1 DEF CInv, Undisturbed
      <4>2. \A o \in alone \cap cleared : o # c => items[o] \cap items[c] = {}
        BY <2>1 DEF CInv, Apart
      <4>3. QED
        BY <2>2, <4>1, <4>2 DEF CInv, Apart
    <3>2. CASE c \notin alone
      BY <2>1, <2>2, <3>2 DEF CInv, Apart
    <3>3. QED
      BY <3>1, <3>2
  <2>9. QED
    BY <2>4, <2>5, <2>6, <2>7, <2>8 DEF CInv
<1>3. CASE ~GetUserCart(c) /\ ~EmptyUserCart(c)
  <2>1. /\ UNCHANGED <<cartVars, items, alone, cleared>>
        /\ shipped \subseteq shipped' /\ Ordering' \subseteq Ordering
    BY <1>3 DEF PlaceOrder, Prepare, Fail, ChargeCard, ShipOrder, EmptyFails, Publish, PublishNot,
                Answer, Ordering
  <2>2. Phase'
    BY <1>3 DEF PlaceOrder, Prepare, Fail, ChargeCard, ShipOrder, EmptyFails, Publish, PublishNot,
                Answer, CInv, Phase
  <2>3. QED
    BY <2>1, <2>2, CartFrame
<1>4. QED
  BY <1>1, <1>2, <1>3

LEMMA CartNext ==
    ASSUME ShopTypeOK, CInv, [ShopNext]_shopVars
    PROVE  CInv'
<1>1. CASE UNCHANGED <<cartVars, items, alone, cleared, orderAt, shipped>>
  <2>1. Ordering' \subseteq Ordering /\ Phase'
    BY <1>1 DEF Ordering, CInv, Phase
  <2>2. QED
    BY <1>1, <2>1, CartFrame
<1>2. CASE Crash
  <2>1. Ordering' \subseteq Ordering /\ Phase'
    BY <1>2 DEF Crash, Ordering, CInv, Phase
  <2>2. QED
    BY <1>2, <2>1, CartFrame DEF Crash
<1>3. CASE UNCHANGED shopVars \/ AccountStep \/ Kafka
  BY <1>1, <1>3 DEF shopVars, checkoutVars, sagaVars, AccountStep, Kafka
<1>4. QED
  BY <1>2, <1>3, CartByAdd, CartByExpire, CartByOrder DEF ShopNext, CheckoutStep

LEMMA CartInvariant == ShopSpec => [](ShopTypeOK /\ CInv)
<1>1. ShopTypeOK /\ CInv /\ [ShopNext]_shopVars => CInv'
  BY CartNext
<1>2. QED
  BY <1>1, CartInitially, TypeCorrect, PTL DEF ShopSpec

(***************************************************************************)
(* An acknowledged item whose AddItem met no other call on the cart is not *)
(* lost (ValkeyCartStore.cs, lines 136-162; main.go, lines 271-301).       *)
(***************************************************************************)
THEOREM AddsKept == ShopSpec => []AloneAddIsKept
<1>1. CInv => AloneAddIsKept
  BY DEF CInv, Kept, AloneAddIsKept
<1>2. QED
  BY <1>1, CartInvariant, PTL

(***************************************************************************)
(* Nothing is shipped twice by orders that met no other call on the cart   *)
(* and emptied it (main.go, lines 294-301).                                *)
(***************************************************************************)
THEOREM ShippedOnce == ShopSpec => []ShippedTwiceNeedsCause
<1>1. CInv => ShippedTwiceNeedsCause
  BY DEF CInv, Apart, ShippedTwiceNeedsCause
<1>2. QED
  BY <1>1, CartInvariant, PTL

-----------------------------------------------------------------------------
(* Answers of the producer: as many to come as are waited for.             *)

WaitingOrders == {o \in Orders : orderAt[o] = "ack"}
WaitingCopies == {o \in Orders : copyAt[o] = "wait"}

Finite == IsFiniteSet(WaitingOrders) /\ IsFiniteSet(WaitingCopies) /\ IsFiniteSet(sending)

Enough ==
    Cardinality(WaitingOrders) + Cardinality(WaitingCopies)
        <= Cardinality(sending) + successes + errors + logged

Unpublished == {"idle", "prepare", "charge", "ship", "empty", "publish"}

\* A message is not with the producer before it is handed over.
NotYetSent ==
    \A o \in Orders :
        /\ orderAt[o] \in Unpublished => <<o, 1>> \notin sending
        /\ orderAt[o] \in Unpublished \cup {"ack"} => copyAt[o] = "none"
        /\ copyAt[o] \in {"none", "send"} => <<o, 2>> \notin sending

WInv == Finite /\ Enough /\ NotYetSent

LEMMA AnswersInit == ShopInit => WInv
<1> SUFFICES ASSUME ShopInit PROVE WInv
  OBVIOUS
<1>1. WaitingOrders = {} /\ WaitingCopies = {} /\ sending = {}
  BY DEF ShopInit, Init, WaitingOrders, WaitingCopies
<1>2. IsFiniteSet({}) /\ Cardinality({}) = 0
  BY FS_EmptySet
<1>3. successes = 0 /\ errors = 0 /\ logged = 0
  BY DEF ShopInit, Init
<1>4. QED
  BY <1>1, <1>2, <1>3 DEF WInv, Finite, Enough, NotYetSent, ShopInit, Init

LEMMA Sizes ==
    ASSUME NEW X, IsFiniteSet(X), NEW x
    PROVE  /\ IsFiniteSet(X \cup {x}) /\ IsFiniteSet(X \ {x}) /\ Cardinality(X) \in Nat
           /\ x \notin X => Cardinality(X \cup {x}) = Cardinality(X) + 1
           /\ x \in X => Cardinality(X \ {x}) = Cardinality(X) - 1
<1>1. Cardinality(X) \in Nat
  BY FS_CardinalityType
<1>2. IsFiniteSet(X \cup {x}) /\ (x \notin X => Cardinality(X \cup {x}) = Cardinality(X) + 1)
  BY FS_AddElement
<1>3. IsFiniteSet(X \ {x}) /\ (x \in X => Cardinality(X \ {x}) = Cardinality(X) - 1)
  BY FS_RemoveElement
<1>4. QED
  BY <1>1, <1>2, <1>3

LEMMA AllNumbers ==
    ASSUME ShopTypeOK, Finite
    PROVE  /\ successes \in Nat /\ errors \in Nat /\ logged \in Nat
           /\ Cardinality(WaitingOrders) \in Nat /\ Cardinality(WaitingCopies) \in Nat
           /\ Cardinality(sending) \in Nat
BY FS_CardinalityType DEF ShopTypeOK, CheckoutTypeOK, Finite

LEMMA AnswersByOrder ==
    ASSUME ShopTypeOK, WInv, NEW c \in Orders, PlaceOrder(c)
    PROVE  WInv'
<1> USE DEF Goto
<1>0. /\ orderAt \in [Orders -> Unpublished \cup {"ack", "placed", "failed"}]
      /\ copyAt \in [Orders -> {"none", "send", "wait", "done"}]
  BY DEF ShopTypeOK, CheckoutTypeOK, Unpublished
<1>1. CASE Publish(c)
  <2>1. /\ orderAt[c] = "publish" /\ orderAt' = [orderAt EXCEPT ![c] = "ack"]
        /\ sending' = sending \cup {<<c, 1>>}
        /\ UNCHANGED <<copyAt, successes, errors, logged>>
    BY <1>1 DEF Publish
  <2>2. WaitingOrders' = WaitingOrders \cup {c} /\ c \notin WaitingOrders /\ WaitingCopies' = WaitingCopies
    BY <1>0, <2>1 DEF WaitingOrders, WaitingCopies
  <2>3. <<c, 1>> \notin sending
    BY <2>1 DEF WInv, NotYetSent, Unpublished
  <2>4. NotYetSent'
    <3>1. ASSUME NEW o \in Orders
          PROVE  <<o, 2>> # <<c, 1>> /\ (o # c => <<o, 1>> # <<c, 1>> /\ orderAt'[o] = orderAt[o])
      BY <1>0, <2>1
    <3>2. orderAt'[c] = "ack"
      BY <1>0, <2>1
    <3>3. QED
      BY <2>1, <3>1, <3>2 DEF WInv, NotYetSent, Unpublished
  <2>5. Enough' /\ Finite'
    <3>1. IsFiniteSet(WaitingOrders') /\ Cardinality(WaitingOrders') = Cardinality(WaitingOrders) + 1
      BY <2>2, Sizes DEF WInv, Finite
    <3>2. IsFiniteSet(sending') /\ Cardinality(sending') = Cardinality(sending) + 1
      BY <2>1, <2>3, Sizes DEF WInv, Finite
    <3>3. QED
      BY <2>1, <2>2, <3>1, <3>2, AllNumbers DEF WInv, Enough, Finite
  <2>6. QED
    BY <2>4, <2>5 DEF WInv
<1>2. CASE Answer(c)
  <2>1. /\ orderAt[c] = "ack" /\ orderAt' = [orderAt EXCEPT ![c] = "placed"]
        /\ sending' = sending /\ logged' = logged
        /\ \/ successes' = successes - 1 /\ errors' = errors
           \/ errors' = errors - 1 /\ successes' = successes
           \/ errors' = errors /\ successes' = successes
        /\ copyAt' \in {copyAt, [copyAt EXCEPT ![c] = "send"]}
    BY <1>2 DEF Answer
  <2>2. WaitingOrders' = WaitingOrders \ {c} /\ c \in WaitingOrders
    BY <1>0, <2>1 DEF WaitingOrders
  <2>3. WaitingCopies' = WaitingCopies
    BY <1>0, <2>1 DEF WaitingCopies, WInv, NotYetSent
  <2>4. NotYetSent'
    BY <1>0, <2>1 DEF WInv, NotYetSent, Unpublished
  <2>5. Enough' /\ Finite'
    <3>1. IsFiniteSet(WaitingOrders') /\ Cardinality(WaitingOrders') = Cardinality(WaitingOrders) - 1
      BY <2>2, Sizes DEF WInv, Finite
    <3>2. QED
      BY <2>1, <2>3, <3>1, AllNumbers DEF WInv, Enough, Finite
  <2>6. QED
    BY <2>4, <2>5 DEF WInv
<1>3. CASE ~Publish(c) /\ ~Answer(c)
  <2>1. UNCHANGED <<copyAt, sending, successes, errors, logged>>
    BY <1>3 DEF PlaceOrder, GetUserCart, Prepare, Fail, ChargeCard, ShipOrder, EmptyUserCart,
                EmptyFails, PublishNot, producerVars
  <2>2. /\ orderAt[c] \in Unpublished
        /\ \E to \in {"prepare", "charge", "ship", "empty", "publish", "placed", "failed"} :
               orderAt' = [orderAt EXCEPT ![c] = to]
    BY <1>3 DEF PlaceOrder, GetUserCart, Prepare, Fail, ChargeCard, ShipOrder, EmptyUserCart,
                EmptyFails, PublishNot, Unpublished
  <2>3. WaitingOrders' = WaitingOrders /\ WaitingCopies' = WaitingCopies
    BY <1>0, <2>1, <2>2 DEF WaitingOrders, WaitingCopies, Unpublished
  <2>4. NotYetSent'
    BY <1>0, <2>1, <2>2 DEF WInv, NotYetSent, Unpublished
  <2>5. QED
    BY <2>1, <2>3, <2>4 DEF WInv, Finite, Enough
<1>4. QED
  BY <1>1, <1>2, <1>3

LEMMA AnswersByKafka ==
    ASSUME ShopTypeOK, WInv, Kafka
    PROVE  WInv'
<1>0. /\ copyAt \in [Orders -> {"none", "send", "wait", "done"}]
      /\ sending \subseteq Orders \X {1, 2}
      /\ orderAt' = orderAt /\ WaitingOrders' = WaitingOrders
  BY DEF ShopTypeOK, CheckoutTypeOK, Kafka, WaitingOrders
<1>1. ASSUME NEW c \in Orders, CopySend(c)
      PROVE  WInv'
  <2>1. /\ WaitingCopies' = WaitingCopies \cup {c} /\ c \notin WaitingCopies
        /\ sending' = sending \cup {<<c, 2>>}
        /\ UNCHANGED <<successes, errors, logged>>
    BY <1>0, <1>1 DEF CopySend, WaitingCopies
  <2>2. <<c, 2>> \notin sending
    BY <1>1 DEF CopySend, WInv, NotYetSent, Unpublished
  <2>3. NotYetSent'
    BY <1>0, <1>1 DEF CopySend, WInv, NotYetSent, Unpublished
  <2>4. Enough' /\ Finite'
    <3>1. IsFiniteSet(WaitingCopies') /\ Cardinality(WaitingCopies') = Cardinality(WaitingCopies) + 1
      BY <2>1, Sizes DEF WInv, Finite
    <3>2. IsFiniteSet(sending') /\ Cardinality(sending') = Cardinality(sending) + 1
      BY <2>1, <2>2, Sizes DEF WInv, Finite
    <3>3. QED
      BY <1>0, <2>1, <3>1, <3>2, AllNumbers DEF WInv, Enough, Finite
  <2>5. QED
    BY <2>3, <2>4 DEF WInv
<1>2. ASSUME NEW c \in Orders, CopyAnswer(c)
      PROVE  WInv'
  <2>1. /\ WaitingCopies' = WaitingCopies \ {c} /\ c \in WaitingCopies
        /\ successes' = successes - 1 /\ UNCHANGED <<sending, errors, logged>>
    BY <1>0, <1>2 DEF CopyAnswer, WaitingCopies
  <2>2. NotYetSent'
    BY <1>0, <1>2 DEF CopyAnswer, WInv, NotYetSent
  <2>3. Enough' /\ Finite'
    <3>1. IsFiniteSet(WaitingCopies') /\ Cardinality(WaitingCopies') = Cardinality(WaitingCopies) - 1
      BY <2>1, Sizes DEF WInv, Finite
    <3>2. QED
      BY <1>0, <2>1, <3>1, AllNumbers DEF WInv, Enough, Finite
  <2>4. QED
    BY <2>2, <2>3 DEF WInv
<1>3. ASSUME NEW m \in sending, Deliver(m)
      PROVE  WInv'
  <2>1. /\ sending' = sending \ {m} /\ UNCHANGED <<logged, copyAt>>
        /\ \/ successes' = successes + 1 /\ errors' = errors
           \/ errors' = errors + 1 /\ successes' = successes
    BY <1>3 DEF Deliver
  <2>2. WaitingCopies' = WaitingCopies
    BY <2>1 DEF WaitingCopies
  <2>3. NotYetSent'
    BY <1>0, <2>1 DEF WInv, NotYetSent, Unpublished
  <2>4. Enough' /\ Finite'
    <3>1. IsFiniteSet(sending') /\ Cardinality(sending') = Cardinality(sending) - 1
      BY <2>1, Sizes DEF WInv, Finite
    <3>2. QED
      BY <1>0, <2>1, <2>2, <3>1, AllNumbers DEF WInv, Enough, Finite
  <2>5. QED
    BY <2>3, <2>4 DEF WInv
<1>4. CASE LogError
  <2>1. /\ errors' = errors - 1 /\ logged' = logged + 1
        /\ UNCHANGED <<sending, successes, copyAt>> /\ WaitingCopies' = WaitingCopies
    BY <1>4 DEF LogError, WaitingCopies
  <2>2. QED
    BY <1>0, <2>1, AllNumbers DEF WInv, Enough, Finite, NotYetSent
<1>5. QED
  BY <1>1, <1>2, <1>3, <1>4 DEF Kafka

LEMMA AnswersByCrash ==
    ASSUME ShopTypeOK, WInv, Crash
    PROVE  WInv'
<1>1. WaitingOrders' = {} /\ WaitingCopies' = {} /\ sending' = {}
  BY DEF Crash, WaitingOrders, WaitingCopies
<1>2. successes' = 0 /\ errors' = 0 /\ logged' = 0
  BY DEF Crash
<1>3. IsFiniteSet({}) /\ Cardinality({}) = 0
  BY FS_EmptySet
<1>4. NotYetSent'
  BY <1>1 DEF Crash, WInv, NotYetSent, Unpublished, ShopTypeOK, CheckoutTypeOK
<1>5. Finite' /\ Enough'
  BY <1>1, <1>2, <1>3 DEF Finite, Enough
<1>6. QED
  BY <1>4, <1>5 DEF WInv

(***************************************************************************)
(* Whoever waits for an answer of the producer has one to come, whichever  *)
(* he takes, but for the errors that the logger takes (main.go, lines      *)
(* 575-615; producer.go, lines 37-41).                                     *)
(***************************************************************************)
THEOREM AnswersSuffice == ShopSpec => []NobodyWaitsInVain
<1>1. ASSUME WInv, UNCHANGED <<orderAt, copyAt, sending, successes, errors, logged>>
      PROVE  WInv'
  <2>1. WaitingOrders' = WaitingOrders /\ WaitingCopies' = WaitingCopies
    BY <1>1 DEF WaitingOrders, WaitingCopies
  <2>2. QED
    BY <1>1, <2>1 DEF WInv, Finite, Enough, NotYetSent
<1>2. ShopTypeOK /\ WInv /\ [ShopNext]_shopVars => WInv'
  <2> SUFFICES ASSUME ShopTypeOK, WInv, [ShopNext]_shopVars PROVE WInv'
    OBVIOUS
  <2>1. CASE UNCHANGED shopVars \/ AccountStep \/ Expire \/ \E a \in Adds : Add(a)
    BY <1>1, <2>1 DEF shopVars, checkoutVars, sagaVars, producerVars, AccountStep, Expire, Add
  <2>2. QED
    BY <2>1, AnswersByOrder, AnswersByKafka, AnswersByCrash DEF ShopNext, CheckoutStep
<1>3. WInv => NobodyWaitsInVain
  BY DEF WInv, Enough, WaitingOrders, WaitingCopies, NobodyWaitsInVain
<1>4. QED
  BY <1>2, <1>3, AnswersInit, TypeCorrect, PTL DEF ShopSpec

-----------------------------------------------------------------------------
(* Induction over the quantities, from the least counterexample.           *)

LEMMA LeastOne ==
    ASSUME NEW T, T \subseteq Nat, T # {}
    PROVE  \E n \in T : \A m \in T : n <= m
<1>1. PICK n \in T : \A m \in T : ~ (<<m, n>> \in OpToRel(<, Nat))
  BY NatLessThanWellFounded, WFMin
<1>2. ASSUME NEW m \in T PROVE n <= m
  <2>1. m < n => <<m, n>> \in OpToRel(<, Nat)
    BY DEF OpToRel
  <2>2. ~ (m < n)
    BY <2>1, <1>1, Zenon
  <2>3. QED BY <2>2
<1>3. QED BY <1>2

LEMMA UpTo ==
    ASSUME NEW n \in Nat, NEW S, 1 \in S, \A k \in 1..n : k \in S /\ k < n => k + 1 \in S
    PROVE  1..n \subseteq S
<1>1. SUFFICES ASSUME (1..n) \ S # {} PROVE FALSE
  OBVIOUS
<1>2. PICK k \in (1..n) \ S : \A m \in (1..n) \ S : k <= m
  <2>1. (1..n) \ S \subseteq Nat
    OBVIOUS
  <2>2. QED BY <1>1, <2>1, LeastOne
<1>3. k # 1 /\ k \in 2..n
  BY <1>2
<1>4. k - 1 \in 1..n /\ k - 1 < n /\ ~(k <= k - 1) /\ k - 1 + 1 = k
  BY <1>3
<1>5. k - 1 \in S
  BY <1>2, <1>4
<1>6. QED BY <1>2, <1>4, <1>5

-----------------------------------------------------------------------------
(* Amounts (instance P).                                                   *)

\* Amounts that add up, and the one kind that Sum makes and then refuses.
Good == [units : Nat, nanos : 0..Mod - 1]
Refused == [units : {1}, nanos : 1 - Mod..-1]
Made == Good \cup Refused

LEMMA ModIsTenfold == Mod \in {10, 100, 1000, 10000, 100000, 1000000, 10000000, 100000000, 1000000000}
<1>1. PICK k \in 1..9 : Mod = 10^k
  BY PricingAssumption
<1>2. k \in {1, 2, 3, 4, 5, 6, 7, 8, 9}
  BY <1>1
<1>3. k = 1 => Mod = 10
  BY <1>1
<1>4. k = 2 => Mod = 100
  BY <1>1
<1>5. k = 3 => Mod = 1000
  BY <1>1
<1>6. k = 4 => Mod = 10000
  BY <1>1
<1>7. k = 5 => Mod = 100000
  BY <1>1
<1>8. k = 6 => Mod = 1000000
  BY <1>1
<1>9. k = 7 => Mod = 10000000
  BY <1>1
<1>10. k = 8 => Mod = 100000000
  BY <1>1
<1>11. k = 9 => Mod = 1000000000
  BY <1>1
<1>12. QED BY <1>2, <1>3, <1>4, <1>5, <1>6, <1>7, <1>8, <1>9, <1>10, <1>11

LEMMA ModIsPositive == Mod \in Nat /\ Mod >= 10
BY ModIsTenfold

LEMMA PanicIsNone == Panic \notin Made
BY ModIsPositive, PricingAssumption DEF Made, Good, Refused

LEMMA Spread == \A a, b, c \in Int : a * c \in Int /\ (a + b) * c = a * c + b * c /\ 1 * c = c
OBVIOUS

LEMMA ValueIsInt ==
    ASSUME NEW m \in Made
    PROVE  P!Value(m) \in Nat
<1>1. PICK a \in Nat, x \in Int : a = m.units /\ x = m.nanos /\ (x >= 0 \/ (a = 1 /\ x >= 1 - Mod))
  BY ModIsPositive DEF Made, Good, Refused
<1>2. a * Mod \in Nat /\ 1 * Mod = Mod
  BY ModIsPositive
<1>3. a * Mod + x \in Nat
  BY <1>1, <1>2, ModIsPositive
<1>4. QED BY <1>1, <1>3 DEF P!Value

LEMMA RefusedIsInvalid ==
    ASSUME NEW m \in Refused, NEW r
    PROVE  ~P!IsValid(m) /\ P!Sum(m, r) = Panic /\ P!Sum(r, m) = Panic
<1>1. m.units = 1 /\ m.nanos \in Int /\ m.nanos < 0
  BY ModIsPositive DEF Refused
<1>2. ~P!IsValid(m)
  BY <1>1 DEF P!IsValid
<1>3. QED BY <1>2 DEF P!Sum

LEMMA GoodIsValid ==
    ASSUME NEW m \in Good
    PROVE  P!IsValid(m)
<1>1. m.units \in Nat /\ m.nanos \in Int /\ 0 <= m.nanos /\ m.nanos < Mod
  BY ModIsPositive DEF Good
<1>2. QED BY <1>1, ModIsPositive DEF P!IsValid

(***************************************************************************)
(* Sum keeps the value; only of two amounts below a unit it may make one   *)
(* it refuses itself.                                                      *)
(***************************************************************************)
LEMMA SumOfGood ==
    ASSUME NEW l \in Good, NEW r \in Good
    PROVE  /\ P!Sum(l, r) \in Made
           /\ P!Value(P!Sum(l, r)) = P!Value(l) + P!Value(r)
           /\ l.units > 0 \/ r.units > 0 => P!Sum(l, r) \in Good /\ P!Sum(l, r).units > 0
<1>1. PICK a \in Nat, b \in Nat : a = l.units /\ b = r.units
  BY DEF Good
<1>2. PICK x \in 0..Mod - 1, y \in 0..Mod - 1 : x = l.nanos /\ y = r.nanos
  BY DEF Good
<1>3. P!IsValid(l) /\ P!IsValid(r)
  BY GoodIsValid
<1>4. P!Value(l) = a * Mod + x /\ P!Value(r) = b * Mod + y
  BY <1>1, <1>2 DEF P!Value
<1>5. Mod \in Nat /\ Mod >= 10
  BY ModIsPositive
<1>6. PICK c \in Int, d \in Int : c = a * Mod /\ d = b * Mod
  BY <1>5, Spread
<1>7. (a + b) * Mod = c + d /\ (a + b + 1) * Mod = c + d + Mod /\ 1 * Mod = Mod /\ 0 * Mod = 0
  BY <1>5, <1>6, Spread
<1>8. CASE a + b > 0 \/ x + y = 0
  <2>1. CASE x + y >= Mod
    <3>1. P!Sum(l, r) = [units |-> a + b + 1, nanos |-> x + y - Mod]
      BY <1>1, <1>2, <1>3, <1>5, <1>7, <1>8, <2>1 DEF P!Sum, P!Money
    <3>2. x + y - Mod \in 0..Mod - 1 /\ a + b + 1 \in Nat /\ a + b + 1 > 0
      BY <1>5, <2>1
    <3>3. P!Value(P!Sum(l, r)) = c + d + Mod + (x + y - Mod)
      BY <1>7, <3>1 DEF P!Value
    <3>4. P!Value(P!Sum(l, r)) = c + x + (d + y)
      BY <1>5, <3>3
    <3>5. QED BY <1>4, <1>6, <3>1, <3>2, <3>4 DEF Made, Good
  <2>2. CASE ~(x + y >= Mod)
    <3>1. P!Sum(l, r) = [units |-> a + b, nanos |-> x + y]
      BY <1>1, <1>2, <1>3, <1>5, <1>7, <1>8, <2>2 DEF P!Sum, P!Money
    <3>2. x + y \in 0..Mod - 1 /\ a + b \in Nat
      BY <1>5, <2>2
    <3>3. P!Value(P!Sum(l, r)) = c + d + (x + y)
      BY <1>7, <3>1 DEF P!Value
    <3>4. P!Value(P!Sum(l, r)) = c + x + (d + y)
      BY <1>5, <3>3
    <3>5. a > 0 \/ b > 0 => a + b > 0
      OBVIOUS
    <3>6. QED BY <1>1, <1>4, <1>6, <3>1, <3>2, <3>4, <3>5 DEF Made, Good
  <2>3. QED BY <2>1, <2>2
<1>9. CASE a + b = 0 /\ x + y > 0
  <2>1. P!Sum(l, r) = [units |-> 1, nanos |-> x + y - Mod]
    BY <1>1, <1>2, <1>3, <1>5, <1>9 DEF P!Sum, P!Money
  <2>2. a = 0 /\ b = 0 /\ 0 + x = x /\ 0 + y = y
    BY <1>9
  <2>3. P!Value(P!Sum(l, r)) = Mod + (x + y - Mod)
    BY <1>7, <2>1 DEF P!Value
  <2>4. c = 0 /\ d = 0
    BY <1>5, <1>6, <2>2
  <2>5. P!Value(P!Sum(l, r)) = c + x + (d + y)
    BY <1>5, <2>3, <2>4
  <2>6. x + y - Mod \in 0..Mod - 1 \/ x + y - Mod \in 1 - Mod..-1
    BY <1>5, <1>9
  <2>7. P!Sum(l, r) \in Made
    BY <2>1, <2>6 DEF Made, Good, Refused
  <2>8. ~(l.units > 0 \/ r.units > 0)
    BY <1>1, <2>2
  <2>9. QED BY <1>4, <1>6, <2>5, <2>7, <2>8
<1>10. a + b > 0 \/ x + y = 0 \/ (a + b = 0 /\ x + y > 0)
  OBVIOUS
<1>11. QED BY <1>8, <1>9, <1>10

-----------------------------------------------------------------------------
(* MultiplySlow.                                                           *)

\* One more addition of an amount.
Again(m, before) == IF before = Panic THEN Panic ELSE P!Sum(before, m)

\* The sums that MultiplySlow goes through exist.
LEMMA RunExists ==
    ASSUME NEW m, NEW n \in Nat
    PROVE  \E f : f = [k \in 1..n |-> IF k = 1 THEN m ELSE Again(m, f[k - 1])]
<1> DEFINE Runs(f, j) == f = [k \in 1..j |-> IF k = 1 THEN m ELSE Again(m, f[k - 1])]
           T == {j \in Nat : ~ \E f : Runs(f, j)}
<1>1. SUFFICES ASSUME n \in T PROVE FALSE
  OBVIOUS
<1>2. PICK j \in T : \A i \in T : j <= i
  BY <1>1, LeastOne
<1>3. j # 0
  <2>1. Runs([k \in 1..0 |-> m], 0)
    OBVIOUS
  <2>2. QED BY <1>2, <2>1
<1>4. j - 1 \in Nat /\ ~(j <= j - 1)
  BY <1>2, <1>3
<1>5. PICK f : Runs(f, j - 1)
  BY <1>2, <1>4
<1> DEFINE g == [k \in 1..j |-> IF k = 1 THEN m ELSE Again(m, f[k - 1])]
<1>6. \A k \in 1..j : k = 1 \/ (k - 1 \in 1..(j - 1) /\ k - 1 \in 1..j)
  BY <1>4
<1>7. \A k \in 1..(j - 1) : g[k] = f[k]
  <2> SUFFICES ASSUME NEW k \in 1..(j - 1) PROVE g[k] = f[k]
    OBVIOUS
  <2>1. k \in 1..j
    BY <1>4
  <2>2. f[k] = IF k = 1 THEN m ELSE Again(m, f[k - 1])
    BY <1>5
  <2>3. QED BY <2>1, <2>2
<1>8. \A k \in 1..j : (IF k = 1 THEN m ELSE Again(m, f[k - 1])) = (IF k = 1 THEN m ELSE Again(m, g[k - 1]))
  <2> SUFFICES ASSUME NEW k \in 1..j, k # 1 PROVE Again(m, f[k - 1]) = Again(m, g[k - 1])
    OBVIOUS
  <2>1. f[k - 1] = g[k - 1]
    BY <1>6, <1>7
  <2>2. QED BY <2>1
<1>9. Runs(g, j)
  <2> HIDE DEF g
  <2>1. g = [k \in 1..j |-> IF k = 1 THEN m ELSE Again(m, f[k - 1])]
    BY DEF g
  <2>2. QED BY <2>1, <1>8
<1>10. QED BY <1>2, <1>9

LEMMA TimesRuns ==
    ASSUME NEW m, NEW n \in Nat
    PROVE  IF n = 0 THEN P!Times(m, n) = m
           ELSE \E f : /\ P!Times(m, n) = f[n] /\ f[1] = m
                       /\ \A k \in 1..n : k < n => f[k + 1] = Again(m, f[k])
<1>1. CASE n = 0
  BY <1>1 DEF P!Times
<1>2. CASE n # 0
  <2> DEFINE f == CHOOSE f : f = [k \in 1..n |-> IF k = 1 THEN m
                                                 ELSE IF f[k - 1] = Panic THEN Panic ELSE P!Sum(f[k - 1], m)]
  <2>1. P!Times(m, n) = f[n]
    BY <1>2 DEF P!Times
  <2>2. f = [k \in 1..n |-> IF k = 1 THEN m
                            ELSE IF f[k - 1] = Panic THEN Panic ELSE P!Sum(f[k - 1], m)]
    BY RunExists DEF Again
  <2> HIDE DEF f
  <2>3. f[1] = m
    BY <1>2, <2>2
  <2>4. ASSUME NEW k \in 1..n, k < n PROVE f[k + 1] = Again(m, f[k])
    <3>1. k + 1 \in 1..n /\ k + 1 # 1 /\ k + 1 - 1 = k
      BY <2>4
    <3>2. f[k + 1] = IF f[k] = Panic THEN Panic ELSE P!Sum(f[k], m)
      BY <2>2, <3>1
    <3>3. QED BY <3>2 DEF Again
  <2>5. QED BY <1>2, <2>1, <2>3, <2>4
<1>3. QED BY <1>1, <1>2

(***************************************************************************)
(* A multiple has the value it should; only a multiple of an amount below  *)
(* a unit may be refused, or end the process on the way.                   *)
(***************************************************************************)
LEMMA TimesOfGood ==
    ASSUME NEW m \in Good, NEW n \in Nat
    PROVE  LET t == P!Times(m, n)
           IN  /\ t \in Made \cup {Panic}
               /\ t # Panic => P!Value(t) = (IF n = 0 THEN 1 ELSE n) * P!Value(m)
               /\ m.units > 0 => t \in Good /\ t.units > 0
               /\ n <= 1 => t = m
<1>1. PICK v \in Nat : v = P!Value(m)
  BY ValueIsInt DEF Made
<1>2. m \in Made /\ m # Panic
  BY PanicIsNone DEF Made
<1>3. 1 * v = v
  OBVIOUS
<1>4. CASE n = 0
  <2>1. P!Times(m, n) = m
    BY <1>4, TimesRuns
  <2>2. QED BY <1>1, <1>2, <1>3, <1>4, <2>1
<1>5. CASE n # 0
  <2>1. PICK f : /\ P!Times(m, n) = f[n] /\ f[1] = m
                 /\ \A k \in 1..n : k < n => f[k + 1] = Again(m, f[k])
    BY <1>5, TimesRuns
  <2> DEFINE S == {k \in 1..n : /\ f[k] \in Made \cup {Panic}
                                /\ f[k] # Panic => P!Value(f[k]) = k * v
                                /\ m.units > 0 => f[k] \in Good /\ f[k].units > 0}
  <2>2. 1 \in S
    BY <1>1, <1>2, <1>3, <1>5, <2>1
  <2>3. ASSUME NEW k \in 1..n, k \in S, k < n PROVE k + 1 \in S
    <3>1. PICK b : b = f[k]
      OBVIOUS
    <3>2. /\ b \in Made \cup {Panic} /\ (b # Panic => P!Value(b) = k * v)
          /\ m.units > 0 => b \in Good /\ b.units > 0
      BY <2>3, <3>1
    <3>3. f[k + 1] = Again(m, b) /\ k + 1 \in 1..n
      BY <2>1, <2>3, <3>1
    <3>4. CASE b \in Good
      <4>1. Again(m, b) = P!Sum(b, m)
        BY <3>4, PanicIsNone DEF Again, Made
      <4>2. /\ P!Sum(b, m) \in Made /\ P!Value(P!Sum(b, m)) = P!Value(b) + v
            /\ m.units > 0 => P!Sum(b, m) \in Good /\ P!Sum(b, m).units > 0
        BY <1>1, <3>4, SumOfGood
      <4>3. b # Panic
        BY <3>4, PanicIsNone DEF Made
      <4>4. k * v + v = (k + 1) * v
        BY <1>3, Spread
      <4>5. QED BY <3>2, <3>3, <4>1, <4>2, <4>3, <4>4
    <3>5. CASE b \in Refused
      <4>1. Again(m, b) = Panic
        BY <3>5, RefusedIsInvalid DEF Again
      <4>2. ~(m.units > 0)
        BY <3>2, <3>5, RefusedIsInvalid, GoodIsValid
      <4>3. QED BY <3>3, <4>1, <4>2
    <3>6. CASE b = Panic
      <4>1. Again(m, b) = Panic
        BY <3>6 DEF Again
      <4>2. ~(m.units > 0)
        BY <3>2, <3>6, PanicIsNone DEF Made
      <4>3. QED BY <3>3, <4>1, <4>2
    <3>7. QED BY <3>2, <3>4, <3>5, <3>6 DEF Made
  <2> HIDE DEF S
  <2>4. 1..n \subseteq S
    BY <2>2, <2>3, UpTo
  <2>5. n \in S
    BY <1>5, <2>4
  <2>6. n <= 1 => n = 1
    BY <1>5
  <2>7. QED BY <1>1, <1>5, <2>1, <2>5, <2>6 DEF S
<1>6. QED BY <1>4, <1>5

-----------------------------------------------------------------------------
(* The currency service.                                                   *)

Tens == {1, 10, 100, 1000, 10000, 100000, 1000000, 10000000, 100000000, 1000000000}

LEMMA PowersOfTen ==
    /\ \A p : \A k \in 0..9 : p = 10^k => p \in Tens
    /\ \A p \in Tens : \E k \in 0..9 : p = 10^k
<1>1. \A k \in 0..9 : k \in {0, 1, 2, 3, 4, 5, 6, 7, 8, 9}
  OBVIOUS
<1>2. 10^0 = 1 /\ 10^1 = 10 /\ 10^2 = 100 /\ 10^3 = 1000 /\ 10^4 = 10000
  BY SMT
<1>3. /\ 10^5 = 100000 /\ 10^6 = 1000000 /\ 10^7 = 10000000 /\ 10^8 = 100000000 /\ 10^9 = 1000000000
  BY SMT
<1>4. ASSUME NEW k \in 0..9, NEW p, p = 10^k PROVE p \in Tens
  <2>0. k = 0 => p = 1
    BY <1>4, SMT
  <2>1. k = 1 => p = 10
    BY <1>4, SMT
  <2>2. k = 2 => p = 100
    BY <1>4, SMT
  <2>3. k = 3 => p = 1000
    BY <1>4, SMT
  <2>4. k = 4 => p = 10000
    BY <1>4, SMT
  <2>5. k = 5 => p = 100000
    BY <1>4, SMT
  <2>6. k = 6 => p = 1000000
    BY <1>4, SMT
  <2>7. k = 7 => p = 10000000
    BY <1>4, SMT
  <2>8. k = 8 => p = 100000000
    BY <1>4, SMT
  <2>9. k = 9 => p = 1000000000
    BY <1>4, SMT
  <2>10. QED BY <1>1, <2>0, <2>1, <2>2, <2>3, <2>4, <2>5, <2>6, <2>7, <2>8, <2>9, SMT DEF Tens
<1>5. ASSUME NEW p \in Tens PROVE \E k \in 0..9 : p = 10^k
  BY <1>2, <1>3, SMT DEF Tens
<1>6. QED BY <1>4, <1>5

(***************************************************************************)
(* The digits read are those of the nanos from the first that is not 0, so *)
(* they are right where that is the first of all.                          *)
(***************************************************************************)
LEMMA DecimalOfNanos ==
    ASSUME NEW x \in 0..Mod - 1
    PROVE  /\ P!Decimal(x) \in 0..Mod - 1
           /\ x > 0 => P!Decimal(x) > 0
           /\ x = 0 => P!Decimal(x) = 0
           /\ x * 10 >= Mod => P!Decimal(x) = x
<1> DEFINE OverX(p) == /\ p > x /\ \E k \in 0..9 : p = 10^k
                       /\ \A k \in 0..9 : 10^k > x => p <= 10^k
<1>1. Mod \in Nat /\ Mod >= 10 /\ Mod \in Tens
  BY ModIsTenfold DEF Tens
<1>2. \E p \in 1..Mod : OverX(p)
  <2> DEFINE T == {p \in Tens : p > x}
  <2>1. T \subseteq Nat /\ Mod \in T
    BY <1>1 DEF Tens
  <2>2. PICK p \in T : \A q \in T : p <= q
    BY <2>1, LeastOne
  <2>3. p \in 1..Mod /\ p > x
    BY <1>1, <2>1, <2>2
  <2>4. \E k \in 0..9 : p = 10^k
    BY <2>2, PowersOfTen
  <2>5. ASSUME NEW k \in 0..9, 10^k > x PROVE p <= 10^k
    <3>1. 10^k \in T
      BY <2>5, PowersOfTen
    <3>2. QED BY <2>2, <3>1
  <2>6. QED BY <2>3, <2>4, <2>5
<1> DEFINE power == CHOOSE p \in 1..Mod : OverX(p)
<1>3. power \in 1..Mod /\ OverX(power)
  BY <1>2
<1>4. P!Decimal(x) = x * (Mod \div power)
  BY DEF P!Decimal
<1>5. PICK p \in 1..Mod : p = power
  BY <1>3
<1>6. p > x /\ p \in Tens
  <2>1. \E k \in 0..9 : p = 10^k
    BY <1>3, <1>5
  <2>2. QED BY <1>3, <1>5, <2>1, PowersOfTen
<1> HIDE DEF power
<1>7. PICK q \in Int : q = Mod \div p
  BY <1>1
<1>8. q >= 1 /\ p * q <= Mod
  BY <1>1, <1>7
<1>9. PICK d \in Int : d = x * q
  BY <1>7
<1>10. x > 0 => d > 0
  BY <1>8, <1>9
<1>11. d >= 0 /\ d <= Mod - 1
  <2>1. (p - 1) * q = p * q - q
    OBVIOUS
  <2>2. x <= p - 1 /\ x \in Nat
    BY <1>6
  <2>3. x * q <= (p - 1) * q
    BY <1>8, <2>2
  <2>4. x * q >= 0
    BY <1>8
  <2>5. PICK e \in Int : e = p * q
    OBVIOUS
  <2>6. d <= e - q
    BY <1>9, <2>1, <2>3, <2>5
  <2>7. e <= Mod
    BY <1>8, <2>5
  <2>8. QED BY <1>1, <1>8, <1>9, <2>4, <2>6, <2>7
<1>12. x = 0 => d = 0
  BY <1>9
<1>13. ASSUME x * 10 >= Mod PROVE d = x
  <2>1. p * 10 > Mod
    BY <1>1, <1>6, <1>13
  <2>2. p = Mod
    BY <1>1, <1>6, <2>1 DEF Tens
  <2>3. q = 1
    BY <1>1, <1>7, <2>2
  <2>4. QED BY <1>9, <2>3
<1>14. P!Decimal(x) = d
  BY <1>4, <1>5, <1>7, <1>9
<1>15. QED BY <1>1, <1>10, <1>11, <1>12, <1>13, <1>14

LEMMA Grows == \A x, y, z \in Nat : x <= y => x * z <= y * z
<1> SUFFICES ASSUME NEW x \in Nat, NEW y \in Nat, NEW z \in Nat, x <= y PROVE x * z <= y * z
  OBVIOUS
<1>1. PICK k \in Nat : y = x + k
  BY y - x \in Nat
<1>2. y * z = x * z + k * z /\ k * z \in Nat /\ x * z \in Nat
  BY <1>1
<1>3. QED BY <1>2

\* How far a converted amount is from the one in the catalogue at the rate.
Scale == Dollar * Precision

Near(cost, asked, lost) ==
    /\ cost * Scale <= asked * (Precision + 1)
    /\ asked * (Precision - 1) <= (cost + lost) * Scale

LEMMA ScaleIsPositive == Scale \in Nat /\ Scale >= 1
<1>1. Dollar \in Nat \ {0} /\ Precision \in Nat \ {0}
  BY PricingAssumption
<1>2. \A x, y \in Nat \ {0} : x * y \in Nat /\ x * y >= 1
  OBVIOUS
<1>3. QED BY <1>1, <1>2 DEF Scale

LEMMA LeadingZero ==
    ASSUME NEW p \in Good
    PROVE  /\ P!Read(p) \in Nat
           /\ ~(0 < p.nanos /\ p.nanos * 10 < Mod) => P!Read(p) = P!Value(p)
<1>1. PICK a \in Nat, x \in 0..Mod - 1 : a = p.units /\ x = p.nanos
  BY DEF Good
<1>2. PICK d \in 0..Mod - 1 : d = P!Decimal(x)
  BY DecimalOfNanos
<1>3. PICK e \in Nat : e = a * Mod
  BY ModIsPositive
<1>4. P!Read(p) = e + d /\ P!Value(p) = e + x
  BY <1>1, <1>2, <1>3 DEF P!Read, P!Value
<1>5. ~(0 < x /\ x * 10 < Mod) => d = x
  BY <1>2, DecimalOfNanos, ModIsPositive
<1>6. QED BY <1>1, <1>4, <1>5, ModIsPositive

LEMMA QuotientBounds ==
    ASSUME NEW n \in Nat, NEW s \in Nat, s >= 1
    PROVE  /\ n \div s \in Nat
           /\ (n \div s) * s <= n
           /\ n <= (n \div s + 1) * s
<1>1. PICK q \in Int : q = n \div s
  BY n \div s \in Int
<1>2. q \in Nat /\ s * q <= n /\ n < s * q + s
  BY <1>1
<1>3. q * s = s * q /\ (q + 1) * s = s * q + s
  BY <1>2
<1>4. QED BY <1>1, <1>2, <1>3

LEMMA ConvertOfGood ==
    ASSUME NEW p \in Good, rate \in Nat, NEW c \in P!Convert(p)
    PROVE  /\ c \in Good
           /\ ~(0 < p.nanos /\ p.nanos * 10 < Mod) => Near(P!Value(c), P!Value(p) * rate, 1)
<1>1. PICK v \in Nat : v = P!Read(p) * rate
  BY LeadingZero
<1>2. /\ Scale \in Nat /\ Scale >= 1 /\ Mod \in Nat /\ Mod >= 10
      /\ Precision - 1 \in Nat /\ Precision + 1 \in Nat
  BY ScaleIsPositive, ModIsPositive, PricingAssumption
<1>3. PICK low \in Nat : low = v * (Precision - 1)
  BY <1>2
<1>4. PICK high \in Nat : high = v * (Precision + 1)
  BY <1>2
<1>5. PICK w \in (low \div Scale)..(high \div Scale) : c = [units |-> w \div Mod, nanos |-> w % Mod]
  BY <1>1, <1>3, <1>4 DEF P!Convert, P!Money, Scale
<1>6. /\ low \div Scale \in Nat /\ low <= (low \div Scale + 1) * Scale
      /\ high \div Scale \in Nat /\ (high \div Scale) * Scale <= high
  BY <1>2, QuotientBounds
<1>7. w \in Nat /\ low \div Scale <= w /\ w <= high \div Scale
  BY <1>5, <1>6
<1>8. w \div Mod \in Nat /\ w % Mod \in 0..Mod - 1 /\ w = Mod * (w \div Mod) + (w % Mod)
  BY <1>2, <1>7
<1>9. P!Value(c) = w
  BY <1>2, <1>5, <1>8 DEF P!Value
<1>10. c \in Good
  BY <1>5, <1>8 DEF Good
<1>11. w * Scale <= high
  <2>1. w * Scale <= (high \div Scale) * Scale
    BY <1>2, <1>6, <1>7, Grows
  <2>2. QED BY <1>2, <1>6, <1>7, <2>1
<1>12. low <= (w + 1) * Scale
  <2>1. (low \div Scale + 1) * Scale <= (w + 1) * Scale
    BY <1>2, <1>6, <1>7, Grows
  <2>2. QED BY <1>2, <1>6, <1>7, <2>1
<1>13. ASSUME ~(0 < p.nanos /\ p.nanos * 10 < Mod)
       PROVE  Near(P!Value(c), P!Value(p) * rate, 1)
  <2>1. P!Value(p) * rate = v
    BY <1>1, <1>13, LeadingZero
  <2>2. QED BY <1>3, <1>4, <1>9, <1>11, <1>12, <2>1 DEF Near
<1>14. QED BY <1>10, <1>13

\* Amounts near those asked, each as often as the other, add up to such ones.
LEMMA NearAddsUp ==
    ASSUME NEW e \in Nat, NEW d \in Nat, NEW l \in Nat, Near(e, d, l),
           NEW c \in Nat, NEW p \in Nat, Near(c, p, 1), NEW k \in Nat
    PROVE  Near(e + k * c, d + k * p, l + k)
<1>1. PICK s \in Nat, u \in Nat, v \in Nat : s = Scale /\ u = Precision + 1 /\ v = Precision - 1
  BY ScaleIsPositive, PricingAssumption
<1>2. /\ e * s <= d * u /\ d * v <= (e + l) * s
      /\ c * s <= p * u /\ p * v <= (c + 1) * s
  BY <1>1 DEF Near
<1>3. k * (c * s) <= k * (p * u) /\ k * (p * v) <= k * ((c + 1) * s)
  <2>1. /\ c * s \in Nat /\ p * u \in Nat /\ p * v \in Nat /\ (c + 1) * s \in Nat
    OBVIOUS
  <2>2. \A x, y \in Nat : x <= y => x * k <= y * k
    BY Grows
  <2>3. \A x \in Nat : x * k = k * x
    OBVIOUS
  <2>4. QED BY <1>2, <2>1, <2>2, <2>3
<1>4. /\ (e + k * c) * s = e * s + k * (c * s)
      /\ (d + k * p) * u = d * u + k * (p * u)
      /\ (d + k * p) * v = d * v + k * (p * v)
      /\ ((e + k * c) + (l + k)) * s = (e + l) * s + k * ((c + 1) * s)
  OBVIOUS
<1>5. /\ e * s \in Nat /\ d * u \in Nat /\ d * v \in Nat /\ (e + l) * s \in Nat
      /\ k * (c * s) \in Nat /\ k * (p * u) \in Nat /\ k * (p * v) \in Nat /\ k * ((c + 1) * s) \in Nat
  OBVIOUS
<1>6. /\ (e + k * c) * s <= (d + k * p) * u
      /\ (d + k * p) * v <= ((e + k * c) + (l + k)) * s
  BY <1>2, <1>3, <1>4, <1>5
<1>7. QED BY <1>1, <1>6 DEF Near

-----------------------------------------------------------------------------
(* Orders.                                                                 *)

PricesInv ==
    /\ total \in Made \cup {Panic}
    /\ rate \in Rates /\ costs \in 0..MaxCosts
    /\ {exact, due, amounts} \subseteq Nat /\ {small, leading} \subseteq BOOLEAN
    /\ P!SumExact
    /\ ~small => total \in Good
    /\ ~leading => Near(exact, due, amounts)

LEMMA InitPrices == P!Init => PricesInv
<1> SUFFICES ASSUME P!Init PROVE PricesInv
  OBVIOUS
<1>1. /\ total = [units |-> 0, nanos |-> 0] /\ rate \in Rates
      /\ costs = 0 /\ exact = 0 /\ due = 0 /\ amounts = 0
  BY DEF P!Init, P!Money
<1>2. small = FALSE /\ leading = FALSE
  BY DEF P!Init
<1>3. Mod \in Nat /\ Mod >= 10 /\ MaxCosts \in Nat
  BY ModIsPositive, PricingAssumption
<1>4. total \in Good
  BY <1>1, <1>3 DEF Good
<1>5. 0 * Mod = 0
  BY <1>3
<1>6. P!Value(total) = 0
  BY <1>1, <1>5 DEF P!Value
<1>7. Near(0, 0, 0)
  <2>1. Precision - 1 \in Int /\ Precision + 1 \in Int /\ Scale \in Int
    BY PricingAssumption, ScaleIsPositive
  <2>2. QED BY <2>1 DEF Near
<1>8. {small, leading} \subseteq BOOLEAN
  BY <1>2, Zenon
<1>9. {exact, due, amounts} \subseteq Nat /\ costs \in 0..MaxCosts
  BY <1>1, <1>3
<1>10. QED BY <1>1, <1>4, <1>6, <1>7, <1>8, <1>9 DEF PricesInv, P!SumExact, Made

LEMMA NextPrices ==
    ASSUME PricesInv, [P!Next]_(P!priceVars)
    PROVE  PricesInv'
<1>1. CASE UNCHANGED P!priceVars
  BY <1>1 DEF P!priceVars, PricesInv, P!SumExact, P!Value
<1>2. ASSUME NEW p \in Prices, NEW n \in Quantities, NEW c \in P!Convert(p), P!Add(p, c, n)
      PROVE  PricesInv'
  <2>1. n \in Nat /\ p \in Good
    BY PricingAssumption, ModIsPositive DEF Good
  <2>2. /\ c \in Good
        /\ ~(0 < p.nanos /\ p.nanos * 10 < Mod) => Near(P!Value(c), P!Value(p) * rate, 1)
    <3>1. rate \in Nat
      BY PricingAssumption DEF PricesInv
    <3>2. QED BY <1>2, <2>1, <3>1, ConvertOfGood
  <2>3. PICK t : t = P!Times(c, n)
    OBVIOUS
  <2>4. PICK k \in Nat : k = IF n = 0 THEN 1 ELSE n
    BY <2>1
  <2>5. PICK v \in Nat : v = P!Value(c)
    BY <2>2, ValueIsInt DEF Made
  <2>6. PICK w \in Nat : w = k * v
    OBVIOUS
  <2>7. /\ t \in Made \cup {Panic}
        /\ t # Panic => P!Value(t) = w
        /\ c.units > 0 => t \in Good /\ t.units > 0
        /\ n <= 1 => t = c
    BY <2>1, <2>2, <2>3, <2>4, <2>5, <2>6, TimesOfGood
  <2>8. /\ total # Panic /\ costs < MaxCosts /\ costs' = costs + 1
        /\ total' = IF t = Panic THEN Panic ELSE P!Sum(total, t)
        /\ exact' = exact + (IF n = 0 THEN 1 ELSE n) * P!Value(c)
    BY <1>2, <2>3 DEF P!Add
  <2>9. exact' = exact + w
    BY <2>4, <2>5, <2>6, <2>8
  <2>10. small' <=> (small \/ (c.units = 0 /\ (n > 1 \/ exact < Mod)))
    BY <1>2 DEF P!Add
  <2>11. total \in Made /\ P!Value(total) = exact /\ exact \in Nat /\ due \in Nat /\ amounts \in Nat
    BY <2>8 DEF PricesInv, P!SumExact
  <2>12. ASSUME total \in Good, t \in Good
         PROVE  /\ total' \in Made
                /\ P!Value(total') = exact'
                /\ ~small' => total' \in Good
    <3>1. /\ P!Sum(total, t) \in Made
          /\ P!Value(P!Sum(total, t)) = P!Value(total) + P!Value(t)
          /\ total.units > 0 \/ t.units > 0 => P!Sum(total, t) \in Good
      BY <2>12, SumOfGood
    <3>2. t # Panic
      BY <2>12, PanicIsNone DEF Made
    <3>3. total' = P!Sum(total, t)
      BY <2>8, <3>2
    <3>4. total' \in Made /\ P!Value(total') = exact'
      BY <2>7, <2>9, <2>11, <3>1, <3>2, <3>3
    <3>5. ~small' => total' \in Good
      <4> SUFFICES ASSUME ~small' PROVE total' \in Good
        OBVIOUS
      <4>1. CASE c.units > 0
        BY <2>7, <3>1, <3>3, <4>1
      <4>2. CASE ~(c.units > 0)
        <5>1. c.units = 0
          BY <2>2, <4>2 DEF Good
        <5>2. ~(exact < Mod)
          BY <2>10, <5>1
        <5>3. total.units > 0
          <6>1. PICK a \in Nat, x \in 0..Mod - 1 : a = total.units /\ x = total.nanos
            BY <2>12 DEF Good
          <6>2. a = 0 => P!Value(total) = x
            <7>1. 0 * Mod = 0
              BY ModIsPositive
            <7>2. QED BY <6>1, <7>1 DEF P!Value
          <6>3. a # 0
            BY <2>11, <5>2, <6>1, <6>2, ModIsPositive
          <6>4. QED BY <6>1, <6>3
        <5>4. QED BY <3>1, <3>3, <5>3
      <4>3. QED BY <4>1, <4>2
    <3>6. QED BY <3>4, <3>5
  <2>13. ASSUME ~(total \in Good /\ t \in Good)
         PROVE  total' = Panic /\ small'
    <3>1. total' = Panic
      <4>1. t \in Refused => P!Sum(total, t) = Panic
        BY RefusedIsInvalid
      <4>2. total \in Refused => P!Sum(total, t) = Panic
        BY RefusedIsInvalid
      <4>3. QED BY <2>7, <2>8, <2>11, <2>13, <4>1, <4>2 DEF Made
    <3>2. small'
      <4> SUFFICES ASSUME ~small' PROVE FALSE
        OBVIOUS
      <4>1. total \in Good /\ ~(c.units = 0 /\ n > 1)
        BY <2>10 DEF PricesInv
      <4>2. c.units \in Nat
        BY <2>2 DEF Good
      <4>3. t \in Good
        BY <2>1, <2>2, <2>7, <4>1, <4>2
      <4>4. QED BY <2>13, <4>1, <4>3
    <3>3. QED BY <3>1, <3>2
  <2>14. /\ total' \in Made \cup {Panic}
         /\ total' # Panic => P!Value(total') = exact'
         /\ ~small' => total' \in Good
    BY <2>12, <2>13
  <2>15. {small', leading'} \subseteq BOOLEAN
    BY <1>2, Zenon DEF P!Add, PricesInv
  <2>16. costs' \in 0..MaxCosts /\ exact' \in Nat
    BY <2>8, <2>9, <2>11, PricingAssumption DEF PricesInv
  <2>17. P!SumExact'
    BY <2>14 DEF P!SumExact, P!Value
  <2>18. PICK asked \in Nat : asked = P!Value(p) * rate
    <3>1. P!Value(p) \in Nat /\ rate \in Nat
      BY <2>1, ValueIsInt, PricingAssumption DEF PricesInv, Made
    <3>2. QED BY <3>1
  <2>19. due' = due + k * asked /\ amounts' = amounts + k /\ rate' = rate
    BY <1>2, <2>4, <2>18 DEF P!Add
  <2>20. due' \in Nat /\ amounts' \in Nat /\ rate' \in Rates
    <3>1. k * asked \in Nat
      BY <2>4, <2>18
    <3>2. QED BY <2>11, <2>19, <3>1 DEF PricesInv
  <2>21. ~leading' => Near(exact', due', amounts')
    <3>1. leading' <=> (leading \/ (0 < p.nanos /\ p.nanos * 10 < Mod))
      BY <1>2 DEF P!Add
    <3>2. SUFFICES ASSUME ~leading, ~(0 < p.nanos /\ p.nanos * 10 < Mod)
                   PROVE  Near(exact', due', amounts')
      BY <3>1
    <3>3. Near(exact, due, amounts)
      BY <3>2 DEF PricesInv
    <3>4. Near(v, asked, 1)
      BY <2>2, <2>5, <2>18, <3>2
    <3>5. Near(exact + k * v, due + k * asked, amounts + k)
      BY <2>4, <2>5, <2>11, <2>18, <3>3, <3>4, NearAddsUp
    <3>6. QED BY <2>6, <2>9, <2>19, <3>5
  <2>22. {exact', due', amounts'} \subseteq Nat
    BY <2>16, <2>20
  <2>23. QED BY <2>14, <2>15, <2>16, <2>17, <2>20, <2>21, <2>22 DEF PricesInv, Near
<1>3. QED BY <1>1, <1>2 DEF P!Next

LEMMA PricesAreSound ==
    ASSUME PricesInv
    PROVE  PricesSound
<1>1. P!PriceTypeOK
  <2>1. \A m \in Made : m \in [units : Int, nanos : (1 - Mod)..(Mod - 1)]
    BY ModIsPositive DEF Made, Good, Refused
  <2>2. QED BY <2>1, Zenon DEF PricesInv, P!PriceTypeOK
<1>2. P!PanicNeedsSmall
  <2>1. ~small => total # Panic /\ P!IsValid(total)
    BY PanicIsNone, GoodIsValid DEF PricesInv, Made
  <2>2. QED BY <2>1 DEF P!PanicNeedsSmall
<1>3. P!ChargedAtTheRate
  BY DEF PricesInv, P!ChargedAtTheRate, P!SumExact, Near, Scale
<1>4. QED BY <1>1, <1>2, <1>3 DEF PricesInv, PricesSound, P!PricesSound

(***************************************************************************)
(* Whatever an order converts and adds up comes out right, but for amounts *)
(* below a unit that meet and nanos with a leading zero: for any prices,   *)
(* rates, quantities, precision of the doubles and number of items, and    *)
(* nanos of one digit to nine (money.go, lines 69-120; server.cpp, lines   *)
(* 144-203).                                                               *)
(***************************************************************************)
THEOREM Priced == MCSpec => []PricesSound
<1>1. MCInit => PricesInv
  BY InitPrices DEF MCInit
<1>2. ASSUME PricesInv, [MCNext]_<<shopVars, pricingVars, part>>
      PROVE  PricesInv'
  <2>1. P!Next \/ UNCHANGED P!priceVars
    BY <1>2 DEF MCNext, pricingVars, P!priceVars
  <2>2. QED BY <1>2, <2>1, NextPrices
<1>3. PricesInv => PricesSound
  BY PricesAreSound
<1>4. QED BY <1>1, <1>2, <1>3, PTL DEF MCSpec

=============================================================================
