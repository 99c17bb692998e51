------------------------------- MODULE Checkout -------------------------------
(***************************************************************************)
(* lesson_11, the checkout service: PlaceOrder reads the cart, prices the  *)
(* order, charges the card, ships, empties the cart, confirms by mail and  *)
(* hands the order to Kafka.  Each of these is a call to another process;  *)
(* none is undone when a later one fails.  All orders share the producer   *)
(* and its two channels of answers.  The orders are one user's.            *)
(***************************************************************************)
EXTENDS CartStore, Sequences

CONSTANT Orders    \* calls of PlaceOrder; a client that tries again makes another

VARIABLES
    orderAt,    \* where each PlaceOrder is
    items,      \* the cart it has read
    charged,    \* orders the payment service has charged
    shipped,    \* orders the shipping service has shipped
    cleared,    \* orders that have emptied the cart
    copyAt,     \* the goroutine that sends the order again
    sending,    \* <<order, number>>: messages the producer holds
    successes, errors,  \* the producer's two channels
    logged,     \* history: errors the producer's logger has taken
    topic,      \* the messages of the topic
    kafka,      \* KAFKA_ADDR is set
    alone       \* history: calls that have met no other on this cart

sagaVars == <<orderAt, items, charged, shipped, cleared, copyAt>>
producerVars == <<sending, successes, errors, logged, topic, kafka>>
checkoutVars == <<cartVars, sagaVars, producerVars, alone>>

Init ==
    /\ CartInit
    /\ orderAt = [o \in Orders |-> "idle"]
    /\ items = [o \in Orders |-> {}]
    /\ charged = {} /\ shipped = {} /\ cleared = {}
    /\ copyAt = [o \in Orders |-> "none"]
    /\ sending = {} /\ successes = 0 /\ errors = 0 /\ logged = 0
    /\ topic = <<>> /\ kafka \in BOOLEAN
    /\ alone = Adds \cup Orders

\* Between the first and the last step that touches the cart.
Ordering == {o \in Orders : orderAt[o] \in {"prepare", "charge", "ship", "empty"}}

\* A call on the cart begins.
Begins(c) ==
    alone' = IF Adding \cup Ordering = {} THEN alone ELSE alone \ ({c} \cup Adding \cup Ordering)

Goto(o, from, to) ==
    /\ orderAt[o] = from
    /\ orderAt' = [orderAt EXCEPT ![o] = to]

-----------------------------------------------------------------------------
(* AddItem, beside the orders. *)

Add(a) ==
    /\ \/ HashGet(a) /\ Begins(a)
       \/ (HashSet(a) \/ AddFails(a)) /\ UNCHANGED alone
    /\ UNCHANGED <<sagaVars, producerVars>>

Expire == ExpireKey /\ Ordering = {} /\ UNCHANGED <<sagaVars, producerVars, alone>>

-----------------------------------------------------------------------------
(* PlaceOrder. *)

GetUserCart(o) ==
    /\ Goto(o, "idle", "prepare")
    /\ items' = [items EXCEPT ![o] = cart]
    /\ Begins(o)
    /\ UNCHANGED <<cartVars, charged, shipped, cleared, copyAt, producerVars>>

\* Prices, currencies and the shipping quote: calls that leave nothing behind.
Prepare(o) ==
    /\ Goto(o, "prepare", "charge")
    /\ UNCHANGED <<cartVars, items, charged, shipped, cleared, copyAt, producerVars, alone>>

\* A call fails without effect, before anything is shipped.
Fail(o) ==
    /\ \E at \in {"prepare", "charge", "ship"} : Goto(o, at, "failed")
    /\ UNCHANGED <<cartVars, items, charged, shipped, cleared, copyAt, producerVars, alone>>

\* Fault: a card that could not be charged does not end the order.
ChargeUnchecked(o) ==
    /\ \E end \in {"ship", "failed"} : Goto(o, "charge", end)
    /\ charged' \in {charged, charged \cup {o}}
    /\ UNCHANGED <<cartVars, items, shipped, cleared, copyAt, producerVars, alone>>

\* The card is charged; if the answer is lost, PlaceOrder fails.
ChargeCard(o) ==
    /\ \E end \in {"ship", "failed"} : Goto(o, "charge", end)
    /\ charged' = charged \cup {o}
    /\ UNCHANGED <<cartVars, items, shipped, cleared, copyAt, producerVars, alone>>

ShipOrder(o) ==
    /\ \E end \in {"empty", "failed"} : Goto(o, "ship", end)
    /\ shipped' = shipped \cup {o}
    /\ UNCHANGED <<cartVars, items, charged, cleared, copyAt, producerVars, alone>>

EmptyUserCart(o) ==
    /\ Goto(o, "empty", "publish")
    /\ EmptyCart
    /\ cleared' = cleared \cup {o}
    /\ UNCHANGED <<items, charged, shipped, copyAt, producerVars, alone>>

\* The error is ignored (also that of the flag cartFailure).
EmptyFails(o) ==
    /\ Goto(o, "empty", "publish")
    /\ UNCHANGED <<cartVars, items, charged, shipped, cleared, copyAt, producerVars, alone>>

\* After the mail, whose failure is only logged: the message goes to the producer.
Publish(o) ==
    /\ kafka
    /\ Goto(o, "publish", "ack")
    /\ sending' = sending \cup {<<o, 1>>}
    /\ UNCHANGED <<cartVars, items, charged, shipped, cleared, copyAt,
                   successes, errors, logged, topic, kafka, alone>>

\* There is no broker, or the client goes before the message is handed over.
PublishNot(o) ==
    /\ Goto(o, "publish", "placed")
    /\ UNCHANGED <<cartVars, items, charged, shipped, cleared, copyAt, producerVars, alone>>

(***************************************************************************)
(* Any answer will do: the next success, the next error, or the end of the *)
(* context.  Then the flag kafkaQueueProblems may start goroutines that    *)
(* send the order again: one here.                                         *)
(***************************************************************************)
Answer(o) ==
    /\ Goto(o, "ack", "placed")
    /\ \/ successes > 0 /\ successes' = successes - 1 /\ UNCHANGED errors
       \/ errors > 0 /\ errors' = errors - 1 /\ UNCHANGED successes
       \/ UNCHANGED <<successes, errors>>
    /\ copyAt' \in {copyAt, [copyAt EXCEPT ![o] = "send"]}
    /\ UNCHANGED <<cartVars, items, charged, shipped, cleared, sending, logged, topic, kafka, alone>>

PlaceOrder(o) ==
    \/ GetUserCart(o) \/ Prepare(o) \/ Fail(o) \/ ChargeCard(o) \/ ShipOrder(o)
    \/ EmptyUserCart(o) \/ EmptyFails(o)
    \/ Publish(o) \/ PublishNot(o) \/ Answer(o)

-----------------------------------------------------------------------------
(* The producer and those who wait for it. *)

CopySend(o) ==
    /\ copyAt[o] = "send"
    /\ copyAt' = [copyAt EXCEPT ![o] = "wait"]
    /\ sending' = sending \cup {<<o, 2>>}
    /\ UNCHANGED <<successes, errors, logged, topic>>

CopyAnswer(o) ==
    /\ copyAt[o] = "wait" /\ successes > 0
    /\ copyAt' = [copyAt EXCEPT ![o] = "done"]
    /\ successes' = successes - 1
    /\ UNCHANGED <<sending, errors, logged, topic>>

\* Fault: Producer.Return.Successes is not set.
DeliverSilently(m) ==
    /\ m \in sending
    /\ sending' = sending \ {m}
    /\ \/ topic' = Append(topic, m[1]) /\ UNCHANGED errors
       \/ errors' = errors + 1 /\ UNCHANGED topic
    /\ UNCHANGED <<successes, logged, copyAt>>

(***************************************************************************)
(* The broker gets the message, or does not: with RequiredAcks NoResponse  *)
(* both may count as success.  Or the producer knows that it failed.       *)
(***************************************************************************)
Deliver(m) ==
    /\ m \in sending
    /\ sending' = sending \ {m}
    /\ \/ /\ topic' \in {Append(topic, m[1]), topic}
          /\ successes' = successes + 1
          /\ UNCHANGED errors
       \/ errors' = errors + 1 /\ UNCHANGED <<successes, topic>>
    /\ UNCHANGED <<logged, copyAt>>

\* The goroutine of CreateKafkaProducer takes errors as well.
LogError ==
    /\ errors > 0
    /\ errors' = errors - 1
    /\ logged' = logged + 1
    /\ UNCHANGED <<sending, successes, topic, copyAt>>

Kafka ==
    /\ \/ \E o \in Orders : CopySend(o) \/ CopyAnswer(o)
       \/ \E m \in sending : Deliver(m)
       \/ LogError
    /\ UNCHANGED <<cartVars, orderAt, items, charged, shipped, cleared, kafka, alone>>

\* A panic in any handler (money.Must), or a kill: all calls and the producer are gone.
Crash ==
    /\ orderAt' = [o \in Orders |-> IF orderAt[o] \in {"idle", "placed"} THEN orderAt[o] ELSE "failed"]
    /\ copyAt' = [o \in Orders |-> IF copyAt[o] = "none" THEN "none" ELSE "done"]
    /\ sending' = {} /\ successes' = 0 /\ errors' = 0 /\ logged' = 0
    /\ UNCHANGED <<cartVars, items, charged, shipped, cleared, topic, kafka, alone>>

CheckoutTypeOK ==
    /\ CartTypeOK
    /\ orderAt \in [Orders -> {"idle", "prepare", "charge", "ship", "empty", "publish", "ack", "placed", "failed"}]
    /\ items \in [Orders -> SUBSET Adds]
    /\ charged \cup shipped \cup cleared \subseteq Orders
    /\ copyAt \in [Orders -> {"none", "send", "wait", "done"}]
    /\ sending \subseteq Orders \X {1, 2}
    /\ successes \in Nat /\ errors \in Nat /\ logged \in Nat
    /\ topic \in Seq(Orders) /\ kafka \in BOOLEAN
    /\ alone \subseteq Adds \cup Orders

-----------------------------------------------------------------------------
(* Properties. *)

ShippedItems == UNION {items[o] : o \in shipped}

(***************************************************************************)
(* An item whose AddItem was acknowledged and met no other call on its     *)
(* cart is not lost: it is in the cart, was shipped, or expired with the   *)
(* cart (ValkeyCartStore.cs, lines 136-162; main.go, lines 271, 294, 301). *)
(* Calls that overlap do lose items: the cart is read, and emptied, late.  *)
(***************************************************************************)
AloneAddIsKept ==
    \A a \in alone \cap Adds :
        addAt[a] = "added" => a \in cart \cup ShippedItems \cup expired

(***************************************************************************)
(* An item is shipped, and paid for, twice only if the order that shipped  *)
(* it first did not get to empty the cart, or one of the two met another   *)
(* call on the cart (main.go, lines 294-301: an error of EmptyCart is      *)
(* ignored, a lost answer of shipping ends PlaceOrder).                    *)
(***************************************************************************)
ShippedTwiceNeedsCause ==
    \A o, p \in shipped :
        o # p /\ items[o] \cap items[p] # {}
        => ~{o, p} \subseteq alone \/ ~{o, p} \subseteq cleared

(***************************************************************************)
(* Whoever waits for an answer of the producer has one to come, although   *)
(* all take whichever is next: answers are as many as messages, and only   *)
(* the errors which the logger takes are missing (main.go, lines 575-597,  *)
(* 612-615; producer.go, lines 37-41).                                     *)
(***************************************************************************)
NobodyWaitsInVain ==
    Cardinality({o \in Orders : orderAt[o] = "ack"}) + Cardinality({o \in Orders : copyAt[o] = "wait"})
        <= Cardinality(sending) + successes + errors + logged

=============================================================================
