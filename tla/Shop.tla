--------------------------------- MODULE Shop ---------------------------------
(***************************************************************************)
(* lesson_11: the way of an order from the cart through the checkout       *)
(* service, Kafka and the accounting service into the database.            *)
(***************************************************************************)
EXTENDS Checkout

CONSTANT None

ASSUME NoneAssumption == None \notin Orders

VARIABLES position, committed, current, pending, tracked, db, restarted, unsure

A == INSTANCE Accounting

bookVars == <<position, committed, current, pending, tracked, db, restarted, unsure>>
shopVars == <<checkoutVars, bookVars>>

ShopInit == Init /\ A!AccountInit

CheckoutStep ==
    /\ \/ \E a \in Adds : Add(a)
       \/ Expire
       \/ \E o \in Orders : PlaceOrder(o)
       \/ Kafka
       \/ Crash
    /\ UNCHANGED bookVars

AccountStep ==
    /\ A!Account
    /\ UNCHANGED <<cartVars, sagaVars, sending, successes, errors, logged, kafka, alone>>

ShopNext == CheckoutStep \/ AccountStep

ShopSpec == ShopInit /\ [][ShopNext]_shopVars

-----------------------------------------------------------------------------
(* Properties. *)

ShopTypeOK == CheckoutTypeOK /\ A!AccountTypeOK

ForgottenNeedsRestart == A!ForgottenNeedsRestart
StuckNeedsCause == A!StuckNeedsCause

(***************************************************************************)
(* The books: no order is forgotten and none is stuck, but for the causes  *)
(* that Accounting names (Consumer.cs, lines 79-141).                      *)
(***************************************************************************)
BooksSound == ShopTypeOK /\ ForgottenNeedsRestart /\ StuckNeedsCause

(***************************************************************************)
(* The services together implement OrderLedger: whatever fails on the way, *)
(* an order in the database has been shipped, and a shipped one charged.   *)
(***************************************************************************)
Ledger == INSTANCE OrderLedger WITH accounted <- db

KeepsLedger == Ledger!Spec

=============================================================================
