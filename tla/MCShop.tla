-------------------------------- MODULE MCShop --------------------------------
(***************************************************************************)
(* TLC instances of Shop and of Pricing, which share no state: a behaviour *)
(* is one of the shop or one of the pricing of an order.                   *)
(*                                                                         *)
(* With a broker, the orders are of an empty cart, whose content makes no  *)
(* difference to Kafka and the accounting, and one order at most is sent   *)
(* again.  Without a broker, every overlap of orders and changes of the    *)
(* cart is met.                                                            *)
(***************************************************************************)
EXTENDS Shop, Integers, TLC

CONSTANTS Mod, Prices, Dollar, Rates, Precision, Quantities, MaxCosts, Panic

ASSUME PricingAssumption ==
    /\ Mod \in {10^k : k \in 1..9}
    /\ Prices \subseteq [units : Nat, nanos : 0..Mod - 1]
    /\ Dollar \in Nat \ {0} /\ Rates \subseteq Nat /\ Precision \in Nat \ {0}
    /\ Quantities \subseteq Nat
    /\ MaxCosts \in Nat
    /\ Panic \notin [units : Int, nanos : Int]

VARIABLES part, rate, total, costs, exact, due, amounts, small, leading

P == INSTANCE Pricing

pricingVars == <<rate, total, costs, exact, due, amounts, small, leading>>

MCPrices == [units : 0..1, nanos : {0, 8, 30, 70}]

MCInit ==
    /\ ShopInit /\ P!Init
    /\ part \in {"orders", "prices"}
    /\ part = "prices" => ~kafka
    /\ part = "orders" => rate = CHOOSE r \in Rates : TRUE

MCNext ==
    /\ \/ part = "orders" /\ ShopNext /\ UNCHANGED pricingVars
       \/ part = "prices" /\ P!Next /\ UNCHANGED shopVars
    /\ UNCHANGED part

MCSpec == MCInit /\ [][MCNext]_<<shopVars, pricingVars, part>>

Symmetry == Permutations(Adds) \cup Permutations(Orders)

CartOrKafka ==
    kafka => /\ \A a \in Adds : addAt[a] = "idle"
             /\ Cardinality({o \in Orders : copyAt[o] # "none"}) <= 1

PricesSound == P!PricesSound
=============================================================================
