------------------------------ MODULE CartStore ------------------------------
(***************************************************************************)
(* lesson_11, the cart service: one user's cart in Valkey.  Adding an item *)
(* reads the cart, changes it and writes it back, with no transaction; the *)
(* cart is written as a whole.  An item is named by the call that adds it. *)
(***************************************************************************)
EXTENDS Naturals, FiniteSets

CONSTANT Adds      \* calls of AddItem

VARIABLES
    cart,       \* the items in the user's hash
    addAt,      \* where each AddItem is
    value,      \* the cart it has read
    expired     \* history: items that went with the key

cartVars == <<cart, addAt, value, expired>>

CartInit ==
    /\ cart = {}
    /\ addAt = [a \in Adds |-> "idle"]
    /\ value = [a \in Adds |-> {}]
    /\ expired = {}

Adding == {a \in Adds : addAt[a] = "set"}

\* HGET.
HashGet(a) ==
    /\ addAt[a] = "idle"
    /\ addAt' = [addAt EXCEPT ![a] = "set"]
    /\ value' = [value EXCEPT ![a] = cart]
    /\ UNCHANGED <<cart, expired>>

\* Fault: the cart is written without the items it had.
HashSetFresh(a) ==
    /\ addAt[a] = "set"
    /\ cart' = {a}
    /\ \E end \in {"added", "failed"} : addAt' = [addAt EXCEPT ![a] = end]
    /\ value' = [value EXCEPT ![a] = {}]
    /\ UNCHANGED expired

\* HSET and EXPIRE; the answer may be lost, or EXPIRE fail.
HashSet(a) ==
    /\ addAt[a] = "set"
    /\ cart' = value[a] \cup {a}
    /\ \E end \in {"added", "failed"} : addAt' = [addAt EXCEPT ![a] = end]
    /\ value' = [value EXCEPT ![a] = {}]
    /\ UNCHANGED expired

\* A command fails, and AddItem with it.
AddFails(a) ==
    /\ addAt[a] = "set"
    /\ addAt' = [addAt EXCEPT ![a] = "failed"]
    /\ value' = [value EXCEPT ![a] = {}]
    /\ UNCHANGED <<cart, expired>>

\* Fault: another key is emptied.
EmptyNoCart == UNCHANGED cartVars

\* HSET of the empty cart.
EmptyCart ==
    /\ cart' = {}
    /\ UNCHANGED <<addAt, value, expired>>

\* An hour has gone by since the last write.
ExpireKey ==
    /\ cart # {} /\ Adding = {}
    /\ cart' = {}
    /\ expired' = expired \cup cart
    /\ UNCHANGED <<addAt, value>>

CartTypeOK ==
    /\ cart \subseteq Adds /\ expired \subseteq Adds
    /\ addAt \in [Adds -> {"idle", "set", "added", "failed"}]
    /\ value \in [Adds -> SUBSET Adds]

=============================================================================
