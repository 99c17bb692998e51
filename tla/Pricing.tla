------------------------------- MODULE Pricing -------------------------------
(***************************************************************************)
(* lesson_11: what an order costs.  PlaceOrder adds up the shipping cost   *)
(* and the items in fixed-point amounts of units and nanos (money.go);     *)
(* each amount has been through the currency service, which divides by one *)
(* rate and multiplies by another in floating point (server.cpp), also     *)
(* from a currency into itself.  The catalogue is in dollars.              *)
(***************************************************************************)
EXTENDS Integers

CONSTANTS
    Mod,        \* nanosMod: 10^9 in the code
    Prices,     \* amounts in the catalogue
    Dollar, Rates,  \* to the euro, of the dollar and of what users pay in
    Precision,  \* a double result is off by less than this part of it
    Quantities, \* of an item
    MaxCosts,   \* amounts of one order
    Panic

VARIABLES
    rate,       \* of the user's currency; 0 if the service does not know it
    total,      \* of the order so far, or Panic
    costs,      \* amounts added
    exact,      \* history: the sum of the converted amounts
    due,        \* history: the sum of the amounts in the catalogue, times the rate
    amounts,    \* history: how many there are in these sums
    small,      \* history: amounts of less than a unit have been added to each other
    leading     \* history: the nanos of an amount began with a zero

priceVars == <<rate, total, costs, exact, due, amounts, small, leading>>

Money(units, nanos) == [units |-> units, nanos |-> nanos]
Value(m) == m.units * Mod + m.nanos

IsValid(m) ==
    /\ m.nanos = 0 \/ m.units = 0 \/ (m.nanos < 0) = (m.units < 0)
    /\ -Mod < m.nanos /\ m.nanos < Mod

\* Fault: the carry is forgotten.
SumNoCarry(l, r) ==
    IF ~IsValid(l) \/ ~IsValid(r) THEN Panic
    ELSE Money(l.units + r.units, (l.nanos + r.nanos) % Mod)

\* Fault: nanos that make exactly one unit are not carried.
SumLateCarry(l, r) ==
    LET nanos == l.nanos + r.nanos
        carry == IF nanos > Mod THEN 1 ELSE 0
    IN  IF ~IsValid(l) \/ ~IsValid(r) THEN Panic
        ELSE Money(l.units + r.units + carry, nanos - carry * Mod)

\* Sum, and Must around it.  Go's division truncates.
Sum(l, r) ==
    LET units == l.units + r.units
        nanos == l.nanos + r.nanos
        carry == IF nanos >= Mod THEN 1 ELSE IF nanos <= -Mod THEN -1 ELSE 0
    IN  IF ~IsValid(l) \/ ~IsValid(r) THEN Panic
        ELSE IF \/ units = 0 /\ nanos = 0
                \/ units > 0 /\ nanos >= 0
                \/ units < 0 /\ nanos <= 0
             THEN Money(units + carry, nanos - carry * Mod)
             ELSE IF units > 0 THEN Money(units - 1, nanos + Mod) ELSE Money(units + 1, nanos - Mod)

\* MultiplySlow: a quantity of 0 counts as 1.
Times(m, n) ==
    LET f[k \in 1..n] == IF k = 1 THEN m
                         ELSE IF f[k - 1] = Panic THEN Panic ELSE Sum(f[k - 1], m)
    IN  IF n = 0 THEN m ELSE f[n]

\* getDouble reads the digits from the last to the first that is not 0.
Decimal(nanos) ==
    LET power == CHOOSE p \in 1..Mod : /\ p > nanos /\ \E k \in 0..9 : p = 10^k
                                       /\ \A k \in 0..9 : 10^k > nanos => p <= 10^k
    IN  nanos * (Mod \div power)

\* Fault: the nanos of the amount are left out.
ReadWhole(m) == m.units * Mod

\* What getDouble makes of an amount.
Read(m) == m.units * Mod + Decimal(m.nanos)

(***************************************************************************)
(* Convert, and getUnitsAndNanos, which cuts off what is less than a nano. *)
(* The operations before round, so a result may be a nano less than it     *)
(* should be, and be off by more where doubles are further apart than      *)
(* that.                                                                   *)
(***************************************************************************)
Convert(m) ==
    LET scale == Dollar * Precision
    IN  {Money(v \div Mod, v % Mod) :
            v \in (Read(m) * rate * (Precision - 1)) \div scale ..
                  (Read(m) * rate * (Precision + 1)) \div scale}

Init ==
    /\ rate \in Rates
    /\ total = Money(0, 0) /\ costs = 0
    /\ exact = 0 /\ due = 0 /\ amounts = 0
    /\ small = FALSE /\ leading = FALSE

\* The shipping cost, then item by item; a panic ends the process.
Add(p, c, n) ==
    LET sum == IF Times(c, n) = Panic THEN Panic ELSE Sum(total, Times(c, n))
        times == IF n = 0 THEN 1 ELSE n
    IN  /\ total # Panic /\ costs < MaxCosts
        /\ total' = sum
        /\ costs' = costs + 1
        /\ exact' = exact + times * Value(c)
        /\ due' = due + times * (Value(p) * rate)
        /\ amounts' = amounts + times
        /\ small' = (small \/ (c.units = 0 /\ (n > 1 \/ exact < Mod)))
        /\ leading' = (leading \/ (0 < p.nanos /\ p.nanos * 10 < Mod))
        /\ UNCHANGED rate

Next == \E p \in Prices : \E c \in Convert(p), n \in Quantities : Add(p, c, n)

PriceTypeOK ==
    /\ total = Panic \/ total \in [units : Int, nanos : (1 - Mod)..(Mod - 1)]
    /\ rate \in Rates /\ costs \in 0..MaxCosts
    /\ {exact, due, amounts} \subseteq Nat /\ {small, leading} \subseteq BOOLEAN

-----------------------------------------------------------------------------
(* Properties. *)

(***************************************************************************)
(* The amount charged is the sum of the costs, through every carry, also   *)
(* where units and nanos come out with different signs (money.go, lines    *)
(* 82-120; main.go, lines 277-284).                                        *)
(***************************************************************************)
SumExact == total # Panic => Value(total) = exact

(***************************************************************************)
(* Sum takes the sum of two amounts below one unit for one of different    *)
(* signs and returns an amount that is not valid; the next Sum refuses it, *)
(* and Must panics.  Nothing else makes an order panic (money.go, lines    *)
(* 90-104).                                                                *)
(***************************************************************************)
PanicNeedsSmall == total = Panic \/ ~IsValid(total) => small

(***************************************************************************)
(* The amount charged is what the catalogue asks, at the rate of the       *)
(* user's currency: it is off by the rounding of doubles and by less than  *)
(* a nano for each amount, however these are converted, multiplied and     *)
(* carried, except where nanos have a leading zero: 57.08 becomes 57.80    *)
(* (server.cpp, lines 144-203; main.go, lines 277-284).                    *)
(***************************************************************************)
ChargedAtTheRate ==
    total # Panic /\ ~leading =>
        /\ Value(total) * (Dollar * Precision) <= due * (Precision + 1)
        /\ due * (Precision - 1) <= (Value(total) + amounts) * (Dollar * Precision)

(***************************************************************************)
(* Whatever an order converts and adds up comes out right, but for the     *)
(* amounts named above (money.go, lines 69-120; server.cpp, lines          *)
(* 144-203).                                                               *)
(***************************************************************************)
PricesSound == PriceTypeOK /\ SumExact /\ PanicNeedsSmall /\ ChargedAtTheRate

=============================================================================
