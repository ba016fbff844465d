----------------------------- MODULE Quantities -----------------------------
(***************************************************************************)
(* The quantities of orders and trades: integers of a fixed width.          *)
(***************************************************************************)
EXTENDS Integers

CONSTANT MaxQuantity   \* INT32_MAX in the order matching engine, INT64_MAX in the HFT simulator

ASSUME MaxQuantityAssumption == MaxQuantity \in Nat \ {0}

Quantity == (-MaxQuantity - 1)..MaxQuantity

\* Mutant: a type wide enough never to wrap.
ToQuantityWide(x) == x

(***************************************************************************)
(* The value a quantity holds after += or -=.  Overflow is undefined in     *)
(* C++; the build's add and subtract instructions wrap.                     *)
(***************************************************************************)
ToQuantity(x) == ((x + MaxQuantity + 1) % (2 * MaxQuantity + 2)) - MaxQuantity - 1

=============================================================================
