----------------------------- MODULE MCHftServer -----------------------------
(***************************************************************************)
(* Instances of HftServer for TLC.                                          *)
(***************************************************************************)
EXTENDS HftServer

\* The buy that trades with a negative sell grows until it wraps, and trades
\* with the next one too; the sell at 2 rests beside it.  The sells share an id.
MCOrders == {[order_id |-> "x", is_buy |-> FALSE, price |-> 1, quantity |-> -1],
             [order_id |-> "y", is_buy |-> TRUE, price |-> 1, quantity |-> 2],
             [order_id |-> "x", is_buy |-> FALSE, price |-> 2, quantity |-> 1]}

=============================================================================
