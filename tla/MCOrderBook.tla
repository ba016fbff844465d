---------------------------- MODULE MCOrderBook ----------------------------
(***************************************************************************)
(* Instances of OrderBook for TLC.                                          *)
(***************************************************************************)
EXTENDS OrderBook

\* Two ticks: orders that cross at equal and at unequal prices, and that don't.
MCPrices == 1..2

\* What SubmitOrder accepts, and what ModifyOrder passes on without a check.
MCSmall == 1..2
MCUnvalidated == {-2, 0, 3}

=============================================================================
