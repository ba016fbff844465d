--------------------------- MODULE MCOrderService ---------------------------
(***************************************************************************)
(* Instances of OrderService for TLC.  Handlers and symbols are only        *)
(* compared, so safety is checked up to their permutations.                 *)
(***************************************************************************)
EXTENDS OrderService, TLC

\* ModifyOrder passes on what it gets.  An order of 2 that trades with one
\* modified to -1 wraps.
MCUnchecked == {-1, 1}

MCSymmetry == Permutations(Handlers) \cup Permutations(Symbols)

=============================================================================
