--------------------------- MODULE MCHftOrderBook ---------------------------
(***************************************************************************)
(* Instances of HftOrderBook for TLC.                                       *)
(***************************************************************************)
EXTENDS HftOrderBook, TLC

MCPrices == 1..2

\* SubmitOrder checks nothing: zero and negative quantities get in.
MCUnvalidated == {-1, 0, 1, 2}

\* What a well-behaved client sends.
MCPositive == 1..2

\* Ids are only compared.
MCIdSymmetry == Permutations(Ids)

=============================================================================
