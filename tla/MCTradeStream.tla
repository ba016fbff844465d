---------------------------- MODULE MCTradeStream ----------------------------
(***************************************************************************)
(* Instances of TradeStream for TLC: two symbols whose publishers compete   *)
(* for subscribers_mutex_, and streams of the same and of other symbols.    *)
(***************************************************************************)
EXTENDS TradeStream, TLC

CONSTANTS A, B, s1, s2

\* A stream of each symbol, and two of one.
MCSymbolOfTwo == (s1 :> A) @@ (s2 :> B)
MCSymbolOfSame == (s1 :> A) @@ (s2 :> A)

=============================================================================
