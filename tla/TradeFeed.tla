------------------------------ MODULE TradeFeed ------------------------------
(***************************************************************************)
(* What a trade subscription promises: from the moment it is open, the      *)
(* client receives the trades of its symbol one after the other, in the     *)
(* order they were executed, with none missing and none twice.  TradeStream *)
(* implements this specification.                                           *)
(***************************************************************************)
EXTENDS Naturals, Sequences

CONSTANTS Symbols,
          Subscribers,
          SymbolOf,    \* subscriber -> the symbol its request names
          MaxTrades    \* bound: trades executed per symbol

VARIABLES executed,   \* symbol -> how many trades were executed
          stream,     \* subscriber -> "unopened", "open" or "closed"
          opened,     \* subscriber -> trades executed before its stream opened
          received    \* subscriber -> the trades it received

vars == <<executed, stream, opened, received>>

Init ==
  /\ executed = [symbol \in Symbols |-> 0]
  /\ stream = [s \in Subscribers |-> "unopened"]
  /\ opened = [s \in Subscribers |-> 0]
  /\ received = [s \in Subscribers |-> <<>>]

Execute(symbol) ==
  /\ executed[symbol] < MaxTrades
  /\ executed' = [executed EXCEPT ![symbol] = @ + 1]
  /\ UNCHANGED <<stream, opened, received>>

Open(s) ==
  /\ stream[s] = "unopened"
  /\ stream' = [stream EXCEPT ![s] = "open"]
  /\ opened' = [opened EXCEPT ![s] = executed[SymbolOf[s]]]
  /\ UNCHANGED <<executed, received>>

\* The next trade of the symbol, once it is executed.
Receive(s) ==
  LET next == opened[s] + Len(received[s]) + 1
  IN  /\ stream[s] = "open"
      /\ next <= executed[SymbolOf[s]]
      /\ received' = [received EXCEPT ![s] = Append(@, [symbol |-> SymbolOf[s], number |-> next])]
      /\ UNCHANGED <<executed, stream, opened>>

\* The client goes away.
Close(s) ==
  /\ stream[s] # "closed"
  /\ stream' = [stream EXCEPT ![s] = "closed"]
  /\ UNCHANGED <<executed, opened, received>>

Next ==
  \/ \E symbol \in Symbols : Execute(symbol)
  \/ \E s \in Subscribers : Open(s) \/ Receive(s) \/ Close(s)

Spec == Init /\ [][Next]_vars

=============================================================================
