---------------------------- MODULE MCPaperBook ----------------------------
(* Call lists for the paper book, and the symmetry of its document ids.    *)
EXTENDS PaperBook, TLC

CONSTANTS a, b, c, f, d1, d2, d3

DocSymmetry == Permutations(Docs)

Of(w, x, y, z) == a :> w @@ b :> x @@ c :> y @@ f :> z

\* An order or entry of call f costs more than a run may have left.
Sides4 == Of("BUY", "BUY", "SELL", "SELL")
Sizes4 == Of(2, 1, 2, 4)

\* Nothing but orders; nothing but closers of whole positions; nothing but the
\* engine, in every assignment of its paths to the calls.
OrdersOnly == [Calls -> {"order"}]
ClosersOnly == [Calls -> {"close", "exit", "monitor"}]
EngineOnly == [Calls -> {"entry", "exit", "trim"}]
Separate == OrdersOnly \cup ClosersOnly \cup EngineOnly

\* Every path together.
Together == { Of("order", "trim", "ratchet", "close"),
              Of("order", "exit", "order", "monitor"),
              Of("order", "entry", "trim", "monitor") }

\* A closer and the orders behind it.
CloserAndOrders == { Of("close", "order", "order", "order") }
=============================================================================
