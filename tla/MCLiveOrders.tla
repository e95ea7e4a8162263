---------------------------- MODULE MCLiveOrders ----------------------------
(* Scenes for the LIVE orders of one symbol.                                *)
EXTENDS LiveOrders, TLC

CONSTANTS a, b, c, d

Of(w, x, y, z) == a :> w @@ b :> x @@ c :> y @@ d :> z

Scene(kinds, amounts, start, spot, faults, apart) ==
    [kind |-> kinds, amount |-> amounts, start |-> start, spot |-> spot,
     faults |-> faults, apart |-> apart]

Ones == Of(1, 1, 1, 1)
Markets == BOOLEAN

\* Manual orders of both sides at once, on a flat or a long account: whatever
\* the exchange and the database do to them, and an operator behind them.
Orders ==
    { Scene(Of("order", "order", "order", "none"), n, start, spot, {"part"}, FALSE) :
        <<n, start>> \in { <<Of(1, 1, 2, 0), 0>>, <<Of(2, -1, 1, 0), 1>>,
                           <<Of(1, -1, -1, 0), 2>> },
        spot \in Markets }
OrdersFail ==
    { Scene(Of("order", "order", "clear", "none"), n, start, spot, faults, FALSE) :
        <<n, start>> \in { <<Of(1, 2, 0, 0), 0>>, <<Of(1, -2, 0, 0), 2>> }, spot \in Markets,
        faults \in { {"lost", "part"}, {"reject"}, {"create", "disk"}, {"save", "create"},
                     {"save", "disk"}, {"lost", "create", "part"}, {"http", "quote", "part"},
                     {"lost", "pending", "offline"}, {"create", "lookup"} } }

\* The engine with the monitor, from flat and from long.
Engine ==
    { Scene(Of(x, y, "monitor", "none"), Ones, start, spot, faults, FALSE) :
        x \in {"exit", "trim"}, y \in {"entry", "exit", "trim"}, start \in {0, 2},
        spot \in Markets,
        faults \in { {"reject", "part"}, {"create", "disk"}, {"create", "lookup"} } }
EngineFails ==
    { Scene(Of("exit", "entry", "monitor", z), Ones, start, spot, faults, FALSE) :
        z \in {"none", "clear"}, start \in {0, 2},
        spot \in Markets,
        faults \in { {"lost", "disk"}, {"save", "part"}, {"http", "quote", "reject"} } }

\* The engine opens again what it closed, and the monitor's cycles overlap.
Again ==
    { Scene(Of("exit", "entry", "monitor", z), Ones, 2, spot, faults, FALSE) :
        z \in {"monitor", "trim", "entry"}, spot \in Markets,
        faults \in { {"reject", "part"}, {"create"} } }

\* The close route, twice, and by force after it.
Route ==
    { Scene(Of("close", "close", y, "none"), Ones, 2, spot, faults, FALSE) :
        y \in {"close", "force"}, spot \in Markets,
        faults \in { {"reject", "part"}, {"lost", "save"}, {"http", "quote", "reject"} } }

\* Restarts under entries, exits and an orphan that is journaled.
Restarts ==
    { Scene(Of(x, "entry", "clear", y), Ones, start, spot, {"crash", "create"}, FALSE) :
        x \in {"entry", "order", "exit"}, y \in {"none", "order"},
        start \in {0, 1}, spot \in Markets }

\* An order and an entry that do not see each other open a trade each; the audit
\* leaves one.
Doubled ==
    { Scene(Of("order", "entry", "audit", "none"), Ones, 0, spot, faults, FALSE) :
        spot \in Markets, faults \in { {}, {"reject"}, {"http"} } }

\* One call after the other, with the repairs between them.
Repaired ==
    { Scene(Of(x, y, z, "none"), Ones, start, FALSE, faults, TRUE) :
        <<x, start>> \in { <<"entry", 0>>, <<"order", 0>>, <<"exit", 2>>, <<"close", 2>>,
                           <<"trim", 2>>, <<"force", 2>> },
        y \in {"recon", "audit"}, z \in {"recon", "audit", "monitor"},
        faults \in { {"lost"}, {"crash", "save"}, {"create"}, {"reject", "part"} } }

PassScenes ==
    Orders \cup OrdersFail \cup Engine \cup EngineFails \cup Again \cup Route
        \cup Restarts \cup Doubled \cup Repaired

\* An entry while the exchange is compared with the trades, and no fault.
EntryAndRecon ==
    { Scene(Of("entry", "recon", "none", "none"), Ones, 0, FALSE, {}, FALSE) }
=============================================================================
