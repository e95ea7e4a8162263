-------------------------- MODULE MCIndianEntries --------------------------
(* Scenes for the entries of one Indian account.                            *)
EXTENDS IndianEntries, TLC

CONSTANTS a, b, c, d, e, f, g, s1, s2

Of(v, w, x, y, z) ==
    a :> v @@ b :> w @@ c :> x @@ d :> y @@ e :> z @@ f :> "none" @@ g :> "none"

Scene(kinds, signals, faults, clock, apart, yesterday) ==
    [kind |-> kinds, signals |-> signals, faults |-> faults,
     clock |-> clock, apart |-> apart, yesterday |-> yesterday, carried |-> FALSE]

\* The lock of the day before is still on.
Carried(s) == [s EXCEPT !.carried = TRUE]

Costs == s1 :> 2 @@ s2 :> 2 @@ ScannerStrategy :> 3

WinOrLoss == {-1, 3}

Signal(s, w) == [strategy |-> s, way |-> w]
Both == {Signal(s1, "BULL"), Signal(s2, "BEAR")}
Mixed == Both \cup {Signal(s2, "NEUTRAL")}
Calm == {Signal(s1, "NEUTRAL"), Signal(s2, "NEUTRAL")}

\* Automatic entries, their buttons and the daemon.
Autos ==
    { Scene(Of("auto", x, y, z, "none"), Mixed, h, FALSE, FALSE, FALSE) :
        <<x, y, z, h>> \in { <<"auto", "live", "daemon", {}>>, <<"auto", "daemon", "none", {"create"}>>,
                             <<"live", "daemon", "none", {"reject"}>> } }

\* The same over restarts, cooldowns that run out, and new days.
AutosRestart ==
    { Scene(Of("auto", "daemon", x, "none", "none"), Both, {"crash"}, TRUE, FALSE, FALSE) :
        x \in {"daemon", "auto"} }

\* The daemon with exits in between.
Daemons ==
    { Scene(Of("daemon", "daemon", "daemon", x, "none"), Calm, h, TRUE, FALSE, FALSE) :
        x \in {"daemon", "monitor"}, h \in { {}, {"crash"} } }

\* Manual and automatic entries at once.
Manual ==
    { Scene(Of(x, "strategy", "strategy", y, "none"), Calm, h, FALSE, FALSE, FALSE) :
        <<x, y, h>> \in { <<"auto", "strategy", {"read"}>>, <<"live", "daemon", {"read"}>>,
                          <<"live", "auto", {"positional"}>> } }
ManualDays ==
    { Scene(Of(x, "strategy", "strategy", "none", "none"), Both, h, TRUE, FALSE, FALSE) :
        x \in {"auto", "live", "daemon"}, h \in { {}, {"crash"} } }

\* Entries and exits that meet in the wallet.
Money ==
    { Scene(Of("auto", "order", x, y, "none"), Calm, {"snapshot"}, FALSE, FALSE, FALSE) :
        <<x, y>> \in { <<"order", "monitor">>, <<"strategy", "square">>, <<"strategy", "auto">>,
                       <<"square", "monitor">> } }
MoneySaved ==
    { Scene(Of("auto", "order", x, "order", "none"), Calm, h, FALSE, FALSE, FALSE) :
        x \in {"auto", "daemon"}, h \in { {"crash"}, {"create", "crash"} } }

\* Outcomes, one call after the other.
Risk ==
    { Scene(Of("order", "auto", x, y, z), Calm, {}, FALSE, TRUE, TRUE) :
        <<x, y, z>> \in { <<"monitor", "monitor", "auto">>, <<"square", "monitor", "reset">>,
                          <<"square", "square", "none">> } }
RiskCrash ==
    { Scene(Of("order", "order", "monitor", "monitor", x), Calm, h, FALSE, TRUE, FALSE) :
        <<x, h>> \in { <<"none", {"crash"}>>, <<"settings", {"crash"}>>, <<"none", {"crash", "read"}>> } }
\* A win, two losses on top of it, and the pause.
Pause ==
    { Scene([Of("order", "order", "order", "monitor", "monitor")
               EXCEPT ![f] = "monitor", ![g] = "auto"], Calm, {}, FALSE, TRUE, FALSE) }
RiskDays ==
    { Scene(Of("order", "order", "monitor", "monitor", x), Both, {}, TRUE, TRUE, FALSE) :
        x \in {"auto", "monitor", "settings"} }

\* A document read before the lock was taken is saved after it.
Rollover ==
    { Scene(Of("order", x, "settings", "settings", "none"), Calm, {}, FALSE, FALSE, TRUE) :
        x \in {"monitor", "square"} }

\* The kill switch, over restarts, and the panic stop.
Switches ==
    { Scene(Of("halt", "resume", x, y, "halt"), Calm, {"crash"}, FALSE, FALSE, FALSE) :
        x \in {"auto", "order"}, y \in {"strategy", "daemon"} }
SwitchesFail ==
    { Scene(Of("halt", "panic", "calm", "order", "auto"), Calm, {"switch", "crash"}, FALSE, FALSE, FALSE) }

\* Exits that give their trades back, among entries.
Reopens ==
    { Scene(Of(x, y, "monitor", z, "none"), Calm, {"reopen"}, t, FALSE, FALSE) :
        <<x, y, z, t>> \in { <<"daemon", "daemon", "none", TRUE>>, <<"auto", "strategy", "auto", FALSE>>,
                             <<"daemon", "order", "square", FALSE>> } }

\* Settings that cannot be read or saved.
Unsettled ==
    { Scene(Of("order", x, y, "monitor", z), Calm, {"settings"}, FALSE, t, TRUE) :
        <<x, y, z, t>> \in { <<"order", "square", "monitor", TRUE>>, <<"auto", "daemon", "none", FALSE>>,
                             <<"panic", "settings", "none", FALSE>> } }

\* Requests that come in while the server starts.
Starting ==
    { Scene(Of("halt", x, y, "resume", "none"), Calm, {"crash", "boot"}, FALSE, FALSE, FALSE) :
        <<x, y>> \in { <<"auto", "strategy">>, <<"order", "daemon">>, <<"panic", "reset">> } }

Carry == { Carried(s) : s \in Risk }

PassScenes ==
    Autos \cup AutosRestart \cup Daemons \cup Manual \cup ManualDays \cup Money \cup MoneySaved
        \cup Risk \cup RiskCrash \cup Pause \cup RiskDays \cup Rollover \cup Switches \cup SwitchesFail
        \cup Reopens \cup Unsettled \cup Starting \cup Carry
=============================================================================
