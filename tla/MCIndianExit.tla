--------------------------- MODULE MCIndianExit ---------------------------
(* Scenes for the exits of an Indian trade.                                *)
EXTENDS IndianExit, TLC

CONSTANTS j1, j2, j3, j4, s1, s2

Of(w, x, y, z) == j1 :> w @@ j2 :> x @@ j3 :> y @@ j4 :> z

Scene(kinds, prices, faults, apart) ==
    [kind |-> kinds, prices |-> prices, faults |-> faults, apart |-> apart]

Server == Of(s1, s1, s1, s1)
TwoServers == Of(s1, s1, s2, s2)

\* Two servers, two cycles each, and the stop is hit: they race for the exit,
\* leases run out, the broker fills in part or rejects, a server stops.
Cycles == Of("monitor", "monitor", "monitor", "monitor")
Race == Scene(Cycles, {"STOP", "between"}, {"partial", "reject", "slow"}, FALSE)
Cut == Scene(Cycles, {"STOP"}, {"crash", "slow", "save"}, FALSE)

\* One server, whose exits may end within 50 ms of their record.
Quick ==
    Scene(Of("monitor", "monitor", "none", "none"), {"STOP"},
          {"partial", "reject", "slow", "window"}, FALSE)

\* Both square the trade off.
Deadline == Scene(Of("squareoff", "squareoff", "squareoff", "none"), {}, {}, FALSE)

\* Every path, one job after the other.
InTurn ==
    { Scene(Of(x, y, z, "none"), {"STOP", "TARGET", "between"}, {"manual", "save"}, TRUE) :
        x, y, z \in {"monitor", "squareoff", "close", "recover"} }
InPart ==
    { Scene(k, {"STOP", "TARGET"}, {"partial", "reject"}, TRUE) :
        k \in [Jobs -> {"monitor", "close", "recover"}] }

\* A stop is cut short, and the next server recovers it.
Restarted ==
    Scene(Of("monitor", "recover", "monitor", "recover"), {"STOP"}, {"crash"}, TRUE)

\* A single job, whatever throws.
Alone ==
    { Scene(Of(k, "none", "none", "none"), Triggers, {"save", "late"}, FALSE) :
        k \in {"monitor", "squareoff", "close"} }

PassScenes == {Race, Cut, Quick, Deadline, Restarted} \cup InTurn \cup InPart \cup Alone

\* One server: a cycle of the monitor while the deadline squares off.
MonitorAndSquareOff ==
    { Scene(Of("monitor", "squareoff", "none", "none"), {"STOP"}, {}, FALSE) }

\* One server: it stops under an exit, starts again and recovers.
CutAndRecovered == { Restarted }
=============================================================================
