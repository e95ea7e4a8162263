--------------------------- MODULE IndianEntries ---------------------------
(***************************************************************************)
(* The entries of one Indian paper account on one underlying, and what may *)
(* stop them (server/src/services/indianMarket*, routes/indianMarket.ts):  *)
(*   daemon    a tick of IndianMarketAutoTrader's daemon                   *)
(*   auto,live POST /auto-execute, with mode PAPER or LIVE                 *)
(*   strategy  POST /execute-strategy                                      *)
(*   order     POST /execute                                               *)
(*   monitor   a tick of the daemon that exits a trade                     *)
(*   square    the square-off of a trade                                   *)
(*   settings  GET /risk-settings                                          *)
(*   panic,calm,reset,halt,resume  the operator's controls                 *)
(* Margin is a whole number; profit and loss count towards the day's sum   *)
(* only.  How an exit reaches its credit is the subject of IndianExit.     *)
(***************************************************************************)
EXTENDS Integers, FiniteSets, Sums

CONSTANTS
    Calls,       \* the requests and ticks of a run; a trade is named by its entry
    NoCall,      \* nobody
    Strategies,  \* strategies of the engine
    ScannerStrategy, \* "INDIAN_AI_MODEL", the strategy of every POST /execute
    Cost,        \* computeRequiredMargin of a trade of a strategy
    Equity,      \* the balance before the first call
    MaxConcurrentTrades,
    MaxConsecutiveLosses,
    MaxDailyLoss,
    Outcomes,    \* what an exit may realize
    Scenes       \* what the runs consist of, one scene per run

Automatic == {"daemon", "auto", "live"}
Entries == Automatic \cup {"strategy", "order"}
Exits == {"monitor", "square"}
Switching == {"halt", "resume"}
Kinds == Entries \cup Exits \cup Switching
            \cup {"settings", "panic", "calm", "reset", "none"}

FaultKinds ==
    { "reject",      \* a gate that no model needs turns an entry down
      "positional",  \* an entry is turned down after its risk check
      "read",        \* a query of the guards, or of the day's trades, throws
      "create",      \* the trade's documents cannot be created
      "snapshot",    \* a snapshot of the wallet cannot be written
      "switch",      \* the state of the kill switch cannot be read or written
      "settings",    \* the settings cannot be read or saved
      "reopen",      \* the broker refuses an exit
      "crash",       \* the server stops and starts again
      "boot" }       \* and answers requests while it starts

Ways == {"BULL", "BEAR", "NEUTRAL"}

Signals == [strategy : Strategies, way : Ways]

AllStrategies == Strategies \cup {ScannerStrategy}

SceneType ==
    [kind : [Calls -> Kinds], signals : SUBSET Signals, faults : SUBSET FaultKinds,
     clock : BOOLEAN, apart : BOOLEAN, yesterday : BOOLEAN, carried : BOOLEAN]

ASSUME EntriesAssumption ==
    /\ IsFiniteSet(Calls) /\ NoCall \notin Calls
    /\ ScannerStrategy \notin Strategies
    /\ Cost \in [AllStrategies -> Nat \ {0}]
    /\ Equity \in Nat
    /\ MaxConcurrentTrades \in Nat \ {0}
    /\ MaxConsecutiveLosses \in Nat \ {0}
    /\ MaxDailyLoss \in Nat \ {0}
    /\ Outcomes \subseteq Int
    /\ Scenes \subseteq SceneType

VARIABLES
    scene,    \* the scene of this run
    trade,    \* the Trade documents
    young,    \* those whose _id lies within strategyCooldownMinutes
    lossy,    \* those closed at a loss within POST_LOSS_COOLDOWN_MIN
    realized, \* what the documents closed today sum up to: their netPnl
    cash,     \* the wallet map
    saved,    \* the WalletSnapshot document
    lock,     \* holder of the wallet's lock
    settings, \* the IndianRiskSettings document; current: its day is today
    locked,   \* history: a loss took the daily lock today, and no reset since
    cooling,  \* strategies in strategyCooldowns (and recentTradeFingerprints)
    risk,     \* the risk manager's other maps: streak, pause, day's sum
    inFlight, \* autoExecInFlight has the user
    ticking,  \* tickInFlight
    halted,   \* TradingKillSwitch.currentState is TRADING_DISABLED
    haltedDoc,\* its document says so
    stopped,  \* history: a halt was answered, and no resume asked for since
    boot,     \* how far the server is up
    pc,       \* the await each call has reached
    mem       \* what each call has in hand

documents == <<trade, young, lossy, realized>>
wallet == <<cash, saved, lock>>
limits == <<settings, locked, risk>>
flags == <<inFlight, ticking>>
switch == <<halted, haltedDoc, stopped, boot>>
vars == <<scene, documents, wallet, limits, cooling, flags, switch, pc, mem>>

\* again, a history: an exit has given the trade back.
Trade ==
    [status : {"none", "OPEN", "EXITING", "CLOSED"},
     strategy : AllStrategies, way : Ways, pnl : Int, again : BOOLEAN]

Loaded == {"limit", "vet", "payable", "tally", "answer"}

Memory ==
    [strategy : AllStrategies, way : Ways, affords : BOOLEAN, clear : BOOLEAN,
     count : Nat, next : Loaded, lock : BOOLEAN, panic : BOOLEAN, unlock : BOOLEAN,
     mock : BOOLEAN, doc : Calls \cup {NoCall}, pnl : Int, sum : Int, streak : Nat]

Pcs == Loaded \cup
    {"idle", "done", "count", "load", "roll", "propose", "reserve", "place",
     "debit", "persist", "create", "credit", "report", "post", "relock",
     "close", "switch", "forget"}

\* Requests are answered from "listening", before MongoDB is connected; the
\* daemons tick from "up".
Boots == {"listening", "connected", "restored", "up"}

TypeOK ==
    /\ scene \in Scenes
    /\ trade \in [Calls -> Trade]
    /\ young \subseteq Calls /\ lossy \subseteq Calls
    /\ realized \in Int
    /\ cash \in Int /\ saved \in Int
    /\ lock \in Calls \cup {NoCall}
    /\ settings \in [current : BOOLEAN, lock : BOOLEAN, panic : BOOLEAN]
    /\ locked \in BOOLEAN
    /\ cooling \subseteq Strategies
    /\ risk \in [streak : Nat, pause : BOOLEAN, known : BOOLEAN, sum : Int]
    /\ inFlight \in BOOLEAN /\ ticking \in BOOLEAN
    /\ halted \in BOOLEAN /\ haltedDoc \in BOOLEAN /\ stopped \in BOOLEAN
    /\ boot \in Boots
    /\ pc \in [Calls -> Pcs]
    /\ mem \in [Calls -> Memory]

NoTrade == [status |-> "none", strategy |-> ScannerStrategy, way |-> "NEUTRAL", pnl |-> 0,
            again |-> FALSE]
NoMem ==
    [strategy |-> ScannerStrategy, way |-> "NEUTRAL", affords |-> FALSE,
     clear |-> FALSE, count |-> 0, next |-> "answer", lock |-> FALSE,
     panic |-> FALSE, unlock |-> FALSE, mock |-> FALSE, doc |-> NoCall, pnl |-> 0, sum |-> 0,
     streak |-> 0]
NoRisk == [streak |-> 0, pause |-> FALSE, known |-> FALSE, sum |-> 0]

Init ==
    /\ scene \in Scenes
    /\ trade = [d \in Calls |-> NoTrade] /\ young = {} /\ lossy = {} /\ realized = 0
    /\ cash = Equity /\ saved = Equity /\ lock = NoCall
    /\ settings = [current |-> ~scene.yesterday, lock |-> scene.carried, panic |-> FALSE]
    /\ locked = FALSE /\ risk = NoRisk /\ cooling = {}
    /\ inFlight = FALSE /\ ticking = FALSE
    /\ halted = FALSE /\ haltedDoc = FALSE /\ stopped = FALSE
    /\ boot = "up"
    /\ pc = [c \in Calls |-> "idle"] /\ mem = [c \in Calls |-> NoMem]

-----------------------------------------------------------------------------
Fault(f) == f \in scene.faults

Open == {d \in Calls : trade[d].status = "OPEN"}

\* MongoDB is connected at "connected", and stays so.
Connected == boot # "listening"

Reopened(d) == [trade EXCEPT ![d].status = "OPEN", ![d].again = TRUE]
Held == {d \in Calls : trade[d].status \in {"OPEN", "EXITING"}}

Busy(c) == pc[c] \notin {"idle", "done"}
AtRest == \A c \in Calls : ~Busy(c)
Go(c, label) == pc' = [pc EXCEPT ![c] = label]

\* One call after the other in some scenes; the operator's hand on the kill
\* switch always.
Starts(c, k) ==
    /\ pc[c] = "idle"
    /\ scene.kind[c] = k
    /\ scene.apart => AtRest
    /\ k \in Switching => \A b \in Calls : Busy(b) => scene.kind[b] \notin Switching

\* Mutant: the turn is not given back.
TurnLeftKept(c) == inFlight

\* The finally block of autoExecuteBestTrade.
TurnLeft(c) == inFlight /\ scene.kind[c] \notin Automatic

\* A call is over, its tick too.
Ends(c) ==
    /\ Go(c, "done")
    /\ mem' = [mem EXCEPT ![c] = NoMem]
    /\ inFlight' = TurnLeft(c)
    /\ ticking' = (ticking /\ scene.kind[c] \notin {"daemon", "monitor"})

\* An automatic entry that never took its turn leaves the flag to who has it.
Refused(c) ==
    /\ Go(c, "done")
    /\ mem' = [mem EXCEPT ![c] = NoMem]
    /\ ticking' = (ticking /\ scene.kind[c] # "daemon")
    /\ UNCHANGED inFlight

-----------------------------------------------------------------------------
(* getSettings: the document is read; on a new day it is rolled over and     *)
(* saved, and a save writes only what was assigned a new value.  If MongoDB  *)
(* is away or throws, a mock stands in: no lock, no panic stop, limits of    *)
(* its own, and a save that does nothing.                                    *)

Ask(c, next, m) ==
    /\ Go(c, "load")
    /\ mem' = [mem EXCEPT ![c] = [m EXCEPT !.next = next]]

LockToday == settings.current /\ settings.lock
LockPast == ~settings.current /\ settings.lock

Load(c) ==
    /\ pc[c] = "load" /\ Connected
    /\ mem' = [mem EXCEPT ![c] =
                 [@ EXCEPT !.lock = LockToday,
                           !.unlock = LockPast,
                           !.panic = settings.panic]]
    /\ IF settings.current
       THEN Go(c, mem[c].next) /\ UNCHANGED risk
       ELSE Go(c, "roll") /\ risk' = [risk EXCEPT !.streak = 0]
    /\ UNCHANGED <<scene, documents, wallet, settings, locked, cooling, flags, switch>>

\* Mutant: the save writes the lock whatever it was.
RolledLockCleared(c) == FALSE

RolledLock(c) == settings.lock /\ ~mem[c].unlock

Roll(c) ==
    /\ pc[c] = "roll"
    /\ settings' = [settings EXCEPT !.current = TRUE,
                                    !.lock = RolledLock(c)]
    /\ Go(c, mem[c].next)
    /\ UNCHANGED <<scene, documents, wallet, locked, risk, cooling, flags, switch, mem>>

\* The read, or the save of a new day, that throws.
Mock(c) ==
    /\ pc[c] \in {"load", "roll"}
    /\ Fault("settings") \/ ~Connected
    /\ mem' = [mem EXCEPT ![c].lock = FALSE, ![c].unlock = FALSE,
                          ![c].panic = FALSE, ![c].mock = TRUE]
    /\ Go(c, mem[c].next)
    /\ UNCHANGED <<scene, documents, wallet, limits, cooling, flags, switch>>

SettingsStart(c) ==
    /\ Starts(c, "settings")
    /\ Ask(c, "answer", mem[c])
    /\ UNCHANGED <<scene, documents, wallet, limits, cooling, flags, switch>>

Answer(c) ==
    /\ pc[c] = "answer"
    /\ Ends(c)
    /\ UNCHANGED <<scene, documents, wallet, limits, cooling, switch>>

-----------------------------------------------------------------------------
(* Automatic entries. *)

\* Mutant: entries do not wait for each other.
MayEnterAtOnce == ~halted

\* The kill switch, then the turn: both before the first await.
MayEnter == ~halted /\ ~inFlight

Enter(c) ==
    /\ MayEnter
    /\ inFlight' = TRUE
    /\ Go(c, "propose")
    /\ UNCHANGED <<ticking, mem>>

AutoStart(c) ==
    /\ Starts(c, "auto") \/ Starts(c, "live")
    /\ Enter(c) \/ (~MayEnter /\ Refused(c))
    /\ UNCHANGED <<scene, documents, wallet, limits, cooling, switch>>

\* Mutant: a tick that outlasts its interval is overlapped by the next.
TickUnderWayUnseen == FALSE

TickUnderWay == ticking

\* A tick that finds one under way returns at once.
DaemonTick(c) ==
    /\ Starts(c, "daemon") /\ boot = "up"
    /\ ticking' = TRUE
    /\ Go(c, IF TickUnderWay THEN "done" ELSE "count")
    /\ UNCHANGED <<scene, documents, wallet, limits, cooling, inFlight, switch, mem>>

DaemonCount(c) ==
    /\ pc[c] = "count"
    /\ Ask(c, "limit", [mem[c] EXCEPT !.count = Cardinality(Open)])
    /\ UNCHANGED <<scene, documents, wallet, limits, cooling, flags, switch>>

DaemonLimit(c) ==
    /\ pc[c] = "limit"
    /\ \/ (mem[c].count < MaxConcurrentTrades \/ mem[c].mock) /\ Enter(c)
       \/ (mem[c].count >= MaxConcurrentTrades \/ ~MayEnter) /\ Refused(c)
    /\ UNCHANGED <<scene, documents, wallet, limits, cooling, switch>>

\* The candidate, its strategy and the margin at hand, then the portfolio's
\* opinion.  In mode LIVE the balance is that of another wallet.
Proposal(c, s) ==
    Ask(c, "vet", [mem[c] EXCEPT !.strategy = s.strategy, !.way = s.way,
                       !.affords = cash >= Cost[s.strategy] \/ scene.kind[c] = "live"])

Propose(c) ==
    /\ pc[c] = "propose"
    /\ \E s \in scene.signals : Proposal(c, s)
    /\ UNCHANGED <<scene, documents, wallet, limits, cooling, flags, switch>>

\* No signal, no quote, no portfolio approval: the entry is over.
TurnedDown(c) ==
    /\ pc[c] = "propose" /\ Fault("reject")
    /\ Ends(c)
    /\ UNCHANGED <<scene, documents, wallet, limits, cooling, switch>>

-----------------------------------------------------------------------------
(* validateTrade, for the automatic entries and POST /execute-strategy. *)

StrategyStart(c) ==
    /\ Starts(c, "strategy")
    /\ IF halted THEN Go(c, "done") /\ UNCHANGED mem
                 ELSE \E s \in scene.signals : Proposal(c, s)
    /\ UNCHANGED <<scene, documents, wallet, limits, cooling, flags, switch>>

\* Mutant: recent entries are looked for, open ones are not.
GuardsClearOfOpen(c) ==
    LET way == mem[c].way
    IN  /\ way # "NEUTRAL" =>
             /\ \A d \in Open : trade[d].way \in {"NEUTRAL", way}
             /\ \A d \in lossy : trade[d].way # way
        /\ \A d \in young : trade[d].strategy # mem[c].strategy

\* What Mongo knows: an open trade of the strategy, one that bets the other
\* way, a recent loss that way, a recent entry of the strategy.
GuardsClear(c) ==
    LET same(d) == trade[d].strategy = mem[c].strategy
        way == mem[c].way
    IN  /\ \A d \in Open : ~same(d)
        /\ way # "NEUTRAL" =>
             /\ \A d \in Open : trade[d].way \in {"NEUTRAL", way}
             /\ \A d \in lossy : trade[d].way # way
        /\ \A d \in young : ~same(d)

\* The checks on the settings and in memory, and the query behind them.
Vet(c) ==
    /\ pc[c] = "vet"
    /\ IF mem[c].panic \/ mem[c].lock \/ risk.pause \/ ~mem[c].affords
       THEN Ends(c)
       ELSE /\ \E clear \in {GuardsClear(c) \/ ~Connected} \cup {b \in {TRUE} : Fault("read")} :
                 mem' = [mem EXCEPT ![c].clear = clear]
            /\ Go(c, "reserve")
            /\ UNCHANGED flags
    /\ UNCHANGED <<scene, documents, wallet, limits, cooling, switch>>

\* The query's answer, the strategy's cooldown, and its reservation: one step.
Reserve(c) ==
    /\ pc[c] = "reserve"
    /\ IF ~mem[c].clear \/ mem[c].strategy \in cooling
       THEN Ends(c) /\ UNCHANGED cooling
       ELSE /\ cooling' = cooling \cup {mem[c].strategy}
            /\ \/ /\ Go(c, IF scene.kind[c] = "strategy" THEN "debit" ELSE "place")
                  /\ UNCHANGED <<flags, mem>>
               \/ scene.kind[c] = "strategy" /\ Fault("positional") /\ Ends(c)
    /\ UNCHANGED <<scene, documents, wallet, limits, switch>>

\* Mutant: the reservation of an order that was refused stays.
ReleasedKept(c) == cooling

\* releaseReservation.
Released(c) == cooling \ {mem[c].strategy}

\* The paper adapter fills every leg, the live one refuses the first.
Place(c) ==
    /\ pc[c] = "place"
    /\ IF scene.kind[c] = "live"
       THEN cooling' = Released(c) /\ Ends(c)
       ELSE Go(c, "debit") /\ UNCHANGED <<cooling, flags, mem>>
    /\ UNCHANGED <<scene, documents, wallet, limits, switch>>

-----------------------------------------------------------------------------
(* POST /execute: a kill switch, a panic stop, and no more.  Its document    *)
(* names no underlying, so that no guard sees which way it bets.             *)

OrderStart(c) ==
    /\ Starts(c, "order")
    /\ IF halted THEN Go(c, "done") /\ UNCHANGED mem
                 ELSE Ask(c, "payable", mem[c])
    /\ UNCHANGED <<scene, documents, wallet, limits, cooling, flags, switch>>

Payable(c) ==
    /\ pc[c] = "payable"
    /\ IF mem[c].panic THEN Ends(c) ELSE Go(c, "debit") /\ UNCHANGED <<flags, mem>>
    /\ UNCHANGED <<scene, documents, wallet, limits, cooling, switch>>

-----------------------------------------------------------------------------
(* The margin, under the wallet's lock, and the trade. *)

\* Mutant: the margin check made before the awaits is relied on.
CoversUnchecked(cost) == TRUE

Covers(cost) == cash >= cost

\* Mutant: the balance is floored at zero.
RemainingFloored(cost) == IF cash > cost THEN cash - cost ELSE 0

Remaining(cost) == cash - cost

\* /execute-strategy takes what it needs from the map, and saves nothing.
Debit(c) ==
    /\ pc[c] = "debit" /\ lock = NoCall
    /\ LET cost == Cost[mem[c].strategy]
       IN  CASE scene.kind[c] = "strategy" ->
                  /\ cash' = Remaining(cost)
                  /\ Go(c, "create")
                  /\ UNCHANGED <<lock, flags, mem>>
             [] scene.kind[c] # "strategy" /\ Covers(cost) ->
                  /\ cash' = Remaining(cost)
                  /\ lock' = c
                  /\ Go(c, "persist")
                  /\ UNCHANGED <<flags, mem>>
             [] OTHER -> Ends(c) /\ UNCHANGED <<cash, lock>>
    /\ UNCHANGED <<scene, documents, saved, limits, cooling, switch>>

\* Mutant: the map is set, the snapshot is not.
SnapshotsNone == {saved}

Snapshots ==
    {n \in {cash} : Connected} \cup {n \in {saved} : ~Connected \/ Fault("snapshot")}

\* setWalletBalance: the snapshot of the map; an error is logged and dropped.
Persist(c) ==
    /\ pc[c] = "persist"
    /\ saved' \in Snapshots
    /\ lock' = NoCall
    /\ CASE scene.kind[c] = "monitor" -> Ask(c, "tally", mem[c])
         [] scene.kind[c] = "square" -> Go(c, "report") /\ UNCHANGED mem
         [] OTHER -> Go(c, "create") /\ UNCHANGED mem
    /\ UNCHANGED <<scene, documents, cash, limits, cooling, flags, switch>>

\* Before MongoDB is connected mongoose keeps it waiting, for ten seconds.
Create(c) ==
    /\ pc[c] = "create"
    /\ \/ /\ Connected
          /\ trade' = [trade EXCEPT ![c] =
                         [status |-> "OPEN", strategy |-> mem[c].strategy,
                          way |-> mem[c].way, pnl |-> 0, again |-> FALSE]]
          /\ young' = young \cup {c}
       \/ (Fault("create") \/ ~Connected) /\ UNCHANGED <<trade, young>>
    /\ Ends(c)
    /\ UNCHANGED <<scene, lossy, realized, wallet, limits, cooling, switch>>

-----------------------------------------------------------------------------
(* Exits: the trade, the credit, and recordTradeOutcome. *)

\* Where two exits meet over one trade is the subject of IndianExit.
Free(d) == \A b \in Calls : mem[b].doc # d

Takes(c, d, pnl) == mem' = [mem EXCEPT ![c].doc = d, ![c].pnl = pnl]

\* The kill switch stops exits too.
ExitsAllowed == ~halted

\* A tick of the daemon saves its trade as EXIT_PENDING.
MonitorStart(c) ==
    /\ Starts(c, "monitor") /\ boot = "up" /\ ~ticking
    /\ ExitsAllowed
    /\ ticking' = TRUE
    /\ \E d \in Open, pnl \in Outcomes :
         /\ Free(d)
         /\ trade' = [trade EXCEPT ![d].status = "EXITING"]
         /\ Takes(c, d, pnl)
    /\ Go(c, "credit")
    /\ UNCHANGED <<scene, young, lossy, realized, wallet, limits, cooling, inFlight, switch>>

\* The square-off claims its trade as CLOSED.
SquareStart(c) ==
    /\ Starts(c, "square") /\ boot = "up"
    /\ \E d \in Held, pnl \in Outcomes :
         /\ Free(d)
         /\ trade' = [trade EXCEPT ![d].status = "CLOSED"]
         /\ Takes(c, d, pnl)
    /\ Go(c, "credit")
    /\ UNCHANGED <<scene, young, lossy, realized, wallet, limits, cooling, flags, switch>>

\* A rejected order, or one that throws: the monitor gives its trade back.
ExitRefused(c) ==
    /\ pc[c] = "credit" /\ scene.kind[c] = "monitor" /\ Fault("reopen")
    /\ trade' = Reopened(mem[c].doc)
    /\ Ends(c)
    /\ UNCHANGED <<scene, young, lossy, realized, wallet, limits, cooling, switch>>

\* recoverPendingExits, each minute, of an exit that a restart has cut off.
\* That of one under way is IndianExit's.
Recovered(d) ==
    /\ boot = "up" /\ trade[d].status = "EXITING" /\ Free(d)
    /\ trade' = Reopened(d)
    /\ UNCHANGED <<scene, young, lossy, realized, wallet, limits, cooling, flags, switch, pc, mem>>

Credit(c) ==
    /\ pc[c] = "credit" /\ lock = NoCall
    /\ cash' = cash + Cost[trade[mem[c].doc].strategy]
    /\ lock' = c
    /\ Go(c, "persist")
    /\ UNCHANGED <<scene, documents, saved, limits, cooling, flags, switch, mem>>

\* The P&L of a trade reaches its document.
Realized(c) ==
    /\ trade' = [trade EXCEPT ![mem[c].doc].status = "CLOSED",
                              ![mem[c].doc].pnl = mem[c].pnl]
    /\ realized' = realized - trade[mem[c].doc].pnl + mem[c].pnl
    /\ lossy' = IF mem[c].pnl < 0 THEN lossy \cup {mem[c].doc} ELSE lossy

\* The square-off saves it before the outcome is recorded, the monitor after.
Report(c) ==
    /\ pc[c] = "report"
    /\ Realized(c)
    /\ Ask(c, "tally", mem[c])
    /\ UNCHANGED <<scene, young, wallet, limits, cooling, flags, switch>>

Close(c) ==
    /\ pc[c] = "close"
    /\ IF scene.kind[c] = "monitor" THEN Realized(c) ELSE UNCHANGED <<trade, lossy, realized>>
    /\ Ends(c)
    /\ UNCHANGED <<scene, young, wallet, limits, cooling, switch>>

\* Mutant: after a restart the day begins at zero.
DaySumForgotten == 0

\* getTodayRealizedPnL: if its query throws, nothing was realized.
DaySum == realized
DaySums == {DaySum} \cup {n \in {0} : Fault("read")}

\* Mutant: a win takes one loss off the streak.
StreakAfterShortened(loss, paused, streak) ==
    IF loss /\ ~paused THEN streak + 1 ELSE streak - 1

\* A win ends the streak, and so does the pause it has led to.
StreakAfter(loss, paused, streak) == IF loss /\ ~paused THEN streak + 1 ELSE 0

\* An outcome on top of the day's sum so far and of the streak when it began.
Outcome(c, prior, streak) ==
    LET day == prior + mem[c].pnl
        loss == mem[c].pnl < 0
        run == loss /\ streak + 1 >= MaxConsecutiveLosses
        lockNow == (run /\ day <= 0) \/ day <= -MaxDailyLoss
    IN  /\ risk' = [streak |-> StreakAfter(loss, run /\ day > 0, streak),
                    pause |-> risk.pause \/ (run /\ day > 0),
                    known |-> TRUE, sum |-> day]
        /\ Go(c, IF lockNow /\ ~mem[c].lock THEN "relock" ELSE "close")

Tally(c) ==
    /\ pc[c] = "tally"
    /\ IF risk.known
       THEN Outcome(c, risk.sum, risk.streak) /\ UNCHANGED mem
       ELSE /\ \E sum \in DaySums :
                  mem' = [mem EXCEPT ![c].sum = sum, ![c].streak = risk.streak]
            /\ Go(c, "post")
            /\ UNCHANGED risk
    /\ UNCHANGED <<scene, documents, wallet, settings, locked, cooling, flags, switch>>

Post(c) ==
    /\ pc[c] = "post"
    /\ Outcome(c, mem[c].sum, mem[c].streak)
    /\ UNCHANGED <<scene, documents, wallet, settings, locked, cooling, flags, switch, mem>>

Relock(c) ==
    /\ pc[c] = "relock"
    /\ IF mem[c].mock
       THEN UNCHANGED <<settings, locked>>
       ELSE settings' = [settings EXCEPT !.lock = TRUE] /\ locked' = TRUE
    /\ Go(c, "close")
    /\ UNCHANGED <<scene, documents, wallet, risk, cooling, flags, switch, mem>>

\* The save throws: the monitor takes its exit for a failed one.
RelockFails(c) ==
    /\ pc[c] = "relock" /\ Fault("settings") /\ ~mem[c].mock
    /\ IF scene.kind[c] = "monitor" THEN trade' = Reopened(mem[c].doc) ELSE UNCHANGED trade
    /\ Ends(c)
    /\ UNCHANGED <<scene, young, lossy, realized, wallet, limits, cooling, switch>>

-----------------------------------------------------------------------------
(* The operator, the clock, and a crash. *)

\* disableTrading: the state at once, its document behind it.
Halt(c) ==
    /\ Starts(c, "halt")
    /\ halted' = TRUE
    /\ Go(c, "switch")
    /\ UNCHANGED <<scene, documents, wallet, limits, cooling, flags, haltedDoc, stopped, boot, mem>>

Resume(c) ==
    /\ Starts(c, "resume")
    /\ halted' = FALSE /\ stopped' = FALSE
    /\ Go(c, "switch")
    /\ UNCHANGED <<scene, documents, wallet, limits, cooling, flags, haltedDoc, boot, mem>>

\* Without MongoDB nothing is written, and the call is answered all the same.
SwitchSaved(c) ==
    /\ pc[c] = "switch"
    /\ \/ Connected /\ haltedDoc' = (scene.kind[c] = "halt")
       \/ (Fault("switch") \/ ~Connected) /\ UNCHANGED haltedDoc
    /\ stopped' = (scene.kind[c] = "halt")
    /\ Go(c, "done")
    /\ UNCHANGED <<scene, documents, wallet, limits, cooling, flags, halted, boot, mem>>

PanicStop(c) ==
    /\ \E k \in {"panic", "calm"} :
         /\ Starts(c, k)
         /\ settings' = [settings EXCEPT !.panic = IF Connected THEN k = "panic" ELSE @]
    /\ Go(c, "done")
    /\ UNCHANGED <<scene, documents, wallet, locked, risk, cooling, flags, switch, mem>>

\* resetDailyRiskLock: the document, then the maps.
ResetLock(c) ==
    /\ Starts(c, "reset")
    /\ settings' = [settings EXCEPT !.lock = @ /\ ~Connected]
    /\ locked' = FALSE
    /\ Go(c, "forget")
    /\ UNCHANGED <<scene, documents, wallet, risk, cooling, flags, switch, mem>>

ForgetStreak(c) ==
    /\ pc[c] = "forget"
    /\ risk' = [risk EXCEPT !.streak = 0, !.pause = FALSE]
    /\ Go(c, "done")
    /\ UNCHANGED <<scene, documents, wallet, settings, locked, cooling, flags, switch, mem>>

\* The cooldowns last minutes, a call seconds.
CooldownOver(s) ==
    /\ scene.clock /\ AtRest
    /\ cooling' = cooling \ {s}
    /\ young' = {d \in young : trade[d].strategy # s}
    /\ UNCHANGED <<scene, trade, lossy, realized, wallet, limits, flags, switch, pc, mem>>

LossesOver ==
    /\ scene.clock /\ AtRest
    /\ cooling' = {} /\ young' = {} /\ lossy' = {}
    /\ risk' = [risk EXCEPT !.pause = FALSE]
    /\ UNCHANGED <<scene, trade, realized, wallet, settings, locked, flags, switch, pc, mem>>

\* The day's sum begins again, and the settings do not know yet.
NewDay ==
    /\ scene.clock /\ AtRest
    /\ trade' = [d \in Calls |-> [trade[d] EXCEPT !.pnl = 0]]
    /\ young' = {} /\ lossy' = {} /\ realized' = 0 /\ cooling' = {}
    /\ settings' = [settings EXCEPT !.current = FALSE]
    /\ locked' = FALSE
    /\ risk' = [risk EXCEPT !.pause = FALSE, !.known = FALSE, !.sum = 0]
    /\ UNCHANGED <<scene, wallet, flags, switch, pc, mem>>

\* Mutant: a server starts with the switch off.
RestoredOff == FALSE

\* TradingKillSwitch.initialize.
Restored == haltedDoc

\* If it cannot be read the switch stays off.
Switch(off) == halted' \in {Restored} \cup {b \in {off} : Fault("switch")}

\* What the process kept is gone.  If nobody calls before the server is up, the
\* switch and the wallet are restored in one step; the daemons start later.
Restart ==
    /\ Fault("crash")
    /\ lock' = NoCall
    /\ cooling' = {} /\ risk' = NoRisk
    /\ inFlight' = FALSE /\ ticking' = FALSE
    /\ \/ boot' = "up" /\ cash' = saved /\ Switch(FALSE)
       \/ Fault("boot") /\ boot' = "listening" /\ cash' = Equity /\ halted' = FALSE
    /\ pc' = [c \in Calls |-> IF Busy(c) THEN "done" ELSE pc[c]]
    /\ mem' = [c \in Calls |-> NoMem]
    /\ UNCHANGED <<scene, documents, saved, settings, locked, haltedDoc, stopped>>

\* connectMongoWithRetry.
Connect ==
    /\ boot = "listening" /\ boot' = "connected"
    /\ UNCHANGED <<scene, documents, wallet, limits, cooling, flags, halted, haltedDoc,
                   stopped, pc, mem>>

\* TradingKillSwitch.initialize, over whatever was asked for meanwhile.
SwitchRestored ==
    /\ boot = "connected" /\ boot' = "restored"
    /\ Switch(halted)
    /\ UNCHANGED <<scene, documents, wallet, limits, cooling, flags, haltedDoc, stopped, pc, mem>>

\* hydrate, over the wallet that was used meanwhile.  That a snapshot is on its
\* way while the others are read is left out.
Hydrated ==
    /\ boot = "restored" /\ boot' = "up"
    /\ lock = NoCall /\ cash' = saved
    /\ UNCHANGED <<scene, documents, saved, lock, limits, cooling, flags, halted, haltedDoc,
                   stopped, pc, mem>>

-----------------------------------------------------------------------------
Start(c) ==
    \/ SettingsStart(c) \/ AutoStart(c) \/ DaemonTick(c) \/ StrategyStart(c)
    \/ OrderStart(c) \/ MonitorStart(c) \/ SquareStart(c) \/ Halt(c) \/ Resume(c)
    \/ PanicStop(c) \/ ResetLock(c)

Step(c) ==
    \/ Load(c) \/ Roll(c) \/ Mock(c) \/ Answer(c) \/ DaemonCount(c) \/ DaemonLimit(c)
    \/ Propose(c) \/ TurnedDown(c) \/ Vet(c) \/ Reserve(c) \/ Place(c)
    \/ Payable(c) \/ Debit(c) \/ Persist(c) \/ Create(c) \/ Credit(c) \/ ExitRefused(c)
    \/ Report(c) \/ Close(c) \/ Tally(c) \/ Post(c) \/ Relock(c)
    \/ RelockFails(c) \/ SwitchSaved(c) \/ ForgetStreak(c)

Next ==
    \/ \E c \in Calls : Start(c) \/ Step(c)
    \/ \E s \in Strategies : CooldownOver(s)
    \/ \E d \in Calls : Recovered(d)
    \/ LossesOver \/ NewDay \/ Restart \/ Connect \/ SwitchRestored \/ Hydrated

Spec == Init /\ [][Next]_vars

\* The driver answers or throws, so that a call that is under way goes on; each
\* makes one pass, which is why this much is enough.
Fairness == WF_vars(\E c \in Calls : Step(c))

FairSpec == Spec /\ Fairness

-----------------------------------------------------------------------------
(* Properties. *)

Has(kinds) == \E c \in Calls : scene.kind[c] \in kinds

\* What the trades closed today have realized.
RealizedToday ==
    Total([d \in Calls |-> IF trade[d].status = "CLOSED" THEN trade[d].pnl ELSE 0], Calls)

\* What open trades will release.
Margin(d) == IF d \in Held THEN Cost[trade[d].strategy] ELSE 0
Kept == Total([d \in Calls |-> Margin(d)], Calls)

\* Open trades that no exit has given back.  Entries look for open trades only,
\* so that one let in while an exit was under way stands beside the trade that
\* the exit, or its recovery, opens again.
Standing == {d \in Open : ~trade[d].again}

\* Of the trades no exit has given back a strategy has one open at most, over
\* restarts and cooldowns that run out: the guards in MongoDB and in memory cover
\* for each other (riskManager, `five tsx-watch reloads in 80s once opened four
\* INFY puts`).  Not if both are gone: the query throws and the map has run out,
\* or an entry comes before MongoDB is connected.  POST /execute asks neither.
OneOpenPerStrategy ==
    ~Fault("boot") /\ ~(Fault("read") /\ (scene.clock \/ Fault("crash"))) =>
        \A d, e \in Standing :
            trade[d].strategy = trade[e].strategy /\ trade[d].strategy # ScannerStrategy => d = e

\* While only automatic entries run, no two open trades bet against each other,
\* but for those an exit has given back: entries come one at a time, so that each
\* is seen by the next one's query, if that is answered.
NoOpposite ==
    ~Has({"strategy", "order"}) /\ ~Fault("read") /\ ~Fault("boot") =>
        \A d, e \in Standing : {trade[d].way, trade[e].way} # {"BULL", "BEAR"}

\* The daemon alone never opens more than maxConcurrentTrades: the count, the
\* entry and the next tick's count do not overlap.  A trade that an exit gives
\* back comes on top, and settings that cannot be read have another limit.
WithinLimit ==
    ~Has(Entries \ {"daemon"}) /\ ~Fault("settings") =>
        Cardinality(Standing) <= MaxConcurrentTrades

\* At rest, what the wallet lacks is what its trades hold: no entry's debit is
\* lost under another's or under a credit, none is taken for no trade, and a
\* refused exit returns none.  Not over a crash, nor where a lock that cannot be
\* saved opens a trade again whose margin is back.
MarginTaken ==
    AtRest /\ ~Fault("create") /\ ~Fault("crash") /\ ~Fault("settings") =>
        cash + Kept = Equity

\* A crash at any point makes no money: what is saved and what open trades will
\* release never exceed the equity (`phantom INR').  Exits are IndianExit's; an
\* entry before the wallets are read again spends, and saves, a balance that is
\* not there.
SavedCovers ==
    ~Has({"strategy"} \cup Exits) /\ ~Fault("snapshot") /\ ~Fault("boot") =>
        saved + Kept <= Equity

\* The debit is checked on the balance it is taken from, so that entries that
\* passed their margin check on the same cash cannot all spend it.
NotOverdrawn == ~Has({"strategy"}) => cash >= 0

\* At rest a strategy sits out its cooldown if and only if it has a recent
\* trade: an entry refused later gives its reservation back, and only its own.
CooledForTrade ==
    /\ AtRest /\ ~Has(Exits) /\ \A s \in Strategies : cash >= Cost[s]
    /\ ~Fault("create") /\ ~Fault("positional") /\ ~Fault("crash")
    =>
        cooling = {trade[d].strategy : d \in young} \ {ScannerStrategy}

\* At rest, a day whose closed trades lost the limit is locked, over restarts in
\* the middle of a monitor's exit too: the lock is saved before the trade is.
\* The square-off is over by then, and when nothing is known of the day it reads
\* its own result into the sum and adds it again: a loss counts twice, and so
\* would a win, behind which later losses hide.  If the settings cannot be read
\* or saved the loss is counted and no lock is written: getSettings hands out a
\* document that saves nothing, and says nothing.
LossLocks ==
    /\ AtRest /\ scene.apart /\ ~Has({"reset"}) /\ ~Fault("read") /\ ~Fault("settings")
    /\ Has({"square"}) => ~Fault("crash") /\ \A d \in Calls : trade[d].pnl <= 0
    /\ RealizedToday <= -MaxDailyLoss
    => settings.lock

\* The day's lock, once taken, is lifted by the operator only, though settings
\* documents read before it are saved after it.  Not if the lock of the day
\* before was on: of two calls that both find it, the later one lifts the new.
LockKept == scene.apart \/ ~(scene.carried \/ scene.clock) => (locked => settings.lock)

\* Past the kill switch's check.
Entering(c) ==
    /\ scene.kind[c] \in Entries
    /\ pc[c] \notin {"idle", "done", "count", "limit"}
    /\ ~(pc[c] \in {"load", "roll"} /\ mem[c].next = "limit")

\* From the answer to a halt until trading is resumed no entry begins, over
\* restarts too (tradingKillSwitch: `Persisted in MongoDB to survive crashes'), if
\* its document is written and read, and no request comes before it is: a server
\* that starts trades until initialize has run.
HaltHolds ==
    [][\A c \in Calls :
         stopped /\ ~Entering(c) /\ ~Fault("switch") /\ ~Fault("boot") => ~Entering(c)']_vars

\* A user's automatic entries are never shut out for good: whatever an entry
\* meets, its turn ends.
TurnEnds == inFlight ~> ~inFlight
=============================================================================
