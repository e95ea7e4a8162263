---------------------------- MODULE IndianExit ----------------------------
(***************************************************************************)
(* One open trade of the Indian market, and everything that takes it to    *)
(* CLOSED and returns the margin it locked:                                *)
(*   monitor   monitorAndAutoSelloff and AutoPilotStateMachine.processTick *)
(*             (services/indianMarketAutoTrader.ts,                        *)
(*              services/indianMarket/autoPilotStateMachine.ts)            *)
(*   squareoff executeGlobalSquareOff (services/intradaySquareOff.ts)      *)
(*   close     POST /close-position (routes/indianMarket.ts)               *)
(*   recover   recoverPendingExits, from the reconciliation daemon         *)
(* on one server or several, with MongoDB connected and every write of the *)
(* coordinator answered: one that throws falls back on the memory of its   *)
(* server, which is left out.  A job is one cycle of a daemon, or one      *)
(* request.  Margin is counted in units of quantity; what a price adds to  *)
(* it or takes from it is left out.                                        *)
(***************************************************************************)
EXTENDS Integers

CONSTANTS
    Instances,  \* the servers that share the database
    NoOwner,    \* nobody holds the lease
    Stopped,    \* a process that is no more holds it: the next has an id of its own
    Jobs,       \* the cycles and requests of a run
    Home,       \* Home[j]: the server that runs job j
    Scenes,     \* what the runs consist of, one scene per run
    Qty         \* quantity of the trade, and the margin it locked

Kinds == {"monitor", "squareoff", "close", "recover", "none"}
Triggers == {"STOP", "TARGET"}

FaultKinds ==
    { "reject",   \* the broker rejects an exit order
      "partial",  \* it fills part of it
      "manual",   \* the Auto-Pilot may be in MANUAL mode
      "slow",     \* an exit may outlive its lease of 5 s
      "window",   \* an exit may end within 50 ms of its record, or a lease run
                  \* out before the record is written
      "save",     \* a write to MongoDB may throw before anything is sold
      "late",     \* or once the trade is claimed or its order filled
      "crash" }   \* a server may stop between two awaits

\* kind: what each job is; prices: where a tick may find the price; apart: no
\* job starts before the others are over, and their records 50 ms old.
SceneType ==
    [kind : [Jobs -> Kinds], prices : SUBSET (Triggers \cup {"between"}),
     faults : SUBSET FaultKinds, apart : BOOLEAN]

ASSUME ExitAssumption ==
    /\ NoOwner \notin Instances /\ Stopped \notin Instances /\ NoOwner # Stopped
    /\ Home \in [Jobs -> Instances]
    /\ Scenes \subseteq SceneType
    /\ Qty \in Nat \ {0}

VARIABLES
    scene,    \* the scene of this run
    doc,      \* the Trade document: status, quantity and two fields of its meta
    lease,    \* owner of the distributed lock LOCK:POSITION:<trade>
    intents,  \* keys of the idempotency records
    recent,   \* those whose record is less than 50 ms old
    registry, \* registry[i]: the keys that server i has in memory
    pc,       \* the await each job has reached
    copy,     \* the document as the job has it in memory
    dirty,    \* the paths of the copy that the next save writes
    trigger,  \* what the tick of a monitor has hit
    noted,    \* the balance a close has read
    cash,     \* margin returned to the wallet
    sold      \* quantity that exit orders have filled

coordinator == <<lease, intents, recent, registry>>
work == <<copy, dirty, trigger, noted>>
vars == <<scene, doc, coordinator, pc, work, cash, sold>>

\* OPEN_INDIAN_TRADE_STATUSES.
OpenStatuses ==
    {"OPEN", "TARGET_TRIGGERED", "STOP_TRIGGERED", "EXIT_PENDING",
     "EXIT_PARTIALLY_FILLED"}

\* meta.isExitPending is `waiting', meta.filledExitQty is `filled'.
Document ==
    [status : OpenStatuses \cup {"CLOSED"}, qty : 0 .. Qty, waiting : BOOLEAN,
     filled : 0 .. Qty]

\* What a job does once it has given the lease back.
After == [leave |-> "done", leaveHold |-> "hold", leaveUndo |-> "undo",
          leaveFill |-> "fill"]

Pcs == {"idle", "read", "lock", "register", "pending", "place", "credit",
        "refused", "claim", "refund", "closing", "settling", "recovering"}
       \cup DOMAIN After \cup {After[l] : l \in DOMAIN After}

Keys == Triggers \X (0 .. Qty)

TypeOK ==
    /\ scene \in Scenes
    /\ doc \in Document
    /\ lease \in Instances \cup {NoOwner, Stopped}
    /\ intents \subseteq Keys
    /\ recent \subseteq Keys
    /\ registry \in [Instances -> SUBSET Keys]
    /\ pc \in [Jobs -> Pcs]
    /\ copy \in [Jobs -> Document]
    /\ dirty \in [Jobs -> SUBSET {"status", "qty", "meta"}]
    /\ trigger \in [Jobs -> Triggers]
    /\ noted \in [Jobs -> Nat]
    /\ cash \in Nat
    /\ sold \in Nat

Fresh == [status |-> "OPEN", qty |-> Qty, waiting |-> FALSE, filled |-> 0]

Init ==
    /\ scene \in Scenes
    /\ doc = Fresh
    /\ lease = NoOwner
    /\ intents = {}
    /\ recent = {}
    /\ registry = [i \in Instances |-> {}]
    /\ pc = [j \in Jobs |-> "idle"]
    /\ copy = [j \in Jobs |-> Fresh]
    /\ dirty = [j \in Jobs |-> {}]
    /\ trigger = [j \in Jobs |-> "STOP"]
    /\ noted = [j \in Jobs |-> 0]
    /\ cash = 0
    /\ sold = 0

-----------------------------------------------------------------------------
Busy(j) == pc[j] \notin {"idle", "done"}

Go(j, label) == pc' = [pc EXCEPT ![j] = label]

\* Job j of this kind may start.  The daemon of a server skips a cycle while
\* the one before it is still running (tickInFlight).
Starts(j, k) ==
    /\ pc[j] = "idle"
    /\ scene.kind[j] = k
    /\ scene.apart => recent = {} /\ \A i \in Jobs : ~Busy(i)
    /\ k = "monitor" =>
          \A i \in Jobs : Busy(i) /\ scene.kind[i] = k => Home[i] # Home[j]

\* The document is read into the memory of job j.
Load(j) ==
    /\ copy' = [copy EXCEPT ![j] = doc]
    /\ dirty' = [dirty EXCEPT ![j] = {}]

\* save() of the document d, of which the paths p were assigned: the others
\* keep what the database has by now.  meta is one path.
Save(d, p) ==
    doc' = [ status  |-> IF "status" \in p THEN d.status ELSE doc.status,
             qty     |-> IF "qty" \in p THEN d.qty ELSE doc.qty,
             waiting |-> IF "meta" \in p THEN d.waiting ELSE doc.waiting,
             filled  |-> IF "meta" \in p THEN d.filled ELSE doc.filled ]

\* Job j assigns the document d in memory, paths p of it, and saves it.
SaveCopy(j, d, p) ==
    /\ Save(d, dirty[j] \cup p)
    /\ copy' = [copy EXCEPT ![j] = d]
    /\ dirty' = [dirty EXCEPT ![j] = {}]

\* The same, and the save throws: the paths stay dirty.
SaveThrows(j, d, p, fault) ==
    /\ fault \in scene.faults
    /\ copy' = [copy EXCEPT ![j] = d]
    /\ dirty' = [dirty EXCEPT ![j] = dirty[j] \cup p]
    /\ UNCHANGED doc

-----------------------------------------------------------------------------
(* The monitor: one cycle reads every open trade, then ticks each in turn.  *)

Watched(d) == d.status \in OpenStatuses

MonitorRead(j) ==
    /\ Starts(j, "monitor")
    /\ IF Watched(doc)
       THEN Load(j) /\ Go(j, "read")
       ELSE Go(j, "done") /\ UNCHANGED <<copy, dirty>>
    /\ UNCHANGED <<scene, doc, coordinator, trigger, noted, cash, sold>>

\* The Auto-Pilot is paused or killed, the tick is stale or invalid, or an
\* exit order is out.
TickSkipped(j) ==
    /\ pc[j] = "read"
    /\ Go(j, "done")
    /\ UNCHANGED <<scene, doc, coordinator, work, cash, sold>>

\* processTick goes on: the trade is open and no exit order is out for it.
Exitable(d) == d.status \notin {"CLOSED", "EXIT_PENDING"} /\ ~d.waiting

\* The tick hits neither stop nor target: the watermarks in meta are saved.  A
\* save that throws is ignored.
TickQuiet(j) ==
    /\ pc[j] = "read"
    /\ Exitable(copy[j])
    /\ "between" \in scene.prices
    /\ Save(copy[j], {"meta"})
    /\ Go(j, "done")
    /\ UNCHANGED <<scene, coordinator, work, cash, sold>>

\* The tick hits stop or target.  A stop that trails, or a target that moves,
\* is saved on the way, and meta with it.
TickTriggers(j) ==
    /\ pc[j] = "read"
    /\ Exitable(copy[j])
    /\ \E t \in Triggers \cap scene.prices :
          trigger' = [trigger EXCEPT ![j] = t]
    /\ \E p \in {{}, {"meta"}} : Save(copy[j], p)
    /\ Go(j, "lock")
    /\ UNCHANGED <<scene, coordinator, copy, dirty, noted, cash, sold>>

-----------------------------------------------------------------------------
(* DistributedCoordinator: a lease on the position, a record per exit.      *)

\* The lock is free, has run out, or is this server's own.
AcquireLock(j) ==
    /\ pc[j] = "lock"
    /\ IF lease \in {NoOwner, Home[j]}
       THEN lease' = Home[j] /\ Go(j, "register")
       ELSE Go(j, "done") /\ UNCHANGED lease
    /\ UNCHANGED <<scene, doc, intents, recent, registry, work, cash, sold>>

\* The holder is still at work, or has stopped, when its 5 s are over: by then
\* the record of its exit is written, and older than 50 ms.
LeaseExpires ==
    /\ lease # NoOwner
    /\ "slow" \in scene.faults \/ \A j \in Jobs : Busy(j) => Home[j] # lease
    /\ \/ "window" \in scene.faults
       \/ recent = {} /\ \A j \in Jobs : pc[j] = "register" => Home[j] # lease
    /\ lease' = NoOwner
    /\ UNCHANGED <<scene, doc, intents, recent, registry, pc, work, cash, sold>>

\* generateIdempotencyKey: each partial fill gets a key of its own.
IntentKey(j) == <<trigger[j], copy[j].filled>>

\* Mutant: a record that exists is taken for a new one.
IsNewAlways(i, key) == TRUE

\* The server has not had the key, and its record is new, or so young that it
\* is taken for the one just inserted.
IsNew(i, key) == key \notin registry[i] /\ (key \in intents => key \in recent)

\* registerOrderIntent, then the mode.  Records live for seven days.
Register(j) ==
    /\ pc[j] = "register"
    /\ IF IsNew(Home[j], IntentKey(j))
       THEN /\ intents' = intents \cup {IntentKey(j)}
            /\ recent' = recent \cup {IntentKey(j)}
            /\ registry' = [registry EXCEPT ![Home[j]] = @ \cup {IntentKey(j)}]
            /\ \/ Go(j, "pending")
               \/ "manual" \in scene.faults /\ Go(j, "leaveHold")
       ELSE /\ Go(j, "leave")
            /\ UNCHANGED <<intents, recent, registry>>
    /\ UNCHANGED <<scene, doc, lease, work, cash, sold>>

\* 50 ms are over.
RecordAges ==
    /\ \E key \in recent : recent' = recent \ {key}
    /\ UNCHANGED <<scene, doc, lease, intents, registry, pc, work, cash, sold>>

\* An exit that got as far as its order, or its save, has taken 50 ms.
Lingers(j) ==
    pc[j] \in {"leaveUndo", "leaveFill"} /\ "window" \notin scene.faults => recent = {}

\* releaseLock: the record is deleted if this server still owns it.
ReleaseLock(j) ==
    /\ pc[j] \in DOMAIN After
    /\ Lingers(j)
    /\ lease' = IF lease = Home[j] THEN NoOwner ELSE lease
    /\ Go(j, After[pc[j]])
    /\ UNCHANGED <<scene, doc, intents, recent, registry, work, cash, sold>>

-----------------------------------------------------------------------------
(* The exit workflow.                                                       *)

\* MANUAL mode: the trigger is shown to the operator.
Hold(j) ==
    /\ pc[j] = "hold"
    /\ LET d == [copy[j] EXCEPT !.status = IF trigger[j] = "TARGET"
                                           THEN "TARGET_TRIGGERED"
                                           ELSE "STOP_TRIGGERED"]
       IN SaveCopy(j, d, {"status", "meta"}) \/ SaveThrows(j, d, {"status", "meta"}, "save")
    /\ Go(j, "done")
    /\ UNCHANGED <<scene, coordinator, trigger, noted, cash, sold>>

SavePending(j) ==
    /\ pc[j] = "pending"
    /\ LET d == [copy[j] EXCEPT !.status = "EXIT_PENDING", !.waiting = TRUE]
       IN \/ SaveCopy(j, d, {"status", "meta"}) /\ Go(j, "place")
          \/ SaveThrows(j, d, {"status", "meta"}, "save") /\ Go(j, "leaveUndo")
    /\ UNCHANGED <<scene, coordinator, trigger, noted, cash, sold>>

\* Mutant: the quantity sold before is sold again.
OrderQtyWhole(d) == Qty

OrderQty(d) == IF d.filled < Qty THEN Qty - d.filled ELSE 1

\* placeOrder: the order is filled, in full or, by some brokers, in part.
PlaceOrder(j) ==
    /\ pc[j] = "place"
    /\ \E f \in 1 .. OrderQty(copy[j]) :
          /\ f < OrderQty(copy[j]) => "partial" \in scene.faults
          /\ sold' = sold + f
          /\ copy' = [copy EXCEPT ![j].filled = copy[j].filled + f]
          /\ noted' = [noted EXCEPT ![j] = f]
    /\ dirty' = [dirty EXCEPT ![j] = {"meta"}]
    /\ Go(j, "credit")
    /\ UNCHANGED <<scene, doc, coordinator, trigger, cash>>

OrderRejected(j) ==
    /\ pc[j] = "place"
    /\ "reject" \in scene.faults
    /\ Go(j, "refused")
    /\ UNCHANGED <<scene, doc, coordinator, work, cash, sold>>

\* Back to OPEN; the record of the intent becomes FAILED, and stays.
SaveRefused(j) ==
    /\ pc[j] = "refused"
    /\ LET d == [copy[j] EXCEPT !.status = "OPEN", !.waiting = FALSE]
       IN \/ SaveCopy(j, d, {"status", "meta"}) /\ Go(j, "leave")
          \/ SaveThrows(j, d, {"status", "meta"}, "save") /\ Go(j, "leaveUndo")
    /\ UNCHANGED <<scene, coordinator, trigger, noted, cash, sold>>

\* The part of the margin that the fill of job j releases.
MarginOfFill(j) == noted[j]

\* Under the wallet's lock.  recordTradeOutcome, which follows, may throw.
Credit(j) ==
    /\ pc[j] = "credit"
    /\ cash' = cash + MarginOfFill(j)
    /\ \/ Go(j, "leaveFill")
       \/ "late" \in scene.faults /\ Go(j, "leaveUndo")
    /\ UNCHANGED <<scene, doc, coordinator, work, sold>>

\* Mutant: every fill so far comes off the quantity that the last one left.
FilledFromRest(d) ==
    IF d.filled >= Qty
    THEN [d EXCEPT !.status = "CLOSED", !.waiting = FALSE]
    ELSE [d EXCEPT !.status = "EXIT_PARTIALLY_FILLED", !.waiting = FALSE,
                   !.qty = d.qty - d.filled]

\* The document after the fill: closed, or open with what remains.
Filled(d) ==
    IF d.filled >= Qty
    THEN [d EXCEPT !.status = "CLOSED", !.waiting = FALSE]
    ELSE [d EXCEPT !.status = "EXIT_PARTIALLY_FILLED", !.waiting = FALSE,
                   !.qty = Qty - d.filled]

FilledPaths(d) == IF d.filled >= Qty THEN {"status"} ELSE {"status", "qty"}

SaveFill(j) ==
    /\ pc[j] = "fill"
    /\ LET d == Filled(copy[j])
           p == FilledPaths(copy[j]) \cup {"meta"}
       IN \/ SaveCopy(j, d, p) /\ Go(j, "done")
          \/ SaveThrows(j, d, p, "late") /\ Go(j, "leaveUndo")
    /\ UNCHANGED <<scene, coordinator, trigger, noted, cash, sold>>

\* The catch of the workflow: OPEN again, with what else was left to save.
Undo(j) ==
    /\ pc[j] = "undo"
    /\ LET d == [copy[j] EXCEPT !.status = "OPEN", !.waiting = FALSE]
       IN SaveCopy(j, d, {"status", "meta"}) \/ SaveThrows(j, d, {"status", "meta"}, "save")
    /\ Go(j, "done")
    /\ UNCHANGED <<scene, coordinator, trigger, noted, cash, sold>>

-----------------------------------------------------------------------------
(* executeGlobalSquareOff, every 30 s from 15:15.                           *)

SquareOffFind(j) ==
    /\ Starts(j, "squareoff")
    /\ IF doc.status \in OpenStatuses
       THEN Load(j) /\ Go(j, "claim")
       ELSE Go(j, "done") /\ UNCHANGED <<copy, dirty>>
    /\ UNCHANGED <<scene, doc, coordinator, trigger, noted, cash, sold>>

Claimable(d) == d.status \in OpenStatuses

Claim(j) ==
    /\ pc[j] = "claim"
    /\ \/ /\ Claimable(doc)
          /\ doc' = [doc EXCEPT !.status = "CLOSED"]
          /\ Go(j, "refund")
       \/ /\ ~Claimable(doc) \/ "save" \in scene.faults
          /\ Go(j, "done")
          /\ UNCHANGED doc
    /\ UNCHANGED <<scene, coordinator, work, cash, sold>>

\* The margin debited when the trade was opened, all of it.
SquareOffRefund(j) ==
    /\ pc[j] = "refund"
    /\ cash' = cash + Qty
    /\ Go(j, "done")
    /\ UNCHANGED <<scene, doc, coordinator, work, sold>>

-----------------------------------------------------------------------------
(* POST /close-position.                                                    *)

CloseFind(j) ==
    /\ Starts(j, "close")
    /\ IF doc.status # "CLOSED"
       THEN Load(j) /\ Go(j, "closing")
       ELSE Go(j, "done") /\ UNCHANGED <<copy, dirty>>
    /\ UNCHANGED <<scene, doc, coordinator, trigger, noted, cash, sold>>

\* The first save has the status; meta is not marked yet.  The balance is read
\* when it returns.
CloseSave(j) ==
    /\ pc[j] = "closing"
    /\ LET d == [copy[j] EXCEPT !.status = "CLOSED"]
       IN \/ /\ SaveCopy(j, d, {"status"})
             /\ noted' = [noted EXCEPT ![j] = cash]
             /\ Go(j, "settling")
          \/ /\ SaveThrows(j, d, {"status"}, "save")
             /\ Go(j, "done")
             /\ UNCHANGED noted
    /\ UNCHANGED <<scene, coordinator, trigger, cash, sold>>

\* The margin still locked, after partial fills the document tells of.
MarginOfClose(d) == IF d.filled \in 1 .. Qty - 1 THEN d.qty ELSE Qty

\* The second save has meta; the balance read before it is written after it.
CloseSettle(j) ==
    /\ pc[j] = "settling"
    /\ LET d == [copy[j] EXCEPT !.filled = Qty]
       IN \/ /\ SaveCopy(j, d, {"meta"})
             /\ cash' = noted[j] + MarginOfClose(copy[j])
          \/ /\ SaveThrows(j, d, {"meta"}, "late")
             /\ UNCHANGED cash
    /\ Go(j, "done")
    /\ UNCHANGED <<scene, coordinator, trigger, noted, sold>>

-----------------------------------------------------------------------------
(* recoverPendingExits, every 60 s: it cannot tell an exit that a crash cut   *)
(* short from one under way.                                                  *)

\* Mutant: the closed trades of the day are recovered too.
RecoverableAny(d) == TRUE

Recoverable(d) == d.status \in {"EXIT_PENDING", "EXIT_PARTIALLY_FILLED"}

RecoverFind(j) ==
    /\ Starts(j, "recover")
    /\ IF Recoverable(doc)
       THEN Load(j) /\ Go(j, "recovering")
       ELSE Go(j, "done") /\ UNCHANGED <<copy, dirty>>
    /\ registry' = [registry EXCEPT ![Home[j]] = {}]
    /\ UNCHANGED <<scene, doc, lease, intents, recent, trigger, noted, cash, sold>>

\* A partly filled exit stays one; a pending one is cancelled.
RecoverSave(j) ==
    /\ pc[j] = "recovering"
    /\ LET part == copy[j].status = "EXIT_PARTIALLY_FILLED"
           d == [copy[j] EXCEPT !.waiting = FALSE,
                                !.status = IF part THEN copy[j].status ELSE "OPEN"]
           p == IF part THEN {"meta"} ELSE {"status", "meta"}
       IN SaveCopy(j, d, p) \/ SaveThrows(j, d, p, "save")
    /\ Go(j, "done")
    /\ UNCHANGED <<scene, coordinator, trigger, noted, cash, sold>>

-----------------------------------------------------------------------------
\* Server i stops, and its jobs with it; what they have saved stays, the lease
\* until it runs out.
Crash(i) ==
    /\ "crash" \in scene.faults
    /\ \E j \in Jobs : Busy(j) /\ Home[j] = i
    /\ pc' = [j \in Jobs |-> IF Busy(j) /\ Home[j] = i THEN "done" ELSE pc[j]]
    /\ lease' = IF lease = i THEN Stopped ELSE lease
    /\ registry' = [registry EXCEPT ![i] = {}]
    /\ UNCHANGED <<scene, doc, intents, recent, work, cash, sold>>

Monitor(j) ==
    \/ MonitorRead(j) \/ TickSkipped(j) \/ TickQuiet(j) \/ TickTriggers(j)
    \/ AcquireLock(j) \/ Register(j) \/ ReleaseLock(j) \/ Hold(j)
    \/ SavePending(j) \/ PlaceOrder(j) \/ OrderRejected(j) \/ SaveRefused(j)
    \/ Credit(j) \/ SaveFill(j) \/ Undo(j)

SquareOff(j) == SquareOffFind(j) \/ Claim(j) \/ SquareOffRefund(j)

Close(j) == CloseFind(j) \/ CloseSave(j) \/ CloseSettle(j)

Recover(j) == RecoverFind(j) \/ RecoverSave(j)

Next ==
    \/ \E j \in Jobs : Monitor(j) \/ SquareOff(j) \/ Close(j) \/ Recover(j)
    \/ LeaseExpires \/ RecordAges
    \/ \E i \in Instances : Crash(i)

Spec == Init /\ [][Next]_vars

-----------------------------------------------------------------------------
AtRest == \A j \in Jobs : ~Busy(j)

\* The margin of the trade is returned once, and no more: not by two servers
\* on the same trigger, not by a retry, a restart or a second partial fill.  It
\* takes a lease that keeps the next registration of an exit 50 ms off: a
\* younger record is taken for a new one, and two servers would both exit.
ReturnedOnce == cash <= Qty

\* The exit orders of a trade never sell more than it holds, as long as no
\* second server comes within 50 ms of the record of an exit.
SoldOnce == sold <= Qty

\* No fault of the scene cuts a job short after the wallet was touched.
Intact == scene.faults \cap {"late", "crash"} = {}

Remaining == IF doc.status = "CLOSED" THEN 0 ELSE doc.qty

\* Between jobs, the margin returned and the margin of what is still open make
\* up the margin of the trade: a close forgets none of it, and no second
\* server, 50 ms or more behind the record of an exit, returns it again.
MarginKept == AtRest /\ Intact => cash + Remaining = Qty

\* A trade that was closed stays closed: no cycle that read it before, on this
\* server or on one that comes 50 ms after the record of the exit, saves its
\* older copy over it.
ClosedForGood == [][doc.status = "CLOSED" => doc'.status = "CLOSED"]_vars

\* When a pending exit is given up and the trade is open again, each trigger of
\* the trade can exit it: what failed, or was cut short, keeps nothing out.
Actionable ==
    [][ doc.status = "EXIT_PENDING" /\ doc'.status = "OPEN" =>
          \A t \in Triggers \cap scene.prices :
             \E i \in Instances : IsNew(i, <<t, doc'.filled>>) ]_vars
=============================================================================
