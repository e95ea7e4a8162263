----------------------------- MODULE PaperBook -----------------------------
(***************************************************************************)
(* One symbol of a paper account: the entry of the in-memory position map, *)
(* the Trade documents behind it and the wallet that paid for them, under  *)
(* every path that opens, changes or closes a position:                    *)
(*   order     POST /place-order (server/src/routes/trading.ts)            *)
(*   close     POST /close-position (the same file)                        *)
(*   entry     handleLong and handleShort (services/autoTradeEngine.ts)    *)
(*   exit      executeExit, whole position (the same file)                 *)
(*   trim      executeExit, part of the position                           *)
(*   monitor   closePaperPosition (services/manualSLTPMonitor.ts)          *)
(*   ratchet   runMonitorCycle's trailing stop and funding write-back      *)
(*                                                                         *)
(* Money is margin: a unit of quantity locks one unit of USDT and returns  *)
(* it when it is closed, at any price.  MongoDB is connected throughout;   *)
(* what happens to a wallet write in between is PaperLedger's subject, and *)
(* credits and debits are the single steps that module shows them to be.   *)
(***************************************************************************)
EXTENDS Integers, Sequences

CONSTANTS
    Calls,      \* the calls made of the book during the run
    CallLists,  \* the paths the calls of a run may take, one list per run
    Side,       \* Side[j]: what an order or entry buys or sells
    Qty,        \* Qty[j]: the quantity of an order or entry, the cut of a trim
    Docs,       \* ids Trade.create can return
    NoPos,      \* no entry in the position map
    Nothing,    \* no write owed to the position map
    Openings,   \* quantities of the long a run may start from, 0 for none
    Equity,     \* free balance and margin a run starts from
    Faults      \* what the environment may do in this run

Kinds == {"order", "close", "entry", "exit", "trim", "monitor", "ratchet"}
Sides == {"BUY", "SELL"}

FaultKinds ==
    { "createFails",    \* Trade.create is rejected
      "claimFails",     \* the transaction and the fallback that close a trade are
      "updateFails",    \* any other update of a Trade document is
      "snapshotFails",  \* the WalletSnapshot write of an order is
      "deadline" }      \* checkExecutionDeadline throws

ASSUME BookAssumption ==
    /\ CallLists \subseteq [Calls -> Kinds]
    /\ Side \in [Calls -> Sides]
    /\ Qty \in [Calls -> Nat \ {0}]
    /\ Equity \in Nat
    /\ Openings \subseteq 0 .. Equity
    /\ Faults \subseteq FaultKinds

PaperPosition == [doc : Docs, side : Sides, qty : Nat \ {0}]

ASSUME NullAssumption ==
    /\ NoPos \notin PaperPosition
    /\ Nothing \notin PaperPosition \cup {NoPos}

VARIABLES
    kind,       \* kind[j]: the path call j takes
    mem,        \* the wallet's free USDT
    pos,        \* positions.get(key)
    status,     \* the Trade collection: "none" before a document exists
    docQty,     \*   its quantity
    pc,         \* the await each call has reached
    seen,       \* the position it read before that await
    plan,       \* the position it will leave
    chain,      \* the promise chain of the wallet key: its head is running
    pending     \* the position write its last call makes a tick after its turn

trades == <<status, docQty>>
vars == <<kind, mem, pos, trades, pc, seen, plan, chain, pending>>

Pcs == {"idle", "priced", "saving", "waiting", "tx", "write", "install", "done"}

TypeOK ==
    /\ kind \in CallLists
    /\ mem \in Nat
    /\ pos \in PaperPosition \cup {NoPos}
    /\ status \in [Docs -> {"none", "OPEN", "CLOSED"}]
    /\ docQty \in [Docs -> Nat]
    /\ pc \in [Calls -> Pcs]
    /\ seen \in [Calls -> PaperPosition \cup {NoPos}]
    /\ plan \in [Calls -> PaperPosition \cup {NoPos}]
    /\ chain \in Seq(Calls)
    /\ pending \in PaperPosition \cup {NoPos, Nothing}

\* A flat account, or one that holds a long.
Init ==
    /\ kind \in CallLists
    /\ \E q \in Openings, d \in Docs :
          /\ mem = Equity - q
          /\ pos = IF q = 0 THEN NoPos ELSE [doc |-> d, side |-> "BUY", qty |-> q]
          /\ status = [x \in Docs |-> IF x = d /\ q # 0 THEN "OPEN" ELSE "none"]
          /\ docQty = [x \in Docs |-> IF x = d THEN q ELSE 0]
    /\ pc = [j \in Calls |-> "idle"]
    /\ seen = [j \in Calls |-> NoPos]
    /\ plan = [j \in Calls |-> NoPos]
    /\ chain = <<>>
    /\ pending = Nothing

-----------------------------------------------------------------------------
(* The wallet lock and the tick in which it changes hands.                 *)

\* Timers, requests and I/O callbacks run once the microtasks have: the write
\* owed to the position map comes first.
Idle(j) == pc[j] = "idle" /\ pending = Nothing
At(j, label) == pc[j] = label /\ pending = Nothing

\* withWalletLock: take the next place of the chain.
Enqueue(j) ==
    /\ chain' = Append(chain, j)
    /\ pc' = [pc EXCEPT ![j] = "waiting"]

\* The body of j starts when it reaches the head of the chain.
MyTurn(j) == pc[j] = "waiting" /\ chain # <<>> /\ Head(chain) = j

\* The body of j is over and the next one starts.  A caller that still has to
\* write the position map, once its await of the lock returns, does so in the
\* same tick as that start, but after it: the chain was subscribed to first.
\* With nobody waiting it writes at once.
Release(j, write) ==
    /\ pc' = [pc EXCEPT ![j] = "done"]
    /\ chain' = Tail(chain)
    /\ IF Tail(chain) = <<>>
       THEN /\ pos' = IF write = Nothing THEN pos ELSE write
            /\ pending' = Nothing
       ELSE /\ pending' = write
            /\ UNCHANGED pos

\* A body has started: the previous caller's write follows it.
Settle ==
    /\ pos' = IF pending = Nothing THEN pos ELSE pending
    /\ pending' = Nothing

\* Call j ends without having taken the lock.
Return(j) ==
    /\ pc' = [pc EXCEPT ![j] = "done"]
    /\ UNCHANGED <<chain, pos, pending>>

-----------------------------------------------------------------------------
(* POST /place-order, PAPER.                                               *)

\* The route reads the position once before it asks for the lock.
OrderCall(j) ==
    /\ Idle(j)
    /\ kind[j] = "order"
    /\ seen' = [seen EXCEPT ![j] = pos]
    /\ Enqueue(j)
    /\ UNCHANGED <<mem, pos, trades, plan, pending>>

\* Mutant: the decision rests on the read made before the lock.
ExistingBeforeLock(j) == seen[j]

\* The position the order is decided on, read again under the lock.
Existing(j) == pos

\* Mutant: the request is taken in full, however small the position.
ReduceQtyInFull(j, e) == Qty[j]

ReduceQty(j, e) == IF Qty[j] < e.qty THEN Qty[j] ELSE e.qty

\* Mutant: the funds are not checked.
AffordableAlways(cost) == TRUE

Affordable(cost) == cost <= mem

\* The lock is held, the position was e: the wallet moves by cost at once, and
\* the position will be `result' once the documents are written.
Decide(j, e, result, cost) ==
    /\ Affordable(cost)
    /\ mem' = mem - cost
    /\ seen' = [seen EXCEPT ![j] = e]
    /\ plan' = [plan EXCEPT ![j] = result]
    /\ pc' = [pc EXCEPT ![j] = "write"]
    /\ Settle
    /\ UNCHANGED <<trades, chain>>

\* No position: open one.  Every creator of a trade holds the lock, so the id
\* Trade.create will return can be chosen here.
OrderOpens(j) ==
    /\ kind[j] = "order" /\ MyTurn(j)
    /\ Existing(j) = NoPos
    /\ \E d \in Docs :
          /\ status[d] = "none"
          /\ Decide(j, NoPos, [doc |-> d, side |-> Side[j], qty |-> Qty[j]], Qty[j])

\* The same side: average in.
OrderAdds(j) ==
    /\ kind[j] = "order" /\ MyTurn(j)
    /\ LET e == Existing(j) IN
          /\ e # NoPos
          /\ e.side = Side[j]
          /\ Decide(j, e, [e EXCEPT !.qty = e.qty + Qty[j]], Qty[j])

\* The other side: reduce, or close.
OrderReduces(j) ==
    /\ kind[j] = "order" /\ MyTurn(j)
    /\ LET e == Existing(j)
           cut == ReduceQty(j, e)
       IN /\ e # NoPos
          /\ e.side # Side[j]
          /\ Decide(j, e,
                    IF e.qty > cut THEN [e EXCEPT !.qty = e.qty - cut] ELSE NoPos,
                    - cut)

\* Insufficient balance: 400, and nothing has changed.
OrderRejected(j) ==
    /\ kind[j] = "order" /\ MyTurn(j)
    /\ Existing(j) # NoPos => Existing(j).side = Side[j]
    /\ ~Affordable(Qty[j])
    /\ pc' = [pc EXCEPT ![j] = "done"]
    /\ chain' = Tail(chain)
    /\ Settle
    /\ UNCHANGED <<mem, trades, seen, plan>>

\* Mutant: a position that is added to gets another document.
SaveCreates(j) ==
    IF plan[j] = NoPos
    THEN /\ status' = [status EXCEPT ![seen[j].doc] = "CLOSED"]
         /\ UNCHANGED docQty
    ELSE \E d \in Docs :
         /\ status[d] = "none"
         /\ status' = [status EXCEPT ![d] = "OPEN"]
         /\ docQty' = [docQty EXCEPT ![d] = plan[j].qty]

\* Mutant: the update carries the status of the order, OPEN.
SaveReopens(j) ==
    IF plan[j] = NoPos
    THEN /\ status' = [status EXCEPT ![seen[j].doc] = "CLOSED"]
         /\ UNCHANGED docQty
    ELSE /\ docQty' = [docQty EXCEPT ![plan[j].doc] = plan[j].qty]
         /\ status' = [status EXCEPT ![plan[j].doc] = "OPEN"]

\* The Trade document follows the decision: create, update its quantity, or
\* close it, by its id and whatever its status is by now.
Save(j) ==
    IF plan[j] = NoPos
    THEN /\ status' = [status EXCEPT ![seen[j].doc] = "CLOSED"]
         /\ UNCHANGED docQty
    ELSE /\ docQty' = [docQty EXCEPT ![plan[j].doc] = plan[j].qty]
         /\ status' = IF seen[j] = NoPos
                      THEN [status EXCEPT ![plan[j].doc] = "OPEN"] ELSE status

OrderWrite(j) ==
    /\ At(j, "write") /\ kind[j] = "order"
    /\ Save(j)
    /\ pc' = [pc EXCEPT ![j] = "install"]
    /\ UNCHANGED <<mem, pos, seen, plan, chain, pending>>

\* Mutant: the debit stands.
RefundForgotten(j) == mem

\* What the wallet holds once a failed Trade.create has undone the debit.
Refunded(j) == mem + Qty[j]

OrderCreateFails(j) ==
    /\ "createFails" \in Faults
    /\ At(j, "write") /\ kind[j] = "order"
    /\ seen[j] = NoPos
    /\ mem' = Refunded(j)
    /\ Release(j, Nothing)
    /\ UNCHANGED <<trades, seen, plan>>

\* Trade.updateOne fails: the wallet keeps what the decision gave or took.
OrderUpdateFails(j) ==
    /\ "updateFails" \in Faults
    /\ At(j, "write") /\ kind[j] = "order"
    /\ seen[j] # NoPos
    /\ Release(j, Nothing)
    /\ UNCHANGED <<mem, trades, seen, plan>>

\* The snapshot is written and the position installed, under the lock.
OrderInstall(j) ==
    /\ At(j, "install")
    /\ pc' = [pc EXCEPT ![j] = "done"]
    /\ chain' = Tail(chain)
    /\ pos' = plan[j]
    /\ UNCHANGED <<mem, trades, seen, plan, pending>>

\* The snapshot write fails, and the position is not installed.
OrderInstallFails(j) ==
    /\ "snapshotFails" \in Faults
    /\ At(j, "install")
    /\ Release(j, Nothing)
    /\ UNCHANGED <<mem, trades, seen, plan>>

-----------------------------------------------------------------------------
(* The paths that close a whole position.                                  *)

\* Call j read position p, and awaits a price, a document or the symbols that
\* come before it in its cycle.
Read(j, p) ==
    /\ seen' = [seen EXCEPT ![j] = p]
    /\ pc' = [pc EXCEPT ![j] = "priced"]
    /\ UNCHANGED <<mem, pos, trades, plan, chain, pending>>

\* POST /close-position: the trade is read from the database; its side plays
\* no part in the close.
CloseCall(j) ==
    /\ Idle(j) /\ kind[j] = "close"
    /\ \E d \in Docs :
          /\ status[d] = "OPEN"
          /\ Read(j, [doc |-> d, side |-> Side[j], qty |-> docQty[d]])

\* runMonitorCycle: the position as the cycle's list has it.
MonitorCall(j) ==
    /\ Idle(j) /\ kind[j] \in {"monitor", "ratchet"}
    /\ pos # NoPos
    /\ Read(j, pos)

\* Mutant: no exitsInFlight.
ExitInFlightIgnored(j) == FALSE

\* exitsInFlight: an engine exit of the key that has not returned.
ExitInFlight(j) ==
    \E i \in Calls \ {j} :
       kind[i] \in {"exit", "trim"} /\ pc[i] \notin {"idle", "done"}

\* handleExit and the head of executeExit.  A trim leaves part of the position.
ExitCall(j) ==
    /\ Idle(j) /\ kind[j] \in {"exit", "trim"}
    /\ ~ExitInFlight(j)
    /\ pos # NoPos
    /\ kind[j] = "trim" => Qty[j] < pos.qty
    /\ Read(j, pos)

\* An exit already in flight, the scheduler's deadline passed, or no position.
ExitSkipped(j) ==
    /\ Idle(j) /\ kind[j] \in {"exit", "trim", "monitor", "ratchet"}
    /\ \/ pos = NoPos
       \/ kind[j] \in {"exit", "trim"} /\ (ExitInFlight(j) \/ "deadline" \in Faults)
    /\ Return(j)
    /\ UNCHANGED <<mem, trades, seen, plan>>

\* creditWalletAndCloseTrade asks for the lock.
CloseQueue(j) ==
    /\ At(j, "priced") /\ kind[j] \in {"close", "exit", "monitor"}
    /\ Enqueue(j)
    /\ UNCHANGED <<mem, pos, trades, seen, plan, pending>>

CloseStart(j) ==
    /\ MyTurn(j) /\ kind[j] \in {"close", "exit", "monitor"}
    /\ pc' = [pc EXCEPT ![j] = "tx"]
    /\ Settle
    /\ UNCHANGED <<mem, trades, seen, plan, chain>>

\* Mutant: the update does not filter on status OPEN.
ClaimedById(j) == TRUE

\* findOneAndUpdate({_id, status: "OPEN"}) found the document.
Claimed(j) == status[seen[j].doc] = "OPEN"

\* Mutant: the position is left for the sweep to find.
ClosedPositionKept == Nothing

\* What a closer does to the map when its lock returns, claimed or not.
ClosedPosition == NoPos

\* Claim the trade and credit what the call computed before it queued; then
\* the caller removes the position of the key.
CloseCommit(j) ==
    /\ At(j, "tx") /\ kind[j] \in {"close", "exit", "monitor"}
    /\ IF Claimed(j)
       THEN /\ status' = [status EXCEPT ![seen[j].doc] = "CLOSED"]
            /\ mem' = mem + seen[j].qty
       ELSE UNCHANGED <<status, mem>>
    /\ Release(j, ClosedPosition)
    /\ UNCHANGED <<docQty, seen, plan>>

\* The claim is rejected: the caller throws before it removes anything.
CloseFails(j) ==
    /\ "claimFails" \in Faults
    /\ At(j, "tx") /\ kind[j] \in {"close", "exit", "monitor"}
    /\ Release(j, Nothing)
    /\ UNCHANGED <<mem, trades, seen, plan>>

-----------------------------------------------------------------------------
(* executeExit, partial: the position first, then its document, both before *)
(* the lock, and the margin of the cut last, under it.                      *)

TrimSet(j) ==
    /\ At(j, "priced") /\ kind[j] = "trim"
    /\ pos' = [seen[j] EXCEPT !.qty = seen[j].qty - Qty[j]]
    /\ pc' = [pc EXCEPT ![j] = "saving"]
    /\ UNCHANGED <<mem, trades, seen, plan, chain, pending>>

\* Mutant: the document keeps its quantity.
RemainingUnsaved(j) == seen[j].qty

\* The quantity that Trade.findByIdAndUpdate writes.
Remaining(j) == seen[j].qty - Qty[j]

TrimWrite(j) ==
    /\ At(j, "saving")
    /\ docQty' = [docQty EXCEPT ![seen[j].doc] = Remaining(j)]
    /\ Enqueue(j)
    /\ UNCHANGED <<mem, pos, status, seen, plan, pending>>

TrimWriteFails(j) ==
    /\ "updateFails" \in Faults
    /\ At(j, "saving")
    /\ Return(j)
    /\ UNCHANGED <<mem, trades, seen, plan>>

TrimCredit(j) ==
    /\ MyTurn(j) /\ kind[j] = "trim"
    /\ mem' = mem + Qty[j]
    /\ pc' = [pc EXCEPT ![j] = "done"]
    /\ chain' = Tail(chain)
    /\ Settle
    /\ UNCHANGED <<trades, seen, plan>>

-----------------------------------------------------------------------------
(* runMonitorCycle writes back the position of its list, with a new trailing *)
(* stop or funding time, and it writes all of it.                            *)
RatchetSet(j) ==
    /\ At(j, "priced") /\ kind[j] = "ratchet"
    /\ pos' = seen[j]
    /\ pc' = [pc EXCEPT ![j] = "done"]
    /\ UNCHANGED <<mem, trades, seen, plan, chain, pending>>

-----------------------------------------------------------------------------
(* handleLong and handleShort, PAPER: no position and no open trade when     *)
(* they look; the debit and the document under the lock, the map after it.   *)

\* Mutant: processUser may run beside itself.
EntryInFlightIgnored(j) == FALSE

\* activeProcessingKeys: the scheduler's tick of this account is still running.
EntryInFlight(j) ==
    \E i \in Calls \ {j} : kind[i] = "entry" /\ pc[i] \notin {"idle", "done"}

EntryCall(j) ==
    /\ Idle(j) /\ kind[j] = "entry"
    /\ IF /\ ~EntryInFlight(j)
          /\ pos = NoPos
          /\ \A d \in Docs : status[d] # "OPEN"
       THEN pc' = [pc EXCEPT ![j] = "priced"]
       ELSE pc' = [pc EXCEPT ![j] = "done"]
    /\ UNCHANGED <<mem, pos, trades, seen, plan, chain, pending>>

EntryQueue(j) ==
    /\ At(j, "priced") /\ kind[j] = "entry"
    /\ Enqueue(j)
    /\ UNCHANGED <<mem, pos, trades, seen, plan, pending>>

EntryStart(j) ==
    /\ MyTurn(j) /\ kind[j] = "entry"
    /\ IF Affordable(Qty[j])
       THEN /\ pc' = [pc EXCEPT ![j] = "tx"]
            /\ UNCHANGED chain
       ELSE /\ pc' = [pc EXCEPT ![j] = "done"]
            /\ chain' = Tail(chain)
    /\ Settle
    /\ UNCHANGED <<mem, trades, seen, plan>>

EntryCommit(j) ==
    /\ At(j, "tx") /\ kind[j] = "entry"
    /\ \E d \in Docs :
          /\ status[d] = "none"
          /\ status' = [status EXCEPT ![d] = "OPEN"]
          /\ docQty' = [docQty EXCEPT ![d] = Qty[j]]
          /\ Release(j, [doc |-> d, side |-> Side[j], qty |-> Qty[j]])
    /\ mem' = mem - Qty[j]
    /\ UNCHANGED <<seen, plan>>

EntryFails(j) ==
    /\ "createFails" \in Faults
    /\ At(j, "tx") /\ kind[j] = "entry"
    /\ Release(j, Nothing)
    /\ UNCHANGED <<mem, trades, seen, plan>>

-----------------------------------------------------------------------------
Order(j) ==
    \/ OrderCall(j) \/ OrderOpens(j) \/ OrderAdds(j) \/ OrderReduces(j)
    \/ OrderRejected(j) \/ OrderWrite(j) \/ OrderCreateFails(j)
    \/ OrderUpdateFails(j) \/ OrderInstall(j) \/ OrderInstallFails(j)

Close(j) ==
    \/ CloseCall(j) \/ MonitorCall(j) \/ ExitCall(j) \/ ExitSkipped(j)
    \/ CloseQueue(j) \/ CloseStart(j) \/ CloseCommit(j) \/ CloseFails(j)

Trim(j) ==
    \/ TrimSet(j) \/ TrimWrite(j) \/ TrimWriteFails(j) \/ TrimCredit(j)

Entry(j) ==
    \/ EntryCall(j) \/ EntryQueue(j) \/ EntryStart(j) \/ EntryCommit(j)
    \/ EntryFails(j)

Next ==
    /\ \E j \in Calls : Order(j) \/ Close(j) \/ Trim(j) \/ RatchetSet(j) \/ Entry(j)
    /\ UNCHANGED kind

Spec == Init /\ [][Next]_vars

-----------------------------------------------------------------------------
AtRest == pending = Nothing /\ \A j \in Calls : pc[j] \in {"idle", "done"}

Margin(p) == IF p = NoPos THEN 0 ELSE p.qty

\* Between calls, the margin a position shows plus the free balance is what
\* the account started with: no path takes margin twice, returns it twice, or
\* forgets to return it, however the calls interleave.
EquityKept == AtRest => mem + Margin(pos) = Equity

\* Two documents of the symbol are never open at the same time: concurrent
\* orders end as one averaged position, not as one trade each.
OneTradePerSymbol ==
    \A d, e \in Docs : status[d] = "OPEN" /\ status[e] = "OPEN" => d = e

\* Between calls, every open trade is the position in the map, with the same
\* quantity: nothing open goes without the monitor, and a restart that reads
\* the documents finds the book the process had.
TradesWatched ==
    AtRest => \A d \in Docs :
       status[d] = "OPEN" => pos # NoPos /\ pos.doc = d /\ pos.qty = docQty[d]

\* Between calls, a position in the map has an open trade.
NoGhost == AtRest /\ pos # NoPos => status[pos.doc] = "OPEN"

\* Orders leave the quantity of a closed trade alone, and nothing opens it
\* again: each works on the position as the one before it left it.
ClosedUntouched ==
    [][\A d \in Docs : status[d] = "CLOSED" =>
          status'[d] = "CLOSED" /\ docQty'[d] = docQty[d]]_vars

\* Whatever interleaves and fails, no path opens a closed trade again, late
\* orders on a position that is gone included: the claim on status OPEN lets
\* one closer through in the whole life of a trade.
ClosedForGood ==
    [][\A d \in Docs : status[d] = "CLOSED" => status'[d] = "CLOSED"]_vars
=============================================================================
