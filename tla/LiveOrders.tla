----------------------------- MODULE LiveOrders -----------------------------
(***************************************************************************)
(* One symbol of one LIVE crypto account: the position on Binance, the     *)
(* Trade documents that record it, the position map that is watched, and   *)
(* the guards between them:                                                *)
(*   order     POST /place-order with mode LIVE (routes/trading.ts)        *)
(*   entry     handleLong of the engine (services/autoTradeEngine.ts)      *)
(*   exit,trim handleExit of the engine, of the whole or of half           *)
(*   monitor   monitorLivePositions (services/manualSLTPMonitor.ts)        *)
(*   close,force  POST /close-position with mode LIVE                      *)
(*   recon     reconcileUserLive (services/exchangeReconciliation.ts)      *)
(*   audit     runSentinelAudit, its convergence part                      *)
(*   clear     POST /live-orphans/clear (services/liveFillGuard.ts)        *)
(* Quantities are in lots and signed: BUY is positive.  The engine's and the*)
(* route's calls are those on a long position: a short mirrors them.       *)
(* Prices and P&L are left out.                                            *)
(***************************************************************************)
EXTENDS Sums

CONSTANTS
    Calls,    \* the requests, ticks and daemons of a run
    NoCall,   \* nobody
    MaxDocs,  \* documents 1 .. MaxDocs, numbered in the order of openedAt
    Spare,    \* lots of the coin the user holds apart from this trade
    Scenes    \* what the runs consist of, one scene per run

Kinds == {"order", "entry", "exit", "trim", "monitor", "close", "force",
          "recon", "audit", "clear", "none"}

FaultKinds ==
    { "reject",  \* the exchange definitely rejects an order
      "part",    \* it fills part of a market order
      "lost",    \* its answer does not arrive, nor, maybe, that of a query
      "http",    \* it answers 5xx, which is taken for a rejection, and may fill
      "quote",   \* the answer to an accepted Convert quote does not arrive
      "pending", \* an order whose answer was lost is queried before it is final
      "create",  \* Trade.create throws, and may have written all the same
      "lookup",  \* the look for what a create has written throws
      "offline", \* MongoDB is not connected when an order has filled
      "save",    \* another write of a document throws
      "disk",    \* the journal cannot be written
      "crash" }  \* the server stops and starts again

Docs == 1 .. MaxDocs
NoDoc == 0

SceneType ==
    [kind : [Calls -> Kinds], amount : [Calls -> Int], start : Nat,
     spot : BOOLEAN, faults : SUBSET FaultKinds, apart : BOOLEAN]

ASSUME LiveAssumption ==
    /\ IsFiniteSet(Calls) /\ NoCall \notin Calls
    /\ MaxDocs \in Nat \ {0}
    /\ Spare \in Nat
    /\ Scenes \subseteq SceneType

VARIABLES
    scene,    \* the scene of this run
    held,     \* the position on the exchange, apart from Spare
    docs,     \* the Trade documents
    pos,      \* the position map, and the document its position names
    blocked,  \* the symbol is in `blocked' of liveFillGuard
    journal,  \* what the last line of the journal says of the symbol
    latch,    \* liveExitLatched has the key
    backoff,  \* liveExitRetryAt is in the future
    exiting,  \* exitsInFlight has the key
    closing,  \* liveCloseInFlight
    lock,     \* holder of the wallet's LIVE lock
    pc,       \* the await each call has reached
    mem       \* what each call has in hand

guards == <<blocked, journal>>
monitoring == <<latch, backoff>>
flags == <<exiting, closing, lock>>
vars == <<scene, held, docs, pos, guards, monitoring, flags, pc, mem>>

Document == [status : {"none", "OPEN", "CLOSED"}, qty : Int, by : Calls \cup {NoCall}]

Position == [doc : Docs \cup {NoDoc}, qty : Int]

Memory ==
    [doc : Docs \cup {NoDoc}, qty : Int, fill : Int, tries : 0 .. 2,
     open : SUBSET Docs, read : [Docs -> Int]]

Pcs == {"idle", "done", "check", "send", "query", "convert", "filled", "find",
        "write", "install", "cap", "sell", "sellConvert", "sold", "trimSave",
        "remove", "tick", "call", "verify", "failed", "closeSend",
        "closeConvert", "closeSave", "closeMap", "compare", "repair",
        "look", "add", "audit", "flatten", "flattened"}

TypeOK ==
    /\ scene \in Scenes
    /\ held \in Int
    /\ docs \in [Docs -> Document]
    /\ pos \in Position
    /\ blocked \in BOOLEAN /\ journal \in BOOLEAN
    /\ latch \in BOOLEAN /\ backoff \in BOOLEAN
    /\ exiting \in BOOLEAN
    /\ closing \subseteq Docs
    /\ lock \in Calls \cup {NoCall}
    /\ pc \in [Calls -> Pcs]
    /\ mem \in [Calls -> Memory]

NoPos == [doc |-> NoDoc, qty |-> 0]
NoMem == [doc |-> NoDoc, qty |-> 0, fill |-> 0, tries |-> 0, open |-> {},
          read |-> [d \in Docs |-> 0]]
NoTrade == [status |-> "none", qty |-> 0, by |-> NoCall]

Init ==
    /\ scene \in Scenes
    /\ held = scene.start
    /\ docs = [d \in Docs |->
                 IF d = 1 /\ scene.start > 0
                 THEN [status |-> "OPEN", qty |-> scene.start, by |-> NoCall]
                 ELSE NoTrade]
    /\ pos = IF scene.start > 0 THEN [doc |-> 1, qty |-> scene.start] ELSE NoPos
    /\ blocked = FALSE /\ journal = FALSE
    /\ latch = FALSE /\ backoff = FALSE
    /\ exiting = FALSE /\ closing = {} /\ lock = NoCall
    /\ pc = [c \in Calls |-> "idle"]
    /\ mem = [c \in Calls |-> NoMem]

-----------------------------------------------------------------------------
Fault(f) == f \in scene.faults

Abs(n) == IF n < 0 THEN -n ELSE n
Least(S) == CHOOSE x \in S : \A y \in S : x <= y
Latest(S) == CHOOSE x \in S : \A y \in S : x >= y

Open == {d \in Docs : docs[d].status = "OPEN"}
Unused == {d \in Docs : docs[d].status = "none"}

Busy(c) == pc[c] \notin {"idle", "done"}
Go(c, label) == pc' = [pc EXCEPT ![c] = label]

\* The scheduler processes an account once at a time (activeProcessingKeys).
Scheduled(k) == k \in {"entry", "exit", "trim"}

Starts(c, k) ==
    /\ pc[c] = "idle"
    /\ scene.kind[c] = k
    /\ scene.apart => \A b \in Calls : ~Busy(b)
    /\ Scheduled(k) => \A b \in Calls : Busy(b) => ~Scheduled(scene.kind[b])

\* The cycles of the monitor come round for ever.
AtEnd(c) == IF scene.kind[c] = "monitor" THEN "idle" ELSE "done"

\* Call c is over, and forgets what it had in hand.
End(c) ==
    /\ Go(c, AtEnd(c))
    /\ mem' = [mem EXCEPT ![c] = NoMem]

-----------------------------------------------------------------------------
(* The exchange.  An order of n lots fills with one of Fills(n, reduceOnly). *)

\* A spot sell needs the coins; a reduceOnly order only reduces.
Room(n, reduceOnly) ==
    CASE scene.spot /\ n < 0 -> held + Spare
      [] ~scene.spot /\ reduceOnly -> IF n * held < 0 THEN Abs(held) ELSE 0
      [] OTHER -> Abs(n)

Fills(n, reduceOnly) ==
    LET most == Least({Abs(n), Room(n, reduceOnly)})
        sign == IF n < 0 THEN -1 ELSE 1
    IN IF most <= 0 \/ (scene.spot /\ most < Abs(n)) THEN {}
       ELSE {sign * f : f \in IF Fault("part") THEN 1 .. most ELSE {most}}

\* Call c sends an order of n lots: it is filled and answered, rejected, or it
\* fails otherwise, and may have filled.
OrderFilled(c, n, reduceOnly, next) ==
    \E f \in Fills(n, reduceOnly) :
       /\ held' = held + f
       /\ mem' = [mem EXCEPT ![c].fill = f]
       /\ Go(c, next)

Rejected(n, reduceOnly) == Fault("reject") \/ Fills(n, reduceOnly) = {}

\* What an order may have filled whose answer fault f has taken.
LostFills(n, reduceOnly, f) ==
    IF Fault(f) THEN Fills(n, reduceOnly) \cup {0} ELSE {}

\* An answer that is lost and a 5xx are the same to all but an entry's order.
UnknownFills(n, reduceOnly) ==
    LostFills(n, reduceOnly, "lost") \cup LostFills(n, reduceOnly, "http")

-----------------------------------------------------------------------------
(* liveFillGuard: placeWithFillConfirmation, the journal, recordLiveFill.   *)

\* journalOrphanFill: blocked at once, then journaled if the disk allows.
JournalOrphan ==
    /\ blocked' = TRUE
    /\ journal' = TRUE \/ (Fault("disk") /\ UNCHANGED journal)

Amount(c) == IF scene.kind[c] = "order" THEN scene.amount[c] ELSE 1

\* isLiveEntryBlocked, before the awaits of the order itself.
NotBlocked(c) ==
    /\ Go(c, IF blocked THEN "done" ELSE "send")
    /\ UNCHANGED <<scene, held, docs, pos, guards, monitoring, flags, mem>>

OrderCall(c) == Starts(c, "order") /\ NotBlocked(c)

\* A rejected order of the route is tried again by Convert on spot.
Refused(c) ==
    /\ Go(c, IF scene.kind[c] = "order" /\ scene.spot THEN "convert" ELSE "done")
    /\ UNCHANGED mem

\* AMBIGUOUS_RE knows a lost answer but not the text of a 5xx.
Send(c) ==
    /\ pc[c] = "send"
    /\ \/ OrderFilled(c, Amount(c), FALSE, "filled")
       \/ Rejected(Amount(c), FALSE) /\ Refused(c) /\ UNCHANGED held
       \/ \E f \in LostFills(Amount(c), FALSE, "http") : held' = held + f /\ Refused(c)
       \/ \E f \in LostFills(Amount(c), FALSE, "lost") :
             /\ held' = held + f
             /\ mem' = [mem EXCEPT ![c].fill = f]
             /\ Go(c, "query")
    /\ UNCHANGED <<scene, docs, pos, guards, monitoring, flags>>

\* Mutant: an order whose query fails too is given up.
UnconfirmedDropped == UNCHANGED guards

\* What becomes of an order whose outcome stays unknown.
Unconfirmed == JournalOrphan

\* The order is looked up by its clientOrderId.  One that is not yet final, or
\* expired after a partial fill, counts as unfilled.
Query(c) ==
    /\ pc[c] = "query"
    /\ \/ /\ mem[c].fill # 0
          /\ Go(c, "filled")
          /\ UNCHANGED <<guards, mem>>
       \/ /\ mem[c].fill = 0 \/ Fault("pending")
          /\ End(c)
          /\ UNCHANGED guards
       \/ /\ Fault("lost")
          /\ Unconfirmed
          /\ End(c)
    /\ UNCHANGED <<scene, held, docs, pos, monitoring, flags>>

\* The Convert fallback of a spot order that was taken for rejected.
Convert(c) ==
    /\ pc[c] = "convert"
    /\ \/ OrderFilled(c, Amount(c), FALSE, "filled")
       \/ End(c) /\ UNCHANGED held
       \/ \E f \in LostFills(Amount(c), FALSE, "quote") : held' = held + f /\ End(c)
    /\ UNCHANGED <<scene, docs, pos, guards, monitoring, flags>>

\* Mutant: a retry does not look for what is written.
WrittenUnseen(c) == {}

\* The document that an earlier attempt of call c has written after all.
Written(c) == {d \in Docs : docs[d].by = c /\ mem[c].tries > 0}

\* No such document, or the look for it throws, which counts as none.
Missed(c) == Written(c) = {} \/ (mem[c].tries > 0 /\ Fault("lookup"))

\* Bounded by MaxDocs.
Created(c) ==
    /\ Unused # {}
    /\ docs' = [docs EXCEPT ![Least(Unused)] =
               [status |-> "OPEN", qty |-> mem[c].fill, by |-> c]]

\* Mutant: one attempt too many.
MoreAttemptsByOne(c) == mem[c].tries <= 2

MoreAttempts(c) == mem[c].tries < 2

\* recordLiveFillWithRetry: up to three attempts, then the orphan journal.
\* Call c goes on at `next' with its document, or ends.
Record(c, next) ==
    \/ \E d \in Written(c) :
          /\ mem' = [mem EXCEPT ![c].doc = d]
          /\ Go(c, next)
          /\ UNCHANGED <<docs, guards>>
    \/ /\ Missed(c)
       /\ Created(c)
       /\ mem' = [mem EXCEPT ![c].doc = Least(Unused)]
       /\ Go(c, next)
       /\ UNCHANGED guards
    \/ /\ Missed(c)
       /\ Fault("create")
       /\ Created(c) \/ UNCHANGED docs
       /\ IF MoreAttempts(c)
          THEN mem' = [mem EXCEPT ![c].tries = @ + 1] /\ UNCHANGED <<pc, guards>>
          ELSE JournalOrphan /\ End(c)

-----------------------------------------------------------------------------
(* A manual order, once filled, is recorded under the wallet's lock.        *)

\* With MongoDB away the call is over: no trade, no block.
OrderLock(c) ==
    /\ pc[c] = "filled"
    /\ scene.kind[c] = "order"
    /\ \/ lock = NoCall /\ lock' = c /\ Go(c, "find") /\ UNCHANGED mem
       \/ Fault("offline") /\ End(c) /\ UNCHANGED lock
    /\ UNCHANGED <<scene, held, docs, pos, guards, monitoring, exiting, closing>>

\* findOne of the open trade; if it throws the fill is an orphan.
OrderFind(c) ==
    /\ pc[c] = "find"
    /\ \/ /\ \E d \in IF Open = {} THEN {NoDoc} ELSE Open :
                mem' = [mem EXCEPT ![c].doc = d,
                                   ![c].qty = IF d = NoDoc THEN 0 ELSE docs[d].qty]
          /\ Go(c, "write")
          /\ UNCHANGED <<guards, lock>>
       \/ /\ Fault("save")
          /\ JournalOrphan
          /\ End(c)
          /\ lock' = NoCall
    /\ UNCHANGED <<scene, held, docs, pos, monitoring, exiting, closing>>

\* Quantity of the trade q after the fill n: added, or reduced but not turned.
AddedOrReduced(q, n) ==
    IF q * n > 0 \/ Abs(n) < Abs(q) THEN q + n ELSE 0

\* The save writes the status or the quantity, whichever it assigned.
OrderSave(c) ==
    /\ pc[c] = "write"
    /\ mem[c].doc # NoDoc
    /\ LET q == AddedOrReduced(mem[c].qty, mem[c].fill)
       IN \/ /\ docs' = IF q = 0 THEN [docs EXCEPT ![mem[c].doc].status = "CLOSED"]
                        ELSE [docs EXCEPT ![mem[c].doc].qty = q]
             /\ UNCHANGED guards
          \/ Fault("save") /\ JournalOrphan /\ UNCHANGED docs
    /\ End(c)
    /\ lock' = NoCall
    /\ UNCHANGED <<scene, held, pos, monitoring, exiting, closing>>

\* No trade is open: the fill makes one, which does not enter the map.
OrderCreate(c) ==
    /\ pc[c] = "write"
    /\ mem[c].doc = NoDoc
    /\ Record(c, "done")
    /\ lock' = IF pc'[c] = "done" THEN NoCall ELSE lock
    /\ UNCHANGED <<scene, held, pos, monitoring, exiting, closing>>

-----------------------------------------------------------------------------
(* The engine: handleLong and handleExit.                                   *)

\* An entry finds neither a position in the map nor an open trade.
NothingOpen == pos = NoPos /\ Open = {}

EntryCall(c) ==
    /\ Starts(c, "entry")
    /\ Go(c, IF NothingOpen THEN "check" ELSE "done")
    /\ UNCHANGED <<scene, held, docs, pos, guards, monitoring, flags, mem>>

EntryCheck(c) == pc[c] = "check" /\ NotBlocked(c)

EntryRecord(c) ==
    /\ pc[c] = "filled"
    /\ scene.kind[c] = "entry"
    /\ Record(c, "install")
    /\ UNCHANGED <<scene, held, pos, monitoring, flags>>

EntryInstall(c) ==
    /\ pc[c] = "install"
    /\ pos' = [doc |-> mem[c].doc, qty |-> mem[c].fill]
    /\ End(c)
    /\ UNCHANGED <<scene, held, docs, guards, monitoring, flags>>

\* handleExit is called by the scheduler, or by the monitor at "call".
ExitsHere(c) ==
    \/ Starts(c, "exit") \/ Starts(c, "trim")
    \/ pc[c] = "call"

\* handleExit is left: quietly, or with an exception.
ExitOver(c, label) ==
    /\ exiting' = FALSE
    /\ IF scene.kind[c] = "monitor"
       THEN Go(c, label) /\ mem' = [mem EXCEPT ![c] = NoMem]
       ELSE End(c)

\* Mutant: the monitor and the scheduler do not see each other.
InFlightUnseen == FALSE

InFlight == exiting

ExitSkipped(c) ==
    /\ ExitsHere(c)
    /\ InFlight \/ pos = NoPos
    /\ Go(c, IF scene.kind[c] = "monitor" THEN "verify" ELSE "done")
    /\ UNCHANGED <<scene, held, docs, pos, guards, monitoring, flags, mem>>

\* What part of a position call c wants to exit.
Wanted(c) == IF scene.kind[c] = "trim" THEN pos.qty - pos.qty \div 2 ELSE pos.qty

\* The position is read, and the order to come worked out from it.
ExitCall(c) ==
    /\ ExitsHere(c)
    /\ ~InFlight
    /\ pos # NoPos
    /\ exiting' = TRUE
    /\ mem' = [mem EXCEPT ![c].doc = pos.doc, ![c].qty = pos.qty,
                          ![c].fill = -Wanted(c)]
    /\ Go(c, IF scene.spot THEN "cap" ELSE "sell")
    /\ UNCHANGED <<scene, held, docs, pos, guards, monitoring, closing, lock>>

\* capSpotSellToFreeBalance; the balance that cannot be read does not matter.
CapSell(c) ==
    /\ pc[c] = "cap"
    /\ LET free == held + Spare
       IN \/ /\ free > 0
             /\ mem' = [mem EXCEPT ![c].fill = -Least({free, -mem[c].fill})]
             /\ Go(c, "sell")
             /\ UNCHANGED exiting
          \/ /\ free <= 0
             /\ ExitOver(c, "failed")
          \/ /\ Fault("lost")
             /\ Go(c, "sell")
             /\ UNCHANGED <<mem, exiting>>
    /\ UNCHANGED <<scene, held, docs, pos, guards, monitoring, closing, lock>>

\* The exit order, reduceOnly on futures.  A lost answer is not confirmed.
Sell(c) ==
    /\ pc[c] = "sell"
    /\ LET n == mem[c].fill
       IN \/ OrderFilled(c, n, TRUE, "sold") /\ UNCHANGED exiting
          \/ /\ Rejected(n, TRUE)
             /\ IF scene.spot
                THEN Go(c, "sellConvert") /\ UNCHANGED <<mem, exiting>>
                ELSE ExitOver(c, "failed")
             /\ UNCHANGED held
          \/ \E f \in UnknownFills(n, TRUE) : held' = held + f /\ ExitOver(c, "failed")
    /\ UNCHANGED <<scene, docs, pos, guards, monitoring, closing, lock>>

SellConvert(c) ==
    /\ pc[c] = "sellConvert"
    /\ \/ OrderFilled(c, mem[c].fill, TRUE, "sold") /\ UNCHANGED exiting
       \/ ExitOver(c, "failed") /\ UNCHANGED held
       \/ \E f \in LostFills(mem[c].fill, TRUE, "quote") :
             held' = held + f /\ ExitOver(c, "failed")
    /\ UNCHANGED <<scene, docs, pos, guards, monitoring, closing, lock>>

\* What the fill of call c leaves of the quantity it read.
Rest(c) == mem[c].qty + mem[c].fill

\* A partial fill: the map first, the document after it, whatever its status.
ExitTrim(c) ==
    /\ pc[c] = "sold"
    /\ Rest(c) > 0
    /\ pos' = [doc |-> mem[c].doc, qty |-> Rest(c)]
    /\ Go(c, "trimSave")
    /\ UNCHANGED <<scene, held, docs, guards, monitoring, flags, mem>>

TrimSave(c) ==
    /\ pc[c] = "trimSave"
    /\ \/ /\ docs' = [docs EXCEPT ![mem[c].doc].qty = Rest(c)]
          /\ ExitOver(c, "verify")
       \/ Fault("save") /\ ExitOver(c, "failed") /\ UNCHANGED docs
    /\ UNCHANGED <<scene, held, pos, guards, monitoring, closing, lock>>

\* A full exit claims the trade, and then removes the position of the key.
ExitClaim(c) ==
    /\ pc[c] = "sold"
    /\ Rest(c) <= 0
    /\ \/ /\ docs' = IF mem[c].doc \in Open
                     THEN [docs EXCEPT ![mem[c].doc].status = "CLOSED"]
                     ELSE docs
          /\ mem' = [mem EXCEPT ![c].fill = 0]
          /\ Go(c, "remove")
          /\ UNCHANGED exiting
       \/ Fault("save") /\ ExitOver(c, "failed") /\ UNCHANGED docs
    /\ UNCHANGED <<scene, held, pos, guards, monitoring, closing, lock>>

ExitRemove(c) ==
    /\ pc[c] = "remove"
    /\ pos' = NoPos
    /\ ExitOver(c, "verify")
    /\ UNCHANGED <<scene, held, docs, guards, monitoring, closing, lock>>

-----------------------------------------------------------------------------
(* monitorLivePositions, every 30 s.                                        *)

\* The latch of a position that is gone is dropped; the list is taken.
MonitorStart(c) ==
    /\ Starts(c, "monitor")
    /\ latch' = (latch /\ pos # NoPos)
    /\ Go(c, IF pos = NoPos THEN "idle" ELSE "tick")
    /\ UNCHANGED <<scene, held, docs, pos, guards, backoff, flags, mem>>

\* The price is at the stop or the target, or an exit is owed.
MonitorTick(c) ==
    /\ pc[c] = "tick"
    /\ \/ latch' = TRUE /\ Go(c, IF backoff THEN "idle" ELSE "call")
       \/ ~latch /\ Go(c, "idle") /\ UNCHANGED latch
    /\ UNCHANGED <<scene, held, docs, pos, guards, backoff, flags, mem>>

\* Mutant: an attempt that failed settles the exit.
OwedNever == FALSE

\* After an attempt that did not throw, the exit is owed while a position is
\* there.
Owed == pos # NoPos

Verify(c) ==
    /\ pc[c] \in {"verify", "failed"}
    /\ IF Owed \/ pc[c] = "failed"
       THEN backoff' = TRUE /\ UNCHANGED latch
       ELSE backoff' = FALSE /\ latch' = FALSE
    /\ Go(c, "idle")
    /\ UNCHANGED <<scene, held, docs, pos, guards, flags, mem>>

\* Five minutes have passed.
RetryDue ==
    /\ backoff
    /\ backoff' = FALSE
    /\ UNCHANGED <<scene, held, docs, pos, guards, latch, flags, pc, mem>>

-----------------------------------------------------------------------------
(* POST /close-position.                                                    *)

CloseFind(c) ==
    /\ Starts(c, "close") \/ Starts(c, "force")
    /\ \/ \E d \in Open \ closing :
             /\ closing' = closing \cup {d}
             /\ mem' = [mem EXCEPT ![c].doc = d, ![c].qty = docs[d].qty]
             /\ Go(c, IF scene.kind[c] = "force" THEN "closeSave" ELSE "closeSend")
       \/ /\ Open = {} \/ closing # {}
          /\ Go(c, "done")
          /\ UNCHANGED <<closing, mem>>
    /\ UNCHANGED <<scene, held, docs, pos, guards, monitoring, exiting, lock>>

CloseOver(c) == closing' = closing \ {mem[c].doc} /\ End(c)

\* On spot any error at all falls back to Convert, a lost answer too.
CloseSend(c) ==
    /\ pc[c] = "closeSend"
    /\ LET n == -mem[c].qty
           onError == IF scene.spot THEN Go(c, "closeConvert") /\ UNCHANGED <<mem, closing>>
                                    ELSE CloseOver(c)
       IN \/ OrderFilled(c, n, TRUE, "closeSave") /\ UNCHANGED closing
          \/ Rejected(n, TRUE) /\ onError /\ UNCHANGED held
          \/ \E f \in UnknownFills(n, TRUE) : held' = held + f /\ onError
    /\ UNCHANGED <<scene, docs, pos, guards, monitoring, exiting, lock>>

\* The quote is repeated for the free balance if there is less than asked.
CloseConvert(c) ==
    /\ pc[c] = "closeConvert"
    /\ LET n == -Least({mem[c].qty, held + Spare})
       IN \/ n < 0 /\ OrderFilled(c, n, TRUE, "closeSave") /\ UNCHANGED closing
          \/ CloseOver(c) /\ UNCHANGED held
          \/ /\ n < 0
             /\ \E f \in LostFills(n, TRUE, "quote") : held' = held + f
             /\ CloseOver(c)
    /\ UNCHANGED <<scene, docs, pos, guards, monitoring, exiting, lock>>

\* By _id, with no regard to the status.  A forced close has no fill.
CloseSave(c) ==
    /\ pc[c] = "closeSave"
    /\ \/ /\ docs' = IF Rest(c) > 0 /\ scene.kind[c] = "close"
                     THEN [docs EXCEPT ![mem[c].doc].qty = Rest(c)]
                     ELSE [docs EXCEPT ![mem[c].doc].status = "CLOSED"]
          /\ Go(c, "closeMap")
          /\ UNCHANGED <<mem, closing>>
       \/ Fault("save") /\ CloseOver(c) /\ UNCHANGED docs
    /\ UNCHANGED <<scene, held, pos, guards, monitoring, exiting, lock>>

CloseMap(c) ==
    /\ pc[c] = "closeMap"
    /\ pos' = IF Rest(c) > 0 /\ scene.kind[c] = "close" /\ pos # NoPos
              THEN [pos EXCEPT !.qty = Rest(c)]
              ELSE NoPos
    /\ CloseOver(c)
    /\ UNCHANGED <<scene, held, docs, guards, monitoring, exiting, lock>>

-----------------------------------------------------------------------------
(* reconcileUserLive, every five minutes: futures only.                     *)

ReconRead(c) ==
    /\ Starts(c, "recon")
    /\ ~scene.spot
    /\ mem' = [mem EXCEPT ![c].qty = held]
    /\ Go(c, "compare")
    /\ UNCHANGED <<scene, held, docs, pos, guards, monitoring, flags>>

ReconFind(c) ==
    /\ pc[c] = "compare"
    /\ mem' = [mem EXCEPT ![c].open = Open]
    /\ Go(c, IF mem[c].qty = 0 THEN "repair" ELSE IF Open = {} THEN "look" ELSE "done")
    /\ UNCHANGED <<scene, held, docs, pos, guards, monitoring, flags>>

\* The trades to close as stale: the exchange was flat.
Stale(c) == mem[c].open \cap Open

ReconClose(c) ==
    /\ pc[c] = "repair"
    /\ docs' = [d \in Docs |-> IF d \in Stale(c) THEN [docs[d] EXCEPT !.status = "CLOSED"]
                               ELSE docs[d]]
    /\ End(c)
    /\ UNCHANGED <<scene, held, pos, guards, monitoring, flags>>

\* The exchange had a position without a trade: look once more, then create.
ReconLook(c) ==
    /\ pc[c] = "look"
    /\ IF Open = {} THEN Go(c, "add") /\ UNCHANGED mem ELSE End(c)
    /\ UNCHANGED <<scene, held, docs, pos, guards, monitoring, flags>>

ReconAdd(c) ==
    /\ pc[c] = "add" /\ Unused # {}
    /\ docs' = [docs EXCEPT ![Least(Unused)] =
                  [status |-> "OPEN", qty |-> mem[c].qty, by |-> c]]
    /\ End(c)
    /\ UNCHANGED <<scene, held, pos, guards, monitoring, flags>>

-----------------------------------------------------------------------------
(* runSentinelAudit, part 1: the map is made to follow the documents.       *)

AuditFind(c) ==
    /\ Starts(c, "audit")
    /\ mem' = [mem EXCEPT ![c].open = Open, ![c].read = [d \in Docs |-> docs[d].qty]]
    /\ Go(c, "audit")
    /\ UNCHANGED <<scene, held, docs, pos, guards, monitoring, flags>>

\* The position of trade d, with the quantity that call c has read.
PositionRead(c, d) == [doc |-> d, qty |-> mem[c].read[d]]

\* Mutant: a position whose trade is not in the list stays.
ConvergedUnpurged(c) ==
    LET missing == mem[c].open \ {pos.doc}
    IN IF missing # {} THEN PositionRead(c, Latest(missing)) ELSE pos

\* A position whose trade is not in the list is purged, and a trade of the list
\* that the map lacks is put there.
Converged(c) ==
    LET missing == mem[c].open \ {pos.doc}
    IN IF missing # {} THEN PositionRead(c, Latest(missing))
       ELSE IF mem[c].open = {} THEN NoPos ELSE pos

AuditFix(c) ==
    /\ pc[c] = "audit"
    /\ pos' = Converged(c)
    /\ IF Cardinality(mem[c].open) > 1
       THEN Go(c, "flatten") /\ UNCHANGED mem
       ELSE End(c)
    /\ UNCHANGED <<scene, held, docs, guards, monitoring, flags>>

\* Of several trades the oldest is sold, as far as the exchange agrees, and
\* closed.
AuditFlatten(c) ==
    /\ pc[c] = "flatten"
    /\ LET n == -mem[c].read[Least(mem[c].open)]
       IN \/ \E f \in Fills(n, FALSE) \cup UnknownFills(n, FALSE) : held' = held + f
          \/ Rejected(n, FALSE) /\ UNCHANGED held
    /\ Go(c, "flattened")
    /\ UNCHANGED <<scene, docs, pos, guards, monitoring, flags, mem>>

AuditClose(c) ==
    /\ pc[c] = "flattened"
    /\ LET oldest == Least(mem[c].open)
           rest == mem[c].open \ {oldest}
       IN /\ docs' = [docs EXCEPT ![oldest].status = "CLOSED"]
          /\ IF Cardinality(rest) > 1
             THEN /\ mem' = [mem EXCEPT ![c].open = rest]
                  /\ Go(c, "flatten")
                  /\ UNCHANGED pos
             ELSE /\ pos' = PositionRead(c, Latest(rest))
                  /\ End(c)
    /\ UNCHANGED <<scene, held, guards, monitoring, flags>>

-----------------------------------------------------------------------------
\* The lots of the open trades.
Lots(d) == IF docs[d].status = "OPEN" THEN docs[d].qty ELSE 0
Recorded == Total([d \in Docs |-> Lots(d)], Docs)

\* The operator clears the block once exchange and database agree, at a quiet
\* moment.
Clear(c) ==
    /\ Starts(c, "clear")
    /\ \A b \in Calls : ~Busy(b)
    /\ blocked /\ held = Recorded
    /\ blocked' = FALSE
    /\ journal' = FALSE \/ (Fault("disk") /\ UNCHANGED journal)
    /\ Go(c, "done")
    /\ UNCHANGED <<scene, held, docs, pos, monitoring, flags, mem>>

\* Mutant: the set starts empty.
BlocksForgotten == FALSE

\* loadBlocksFromJournal, at import.
BlocksLoaded == journal

\* The server stops and starts: hydrate keeps the latest trade of the key and
\* closes its duplicates; every set and map of the process is new.
Restart ==
    /\ Fault("crash")
    /\ \E c \in Calls : Busy(c)
    /\ blocked' = BlocksLoaded
    /\ docs' = [d \in Docs |-> IF d \in Open /\ d # Latest(Open)
                               THEN [docs[d] EXCEPT !.status = "CLOSED"] ELSE docs[d]]
    /\ pos' = IF Open = {} THEN NoPos
              ELSE [doc |-> Latest(Open), qty |-> docs[Latest(Open)].qty]
    /\ latch' = FALSE /\ backoff' = FALSE
    /\ exiting' = FALSE /\ closing' = {} /\ lock' = NoCall
    /\ pc' = [c \in Calls |-> IF Busy(c) THEN AtEnd(c) ELSE pc[c]]
    /\ mem' = [c \in Calls |-> NoMem]
    /\ UNCHANGED <<scene, held, journal>>

-----------------------------------------------------------------------------
Order(c) ==
    \/ OrderCall(c) \/ Send(c) \/ Query(c) \/ Convert(c) \/ OrderLock(c)
    \/ OrderFind(c) \/ OrderSave(c) \/ OrderCreate(c)

Entry(c) ==
    \/ EntryCall(c) \/ EntryCheck(c) \/ Send(c) \/ Query(c) \/ EntryRecord(c)
    \/ EntryInstall(c)

Exit(c) ==
    \/ ExitSkipped(c) \/ ExitCall(c) \/ CapSell(c) \/ Sell(c) \/ SellConvert(c)
    \/ ExitTrim(c) \/ TrimSave(c) \/ ExitClaim(c) \/ ExitRemove(c)

Monitor(c) == MonitorStart(c) \/ MonitorTick(c) \/ Verify(c)

Close(c) ==
    CloseFind(c) \/ CloseSend(c) \/ CloseConvert(c) \/ CloseSave(c) \/ CloseMap(c)

Recon(c) ==
    ReconRead(c) \/ ReconFind(c) \/ ReconClose(c) \/ ReconLook(c) \/ ReconAdd(c)

Audit(c) == AuditFind(c) \/ AuditFix(c) \/ AuditFlatten(c) \/ AuditClose(c)

Step(c) ==
    \/ Order(c) \/ Entry(c) \/ Exit(c) \/ Monitor(c) \/ Close(c) \/ Recon(c)
    \/ Audit(c) \/ Clear(c)

Next == (\E c \in Calls : Step(c)) \/ RetryDue \/ Restart

Spec == Init /\ [][Next]_vars

\* Calls under way go on, the monitor's timer comes round and the back-off runs
\* out; and an exchange that is asked again and again accepts an exit some day.
Fairness ==
    /\ \A c \in Calls :
          /\ WF_vars(Busy(c) /\ Step(c))
          /\ WF_vars(MonitorStart(c))
          /\ SF_vars(Sell(c) /\ pc'[c] = "sold")
    /\ WF_vars(RetryDue)

FairSpec == Spec /\ Fairness

-----------------------------------------------------------------------------
Uses(k) == \E c \in Calls : scene.kind[c] = k

\* What the fills in hand of call c will still do to the records.
InHand(c) ==
    IF /\ pc[c] \in {"query", "filled", "find", "write", "sold", "trimSave", "closeSave"}
       /\ Written(c) = {}
    THEN mem[c].fill ELSE 0

InHands == Total([c \in Calls |-> InHand(c)], Calls)

\* What leaves lots to the operator: a forced close, an audit that closes the
\* trade it could not sell whole, and a stop of the server, which takes what
\* calls had in hand.
LeftToOperator ==
    \/ Uses("force") \/ Fault("crash")
    \/ Uses("audit") /\ scene.faults \cap {"reject", "part", "lost", "http"} # {}

\* What the code does not notice: a 5xx that filled, a Convert whose answer is
\* lost, an order that fills after it was queried, a fill while MongoDB is away,
\* and a look for a written trade that throws (the trade is made twice).
Unnoticed ==
    scene.faults \cap {"http", "quote", "pending", "offline", "lookup"} # {}

\* No lot is held on the exchange that neither a trade records nor a call is
\* about to record, unless entries of the symbol are blocked: not after the lost
\* answer of an order, a write that fails, a partial fill or a retry.  It says
\* nothing of runs with the faults of Unnoticed, which hide lots.
NoHidden == LeftToOperator \/ Unnoticed \/ blocked \/ held <= Recorded + InHands

\* A fill is recorded by one document, whichever attempts to create it threw, as
\* long as the look for what they wrote does not throw as well.
OneRecord ==
    Fault("lookup")
    \/ \A d, e \in Docs : docs[d].by = docs[e].by /\ docs[d].by # NoCall => d = e

\* Exits of which the call does not learn, or which it does not book.
Unbooked == scene.faults \cap {"lost", "http", "quote", "save", "crash"} # {}

\* The exits of the engine, the monitor and the close route never sell more than
\* the trade holds: neither two of them at once nor a retry eats into Spare, as
\* long as each gets its answer and books it and no fill has two trades.
NotOversold ==
    \/ Uses("order") \/ Uses("audit")
    \/ scene.spot /\ (Unbooked \/ Fault("lookup"))
    \/ held >= 0

\* A blocked symbol is free again only when exchange and records agree: not by a
\* restart, unless the journal could not be written.
BlockKept == [][Fault("disk") \/ (blocked /\ ~blocked' => held = Recorded)]_vars

\* A stop that has been hit is exited in the end, whatever the exchange rejects
\* and wherever the price goes meanwhile, as long as no exit goes unbooked.
ExitServed == (latch /\ ~Unbooked) ~> (pos = NoPos)

\* An audit that nothing disturbs leaves the latest open trade in the map, and
\* it alone open.
AuditConverges ==
    [][\A c \in Calls :
          scene.apart /\ Audit(c) /\ pc'[c] = "done" =>
             Open' = IF pos' = NoPos THEN {} ELSE {pos'.doc}]_vars
=============================================================================
