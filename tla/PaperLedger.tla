---------------------------- MODULE PaperLedger ----------------------------
(***************************************************************************)
(* The paper wallet of one (user, mode, accountType) key, its promise      *)
(* chain, and the two MongoDB collections it is kept consistent with:      *)
(* server/src/services/paperState.ts and the wallet routes that call it.   *)
(*                                                                         *)
(* A job is one call of an operation; each of its steps runs from one      *)
(* `await' to the next, so an action is what Node executes without         *)
(* yielding, and the jobs interleave at the awaits.  Balances are whole    *)
(* units of USDT.                                                          *)
(***************************************************************************)
EXTENDS Integers, FiniteSets

CONSTANTS
    Jobs,       \* the calls made of the wallet during the run
    Kind,       \* Kind[j]: which operation call j is
    Amount,     \* Amount[j]: margin, refund or sum that call j moves
    Docs,       \* ids Trade.create can return
    NoDoc,      \* the null document
    Initial,    \* the balance both copies start from
    Faults      \* what the environment may do in this run

Kinds == {"debit", "credit", "deposit", "withdraw", "transferIn", "transferOut"}

FaultKinds ==
    { "abort",       \* a MongoDB transaction aborts (always so on a standalone)
      "unknown",     \* a transaction commits and its commit is reported failed
      "writeFails",  \* a non-transactional write is rejected
      "disconnect",  \* mongoose.connection.readyState leaves 1, and comes back
      "crash" }      \* the process stops and hydrates again

ASSUME LedgerAssumption ==
    /\ Kind \in [Jobs -> Kinds]
    /\ Amount \in [Jobs -> Nat]
    /\ NoDoc \notin Docs
    /\ Initial \in Nat
    /\ Faults \subseteq FaultKinds

Locked == {j \in Jobs : Kind[j] \notin {"transferIn", "transferOut"}}

VARIABLES
    mem,        \* wallets.get(key).get("USDT"): the balance the process uses
    snap,       \* the WalletSnapshot document of the key
    status,     \* the Trade collection: "none" before a document exists
    margin,     \*   what its entry took from the wallet
    refund,     \*   what its close paid back, 0 until then
    pc,         \* the await each call has reached
    ticket,     \* its place in the promise chain of the key, 0 if it has none
    base,       \* its newBalance, then the balance its snapshot write carries
    doc,        \* the trade a closer holds
    tail,       \* walletLocks.get(key): how many calls the chain has taken
    connected,  \* mongoose.connection.readyState = 1
    external,   \* history: net sum moved by deposits, withdrawals and transfers
    book        \* history: net sum moved by trades, as their documents record it

trades == <<status, margin, refund>>
calls == <<pc, ticket, base, doc>>
vars == <<mem, snap, trades, calls, tail, connected, external, book>>

Pcs == {"idle", "waiting", "offlineCreate", "offlineApply", "tx", "fallback",
        "fallbackSnapshot", "apply", "persist", "record", "persistRefund",
        "done", "rejected"}

Settled(j) == pc[j] \in {"done", "rejected"}
Running(j) == pc[j] \notin {"idle", "waiting", "done", "rejected"}

TypeOK ==
    /\ mem \in Int
    /\ snap \in Int
    /\ status \in [Docs -> {"none", "OPEN", "CLOSED"}]
    /\ margin \in [Docs -> Nat]
    /\ refund \in [Docs -> Nat]
    /\ pc \in [Jobs -> Pcs]
    /\ ticket \in [Jobs -> Nat]
    /\ base \in [Jobs -> Int]
    /\ doc \in [Jobs -> Docs \cup {NoDoc}]
    /\ tail \in Nat
    /\ connected \in BOOLEAN
    /\ external \in Int
    /\ book \in Int

Init ==
    /\ mem = Initial
    /\ snap = Initial
    /\ status = [d \in Docs |-> "none"]
    /\ margin = [d \in Docs |-> 0]
    /\ refund = [d \in Docs |-> 0]
    /\ pc = [j \in Jobs |-> "idle"]
    /\ ticket = [j \in Jobs |-> 0]
    /\ base = [j \in Jobs |-> 0]
    /\ doc = [j \in Jobs |-> NoDoc]
    /\ tail = 0
    /\ connected = TRUE
    /\ external = 0
    /\ book = 0

-----------------------------------------------------------------------------
(* Steps shared by the operations. *)

\* Call j runs to its next await, or settles.
GotoWith(j, label, balance) ==
    /\ pc' = [pc EXCEPT ![j] = label]
    /\ base' = [base EXCEPT ![j] = balance]
    /\ UNCHANGED <<ticket, doc>>

Goto(j, label) == GotoWith(j, label, base[j])

\* withWalletLock: take the next place of the key's promise chain.
Enqueue(j, d) ==
    /\ tail' = tail + 1
    /\ pc' = [pc EXCEPT ![j] = "waiting"]
    /\ ticket' = [ticket EXCEPT ![j] = tail + 1]
    /\ doc' = [doc EXCEPT ![j] = d]
    /\ UNCHANGED base

\* Mutant: the body does not wait for the call before it.
MyTurnNoWait(j) == pc[j] = "waiting"

\* Mutant: prior.then(fn), which skips the bodies queued behind a rejection.
MyTurnIfResolved(j) ==
    /\ pc[j] = "waiting"
    /\ \A i \in Jobs : ticket[i] # 0 /\ ticket[i] = ticket[j] - 1 => pc[i] = "done"

\* prior.then(fn, fn): the body of j runs once the call before it in the chain
\* has settled, whether it resolved or rejected.
MyTurn(j) ==
    /\ pc[j] = "waiting"
    /\ \A i \in Jobs : ticket[i] # 0 /\ ticket[i] = ticket[j] - 1 => Settled(i)

\* A transaction that does not commit, and a write outside one that fails.
MayAbort == "abort" \in Faults \/ ~connected
WriteMayFail == "writeFails" \in Faults \/ ~connected

\* Mutant: walletDebited recorded with the sign of the cash flow.
CreateTradeSigned(j, d) ==
    /\ status[d] = "none"
    /\ status' = [status EXCEPT ![d] = "OPEN"]
    /\ margin' = [margin EXCEPT ![d] = - Amount[j]]
    /\ UNCHANGED refund
    /\ book' = book - Amount[j]

\* Trade.create makes a document of its own each time it is called.
CreateTrade(j, d) ==
    /\ status[d] = "none"
    /\ status' = [status EXCEPT ![d] = "OPEN"]
    /\ margin' = [margin EXCEPT ![d] = Amount[j]]
    /\ UNCHANGED refund
    /\ book' = book - Amount[j]

\* Mutant: the update does not filter on status OPEN.
ClaimTradeById(j) ==
    /\ status' = [status EXCEPT ![doc[j]] = "CLOSED"]
    /\ refund' = [refund EXCEPT ![doc[j]] = Amount[j]]
    /\ UNCHANGED margin
    /\ book' = book + Amount[j]

\* findOneAndUpdate({_id, status: "OPEN"}, {status: "CLOSED", ...}) that matched.
ClaimTrade(j) ==
    /\ status[doc[j]] = "OPEN"
    /\ status' = [status EXCEPT ![doc[j]] = "CLOSED"]
    /\ refund' = [refund EXCEPT ![doc[j]] = Amount[j]]
    /\ UNCHANGED margin
    /\ book' = book + Amount[j]

\* setWalletBalance: the map changes at once; the snapshot write of that
\* balance is sent in the same step, only if connected, and lands later.
SetBalance(j, balance, then, otherwise) ==
    /\ mem' = balance
    /\ GotoWith(j, IF connected THEN then ELSE otherwise, balance)

-----------------------------------------------------------------------------
(* debitWalletAndCreateTrade *)

CallDebit(j) ==
    /\ Kind[j] = "debit" /\ pc[j] = "idle"
    /\ Enqueue(j, NoDoc)
    /\ UNCHANGED <<mem, snap, trades, connected, external, book>>

\* Under the lock: newBalance, the authoritative funds check, readyState.
StartDebit(j) ==
    /\ Kind[j] = "debit" /\ MyTurn(j)
    /\ GotoWith(j, IF mem - Amount[j] < 0 THEN "rejected"
                   ELSE IF connected THEN "tx" ELSE "offlineCreate", mem - Amount[j])
    /\ UNCHANGED <<mem, snap, trades, tail, connected, external, book>>

\* Mongoose buffers the insert until the connection is back, or it times out.
OfflineCreate(j) ==
    /\ pc[j] = "offlineCreate"
    /\ \/ /\ connected
          /\ \E d \in Docs : CreateTrade(j, d)
          /\ Goto(j, "offlineApply")
       \/ /\ Goto(j, "rejected")
          /\ UNCHANGED <<trades, book>>
    /\ UNCHANGED <<mem, snap, tail, connected, external>>

OfflineApply(j) ==
    /\ pc[j] = "offlineApply"
    /\ mem' = base[j]
    /\ Goto(j, "done")
    /\ UNCHANGED <<snap, trades, tail, connected, external, book>>

DebitTx(j) ==
    /\ Kind[j] = "debit" /\ pc[j] = "tx"
    /\ \/ /\ connected
          /\ \E d \in Docs : CreateTrade(j, d)
          /\ snap' = base[j]
          /\ \/ Goto(j, "apply")
             \/ "unknown" \in Faults /\ Goto(j, "fallback")
       \/ /\ MayAbort
          /\ Goto(j, "fallback")
          /\ UNCHANGED <<snap, trades, book>>
    /\ UNCHANGED <<mem, tail, connected, external>>

\* catch (txErr): the same two writes again, one after the other.
DebitFallback(j) ==
    /\ Kind[j] = "debit" /\ pc[j] = "fallback"
    /\ \/ /\ connected
          /\ \E d \in Docs : CreateTrade(j, d)
          /\ Goto(j, "fallbackSnapshot")
       \/ /\ WriteMayFail
          /\ Goto(j, "rejected")
          /\ UNCHANGED <<trades, book>>
    /\ UNCHANGED <<mem, snap, tail, connected, external>>

-----------------------------------------------------------------------------
(* creditWalletAndCloseTrade *)

\* A closer holds the id of a trade it has seen OPEN.
CallCredit(j) ==
    /\ Kind[j] = "credit" /\ pc[j] = "idle"
    /\ \E d \in Docs :
          /\ status[d] = "OPEN"
          /\ IF connected
             THEN Enqueue(j, d)
             ELSE Goto(j, "rejected") /\ UNCHANGED tail
    /\ UNCHANGED <<mem, snap, trades, connected, external, book>>

StartCredit(j) ==
    /\ Kind[j] = "credit" /\ MyTurn(j)
    /\ GotoWith(j, "tx", mem + Amount[j])
    /\ UNCHANGED <<mem, snap, trades, tail, connected, external, book>>

\* Mutant: the trade is closed first and the wallet credited afterwards.
CreditTxSplit(j) ==
    /\ Kind[j] = "credit" /\ pc[j] = "tx" /\ connected
    /\ IF status[doc[j]] = "OPEN"
       THEN ClaimTrade(j) /\ Goto(j, "fallbackSnapshot")
       ELSE Goto(j, "done") /\ UNCHANGED <<trades, book>>
    /\ UNCHANGED <<mem, snap, tail, connected, external>>

CreditTx(j) ==
    /\ Kind[j] = "credit" /\ pc[j] = "tx"
    /\ \/ /\ connected
          /\ ClaimTrade(j)
          /\ snap' = base[j]
          /\ \/ Goto(j, "apply")
             \/ "unknown" \in Faults /\ Goto(j, "fallback")
       \/ /\ connected
          /\ status[doc[j]] # "OPEN"
          /\ Goto(j, "done")
          /\ UNCHANGED <<snap, trades, book>>
       \/ /\ MayAbort
          /\ Goto(j, "fallback")
          /\ UNCHANGED <<snap, trades, book>>
    /\ UNCHANGED <<mem, tail, connected, external>>

CreditFallback(j) ==
    /\ Kind[j] = "credit" /\ pc[j] = "fallback"
    /\ \/ /\ connected
          /\ ClaimTrade(j)
          /\ Goto(j, "fallbackSnapshot")
       \/ /\ connected
          /\ status[doc[j]] # "OPEN"
          /\ Goto(j, "done")
          /\ UNCHANGED <<trades, book>>
       \/ /\ WriteMayFail
          /\ Goto(j, "rejected")
          /\ UNCHANGED <<trades, book>>
    /\ UNCHANGED <<mem, snap, tail, connected, external>>

-----------------------------------------------------------------------------
(* The end of both: the snapshot of the fallback, and the map. *)

FallbackSnapshot(j) ==
    /\ pc[j] = "fallbackSnapshot"
    /\ \/ connected /\ snap' = base[j] /\ Goto(j, "apply")
       \/ WriteMayFail /\ Goto(j, "rejected") /\ UNCHANGED snap
    /\ UNCHANGED <<mem, trades, tail, connected, external, book>>

\* Mutant: the balance computed before the awaits is written back.
ApplyAbsolute(j) ==
    /\ pc[j] = "apply"
    /\ mem' = base[j]
    /\ Goto(j, "done")
    /\ UNCHANGED <<snap, trades, tail, connected, external, book>>

\* The delta goes on the balance as it is now; a snapshot that was committed
\* from an older balance is written again.
Apply(j) ==
    /\ pc[j] = "apply"
    /\ LET committed == IF Kind[j] = "debit" THEN mem - Amount[j] ELSE mem + Amount[j]
       IN IF committed = base[j]
          THEN mem' = committed /\ Goto(j, "done")
          ELSE SetBalance(j, committed, "persist", "done")
    /\ UNCHANGED <<snap, trades, tail, connected, external, book>>

-----------------------------------------------------------------------------
(* The wallet routes: /deposit/upi and /p2p/buy (deposit), /withdraw/* and  *)
(* /p2p/create (withdraw) under the lock; /transfer, which takes no lock.   *)

CallLocked(j) ==
    /\ Kind[j] \in {"deposit", "withdraw"} /\ pc[j] = "idle"
    /\ Enqueue(j, NoDoc)
    /\ UNCHANGED <<mem, snap, trades, connected, external, book>>

Deposit(j) ==
    /\ Kind[j] = "deposit" /\ MyTurn(j)
    /\ SetBalance(j, mem + Amount[j], "persist", "done")
    /\ external' = external + Amount[j]
    /\ UNCHANGED <<snap, trades, tail, connected, book>>

Withdraw(j) ==
    /\ Kind[j] = "withdraw" /\ MyTurn(j)
    /\ IF Amount[j] > mem
       THEN Goto(j, "done") /\ UNCHANGED <<mem, external>>
       ELSE /\ SetBalance(j, mem - Amount[j], "persist", "record")
            /\ external' = external - Amount[j]
    /\ UNCHANGED <<snap, trades, tail, connected, book>>

\* WalletTransaction.create; the debit is refunded if the record fails.
RecordWithdraw(j) ==
    /\ pc[j] = "record"
    /\ \/ connected /\ Goto(j, "done") /\ UNCHANGED <<mem, external>>
       \/ /\ WriteMayFail
          /\ SetBalance(j, mem + Amount[j], "persistRefund", "rejected")
          /\ external' = external + Amount[j]
    /\ UNCHANGED <<snap, trades, tail, connected, book>>

TransferIn(j) ==
    /\ Kind[j] = "transferIn" /\ pc[j] = "idle"
    /\ SetBalance(j, mem + Amount[j], "persist", "done")
    /\ external' = external + Amount[j]
    /\ UNCHANGED <<snap, trades, tail, connected, book>>

TransferOut(j) ==
    /\ Kind[j] = "transferOut" /\ pc[j] = "idle"
    /\ IF mem < Amount[j]
       THEN Goto(j, "rejected") /\ UNCHANGED <<mem, external>>
       ELSE /\ SetBalance(j, mem - Amount[j], "persist", "done")
            /\ external' = external - Amount[j]
    /\ UNCHANGED <<snap, trades, tail, connected, book>>

\* The snapshot write of a setWalletBalance lands, or fails and is logged.
Persist(j) ==
    /\ pc[j] \in {"persist", "persistRefund"}
    /\ \/ connected /\ snap' = base[j]
       \/ WriteMayFail /\ UNCHANGED snap
    /\ Goto(j, IF pc[j] = "persistRefund" THEN "rejected"
               ELSE IF Kind[j] = "withdraw" THEN "record" ELSE "done")
    /\ UNCHANGED <<mem, trades, tail, connected, external, book>>

-----------------------------------------------------------------------------
(* The environment. *)

Disconnect ==
    /\ "disconnect" \in Faults /\ connected
    /\ connected' = FALSE
    /\ UNCHANGED <<mem, snap, trades, calls, tail, external, book>>

Reconnect ==
    /\ ~connected
    /\ connected' = TRUE
    /\ UNCHANGED <<mem, snap, trades, calls, tail, external, book>>

\* Mutant: hydrate() starts from the allocation instead of the snapshot.
RestartFromInitial ==
    /\ "crash" \in Faults
    /\ \E j \in Jobs : pc[j] # "idle" /\ ~Settled(j)
    /\ mem' = Initial
    /\ pc' = [j \in Jobs |-> IF pc[j] = "idle" \/ Settled(j) THEN pc[j] ELSE "rejected"]
    /\ connected' = TRUE
    /\ UNCHANGED <<snap, trades, ticket, base, doc, tail, external, book>>

\* The process stops with its calls; the next one connects first and
\* hydrate() takes the balance from the snapshot.
Restart ==
    /\ "crash" \in Faults
    /\ \E j \in Jobs : pc[j] # "idle" /\ ~Settled(j)
    /\ mem' = snap
    /\ pc' = [j \in Jobs |-> IF pc[j] = "idle" \/ Settled(j) THEN pc[j] ELSE "rejected"]
    /\ connected' = TRUE
    /\ UNCHANGED <<snap, trades, ticket, base, doc, tail, external, book>>

-----------------------------------------------------------------------------

Call(j) == CallDebit(j) \/ CallCredit(j) \/ CallLocked(j) \/ TransferIn(j) \/ TransferOut(j)

Step(j) ==
    \/ StartDebit(j) \/ OfflineCreate(j) \/ OfflineApply(j) \/ DebitTx(j) \/ DebitFallback(j)
    \/ StartCredit(j) \/ CreditTx(j) \/ CreditFallback(j)
    \/ FallbackSnapshot(j) \/ Apply(j)
    \/ Deposit(j) \/ Withdraw(j) \/ RecordWithdraw(j) \/ Persist(j)

Next ==
    \/ \E j \in Jobs : Call(j) \/ Step(j)
    \/ Disconnect \/ Reconnect \/ Restart

Spec == Init /\ [][Next]_vars

\* A started call never stops between two awaits for ever: the driver answers
\* or times out (server selection 5 s, socket 45 s).
FairSpec == Spec /\ \A j \in Jobs : WF_vars(Step(j))

-----------------------------------------------------------------------------
(* Properties. *)

\* withWalletLock is a mutex: of the calls that take the lock of this key, at
\* most one has started its body and not settled (paperState.ts:174-194).
InLock(j) == j \in Locked /\ Running(j)

LockExclusive == \A i, j \in Jobs : InLock(i) /\ InLock(j) => i = j

\* The funds check of debitWalletAndCreateTrade is authoritative
\* (paperState.ts:271-276): neither copy of the balance ever goes below zero.
NoOverdraft == mem >= 0 /\ snap >= 0

\* A call whose Trade write is done and whose sum is not yet on the map.
Pending(j) == pc[j] \in {"offlineApply", "fallbackSnapshot", "apply"}

Unposted(j) == IF Kind[j] = "debit" THEN - Amount[j] ELSE Amount[j]

\* No money appears or is lost in memory: apart from the one sum a call in
\* the lock still has to post, the map holds what was there at the start plus
\* what deposits, withdrawals, transfers and trades moved, whichever of them
\* ran during whose awaits (paperState.ts:313-318, 384-387).
Conservation ==
    /\ (\A j \in Jobs : ~Pending(j)) => mem = Initial + external + book
    /\ \A j \in Jobs : Pending(j) => mem + Unposted(j) = Initial + external + book

\* A wallet only trades move has, at every moment a crash could hit, a
\* snapshot that agrees with the Trade collection: a trade and its money
\* commit or roll back together (paperState.ts:241-248, 331-334).
Durable == snap = Initial + book

\* When no call is under way, a restart would find the balance the process uses.
SnapshotCaughtUp == (\A j \in Jobs : pc[j] = "idle" \/ Settled(j)) => snap = mem

\* A closed trade is never closed, or paid out, a second time: the losers of
\* the OPEN -> CLOSED claim change nothing (paperState.ts:327-330).
ClosedIsFinal ==
    [][\A d \in Docs : status[d] = "CLOSED" => status'[d] = "CLOSED" /\ refund'[d] = refund[d]]_vars

\* A call queued on the lock settles, whatever became of those before it
\* (paperState.ts:188-191: the chain goes on after a rejection).
EveryCallSettles == \A j \in Jobs : pc[j] = "waiting" ~> Settled(j)

=============================================================================
