------------------------- MODULE PaperLedgerProofs -------------------------
(***************************************************************************)
(* Proofs about PaperLedger, for any set of calls, amounts and documents.  *)
(***************************************************************************)
EXTENDS PaperLedger, TLAPS

-----------------------------------------------------------------------------
(* Type correctness *)

\* Every step keeps the variables in their types, every balance an integer.
LEMMA NextType == TypeOK /\ [Next]_vars => TypeOK'
<1> SUFFICES ASSUME TypeOK, [Next]_vars PROVE TypeOK'
  OBVIOUS
<1> USE LedgerAssumption DEF TypeOK, Kinds, trades, calls
<1>1. ASSUME NEW j \in Jobs, CallDebit(j) PROVE TypeOK'
  BY <1>1 DEF CallDebit, Enqueue, Pcs
<1>2. ASSUME NEW j \in Jobs, StartDebit(j) PROVE TypeOK'
  BY <1>2 DEF StartDebit, MyTurn, GotoWith, Pcs
<1>3. ASSUME NEW j \in Jobs, OfflineCreate(j) PROVE TypeOK'
  BY <1>3 DEF OfflineCreate, CreateTrade, Goto, GotoWith, Pcs
<1>4. ASSUME NEW j \in Jobs, OfflineApply(j) PROVE TypeOK'
  BY <1>4 DEF OfflineApply, Goto, GotoWith, Pcs
<1>5. ASSUME NEW j \in Jobs, DebitTx(j) PROVE TypeOK'
  BY <1>5 DEF DebitTx, CreateTrade, Goto, GotoWith, Pcs
<1>6. ASSUME NEW j \in Jobs, DebitFallback(j) PROVE TypeOK'
  BY <1>6 DEF DebitFallback, CreateTrade, Goto, GotoWith, Pcs
<1>7. ASSUME NEW j \in Jobs, CallCredit(j) PROVE TypeOK'
  BY <1>7 DEF CallCredit, Enqueue, Goto, GotoWith, Pcs
<1>8. ASSUME NEW j \in Jobs, StartCredit(j) PROVE TypeOK'
  BY <1>8 DEF StartCredit, MyTurn, GotoWith, Pcs
<1>9. ASSUME NEW j \in Jobs, CreditTx(j) PROVE TypeOK'
  BY <1>9 DEF CreditTx, ClaimTrade, Goto, GotoWith, Pcs
<1>10. ASSUME NEW j \in Jobs, CreditFallback(j) PROVE TypeOK'
  BY <1>10 DEF CreditFallback, ClaimTrade, Goto, GotoWith, Pcs
<1>11. ASSUME NEW j \in Jobs, FallbackSnapshot(j) PROVE TypeOK'
  BY <1>11 DEF FallbackSnapshot, Goto, GotoWith, Pcs
<1>12. ASSUME NEW j \in Jobs, Apply(j) PROVE TypeOK'
  BY <1>12 DEF Apply, SetBalance, Goto, GotoWith, Pcs
<1>13. ASSUME NEW j \in Jobs, CallLocked(j) PROVE TypeOK'
  BY <1>13 DEF CallLocked, Enqueue, Pcs
<1>14. ASSUME NEW j \in Jobs, Deposit(j) PROVE TypeOK'
  BY <1>14 DEF Deposit, MyTurn, SetBalance, GotoWith, Pcs
<1>15. ASSUME NEW j \in Jobs, Withdraw(j) PROVE TypeOK'
  BY <1>15 DEF Withdraw, MyTurn, SetBalance, Goto, GotoWith, Pcs
<1>16. ASSUME NEW j \in Jobs, RecordWithdraw(j) PROVE TypeOK'
  BY <1>16 DEF RecordWithdraw, SetBalance, Goto, GotoWith, Pcs
<1>17. ASSUME NEW j \in Jobs, TransferIn(j) PROVE TypeOK'
  BY <1>17 DEF TransferIn, SetBalance, GotoWith, Pcs
<1>18. ASSUME NEW j \in Jobs, TransferOut(j) PROVE TypeOK'
  BY <1>18 DEF TransferOut, SetBalance, Goto, GotoWith, Pcs
<1>19. ASSUME NEW j \in Jobs, Persist(j) PROVE TypeOK'
  BY <1>19 DEF Persist, Goto, GotoWith, Pcs
<1>20. CASE Disconnect \/ Reconnect
  BY <1>20 DEF Disconnect, Reconnect
<1>21. CASE Restart
  BY <1>21 DEF Restart, Settled, Pcs
<1>22. CASE UNCHANGED vars
  BY <1>22 DEF vars, trades, calls
<1> QED
  BY <1>1, <1>2, <1>3, <1>4, <1>5, <1>6, <1>7, <1>8, <1>9, <1>10, <1>11, <1>12, <1>13,
     <1>14, <1>15, <1>16, <1>17, <1>18, <1>19, <1>20, <1>21, <1>22 DEF Next, Call, Step

\* The ledger's variables keep their types in every reachable state.
THEOREM TypeCorrect == Spec => []TypeOK
<1>1. Init => TypeOK
  BY LedgerAssumption DEF Init, TypeOK, Pcs
<1> QED
  BY <1>1, NextType, PTL DEF Spec

-----------------------------------------------------------------------------
(* Mutual exclusion                                                        *)
(*                                                                         *)
(* The promise chain is the order of the tickets.  The invariant says that *)
(* every place up to the tail is some call's, no place is two calls', and  *)
(* a call that has started has every earlier place settled before it.     *)

Started(j) == pc[j] \notin {"idle", "waiting"}

TicketsHeld == \A j \in Locked : pc[j] \notin {"idle", "done", "rejected"} => ticket[j] # 0
NotYetQueued == \A j \in Jobs : pc[j] = "idle" => ticket[j] = 0
ChainFull == \A n \in 1 .. tail : \E j \in Jobs : ticket[j] = n
ChainBounded == \A j \in Jobs : ticket[j] <= tail
PlaceOfOne == \A i, j \in Jobs : ticket[i] = ticket[j] /\ ticket[i] # 0 => i = j
ChainOrder == \A i, j \in Jobs :
                 ticket[i] # 0 /\ ticket[i] < ticket[j] /\ Started(j) => Settled(i)

ChainInv == /\ TypeOK
            /\ TicketsHeld /\ NotYetQueued /\ ChainFull
            /\ ChainBounded /\ PlaceOfOne /\ ChainOrder

\* Two calls in the lock would each have the other settled before it.
LEMMA ChainExcludes == ChainInv => LockExclusive
BY LedgerAssumption DEF ChainInv, TypeOK, TicketsHeld, PlaceOfOne, ChainOrder, LockExclusive,
   InLock, Running, Started, Settled, Locked, Kinds

\* The same of the state after a step.
LEMMA ChainExcludesNext == ChainInv' => LockExclusive'
BY LedgerAssumption DEF ChainInv, TypeOK, TicketsHeld, PlaceOfOne, ChainOrder, LockExclusive,
   InLock, Running, Started, Settled, Locked, Kinds

\* A call that takes a place goes behind all the others.
LEMMA EnqueueKeepsChain ==
  ASSUME ChainInv, NEW j \in Jobs, NEW d, pc[j] = "idle", Enqueue(j, d), TypeOK'
  PROVE  ChainInv'
<1> USE DEF ChainInv, TypeOK, Enqueue, Started, Settled
<1>1. TicketsHeld' /\ NotYetQueued' /\ ChainBounded'
  BY DEF TicketsHeld, NotYetQueued, ChainBounded, Locked
<1>2. ChainFull'
  BY DEF ChainFull, NotYetQueued
<1>3. PlaceOfOne'
  BY DEF PlaceOfOne, ChainBounded
<1>4. ChainOrder'
  BY DEF ChainOrder, ChainBounded
<1> QED
  BY <1>1, <1>2, <1>3, <1>4

\* A body that starts has the call before it settled, hence all the earlier ones.
LEMMA StartKeepsChain ==
  ASSUME ChainInv, NEW j \in Jobs, MyTurn(j), NEW label, NEW b, GotoWith(j, label, b),
         label \notin {"idle", "waiting"}, tail' = tail, TypeOK'
  PROVE  ChainInv'
<1> USE DEF ChainInv, TypeOK, GotoWith, Started, Settled
<1>1. TicketsHeld' /\ NotYetQueued' /\ ChainBounded' /\ ChainFull' /\ PlaceOfOne'
  BY DEF TicketsHeld, NotYetQueued, ChainBounded, ChainFull, PlaceOfOne, MyTurn, Locked
<1>2. ASSUME NEW i \in Jobs, ticket[i] # 0, ticket[i] < ticket[j] PROVE Settled(i)
  <2>1. ticket[j] - 1 \in 1 .. tail
    BY <1>2 DEF ChainBounded
  <2>2. PICK p \in Jobs : ticket[p] = ticket[j] - 1
    BY <2>1 DEF ChainFull
  <2>3. Settled(p) /\ ticket[p] # 0
    BY <2>1, <2>2 DEF MyTurn
  <2>4. CASE ticket[i] = ticket[p]
    BY <2>3, <2>4, <1>2 DEF PlaceOfOne
  <2>5. CASE ticket[i] < ticket[p]
    BY <2>3, <2>5, <1>2 DEF ChainOrder
  <2> QED
    BY <1>2, <2>2, <2>4, <2>5
<1>3. ChainOrder'
  BY <1>2 DEF ChainOrder, MyTurn
<1> QED
  BY <1>1, <1>3

\* A call that runs on, or that needs no place, disturbs nobody's turn.
LEMMA AdvanceKeepsChain ==
  ASSUME ChainInv, NEW j \in Jobs, NEW label, NEW b, GotoWith(j, label, b),
         label \notin {"idle", "waiting"}, tail' = tail, TypeOK',
         Running(j) \/ (pc[j] = "idle" /\ (j \notin Locked \/ label = "rejected"))
  PROVE  ChainInv'
<1> USE DEF ChainInv, TypeOK, GotoWith, Started, Settled, Running
<1>1. TicketsHeld' /\ NotYetQueued' /\ ChainBounded' /\ ChainFull' /\ PlaceOfOne'
  BY DEF TicketsHeld, NotYetQueued, ChainBounded, ChainFull, PlaceOfOne, Locked
<1>2. ChainOrder'
  BY DEF ChainOrder, NotYetQueued
<1> QED
  BY <1>1, <1>2

\* Every step of every path keeps the order of the chain.
LEMMA NextChain == ChainInv /\ [Next]_vars => ChainInv'
<1> SUFFICES ASSUME ChainInv, [Next]_vars PROVE ChainInv'
  OBVIOUS
<1>0. TypeOK'
  BY NextType DEF ChainInv
<1>1. ASSUME NEW j \in Jobs, CallDebit(j) \/ CallLocked(j) PROVE ChainInv'
  BY <1>0, <1>1, EnqueueKeepsChain DEF CallDebit, CallLocked
<1>2. ASSUME NEW j \in Jobs, CallCredit(j) PROVE ChainInv'
  <2>1. ASSUME NEW d \in Docs, Enqueue(j, d) PROVE ChainInv'
    BY <1>0, <1>2, <2>1, EnqueueKeepsChain DEF CallCredit
  <2>2. ASSUME Goto(j, "rejected"), UNCHANGED tail PROVE ChainInv'
    BY <1>0, <1>2, <2>2, AdvanceKeepsChain DEF CallCredit, Goto
  <2> QED
    BY <1>2, <2>1, <2>2 DEF CallCredit
<1>3. ASSUME NEW j \in Jobs, StartDebit(j) PROVE ChainInv'
  BY <1>0, <1>3, StartKeepsChain DEF StartDebit
<1>4. ASSUME NEW j \in Jobs, StartCredit(j) PROVE ChainInv'
  BY <1>0, <1>4, StartKeepsChain DEF StartCredit
<1>5. ASSUME NEW j \in Jobs, Deposit(j) PROVE ChainInv'
  BY <1>0, <1>5, StartKeepsChain DEF Deposit, SetBalance
<1>6. ASSUME NEW j \in Jobs, Withdraw(j) PROVE ChainInv'
  BY <1>0, <1>6, StartKeepsChain DEF Withdraw, SetBalance, Goto
<1>7. ASSUME NEW j \in Jobs,
             \/ OfflineCreate(j) \/ OfflineApply(j) \/ DebitTx(j) \/ DebitFallback(j)
             \/ CreditTx(j) \/ CreditFallback(j) \/ FallbackSnapshot(j) \/ Apply(j)
             \/ RecordWithdraw(j) \/ Persist(j)
      PROVE  ChainInv'
  <2>1. Running(j) /\ tail' = tail
    BY <1>7 DEF Running, OfflineCreate, OfflineApply, DebitTx, DebitFallback, CreditTx,
       CreditFallback, FallbackSnapshot, Apply, RecordWithdraw, Persist
  <2>2. \E label, b : label \notin {"idle", "waiting"} /\ GotoWith(j, label, b)
    BY <1>7 DEF Goto, SetBalance, OfflineCreate, OfflineApply, DebitTx, DebitFallback, CreditTx,
       CreditFallback, FallbackSnapshot, Apply, RecordWithdraw, Persist
  <2> QED
    BY <1>0, <2>1, <2>2, AdvanceKeepsChain
<1>8. ASSUME NEW j \in Jobs, TransferIn(j) \/ TransferOut(j) PROVE ChainInv'
  <2>1. j \notin Locked /\ pc[j] = "idle" /\ tail' = tail
    BY <1>8 DEF TransferIn, TransferOut, Locked
  <2>2. \E label, b : label \notin {"idle", "waiting"} /\ GotoWith(j, label, b)
    BY <1>8 DEF TransferIn, TransferOut, SetBalance, Goto
  <2> QED
    BY <1>0, <2>1, <2>2, AdvanceKeepsChain
<1>9. CASE Restart
  <2> USE <1>9 DEF Restart, Settled, Started
  <2>1. /\ UNCHANGED <<ticket, tail>>
        /\ \A j \in Jobs : /\ pc'[j] = "idle" <=> pc[j] = "idle"
                           /\ pc'[j] \in {"idle", "done", "rejected"}
    BY DEF ChainInv, TypeOK
  <2>2. TicketsHeld' /\ NotYetQueued' /\ ChainFull' /\ ChainBounded' /\ PlaceOfOne'
    BY <2>1 DEF ChainInv, TicketsHeld, NotYetQueued, ChainFull, ChainBounded, PlaceOfOne, Locked
  <2>3. ChainOrder'
    BY <2>1 DEF ChainInv, TypeOK, ChainOrder, NotYetQueued
  <2> QED
    BY <1>0, <2>2, <2>3 DEF ChainInv
<1>10. CASE Disconnect \/ Reconnect \/ UNCHANGED vars
  <2>1. UNCHANGED <<pc, ticket, tail>>
    BY <1>10 DEF Disconnect, Reconnect, vars, calls
  <2> QED
    BY <1>0, <2>1 DEF ChainInv, TicketsHeld, NotYetQueued,
       ChainFull, ChainBounded, PlaceOfOne, ChainOrder, Started, Settled
<1> QED
  BY <1>1, <1>2, <1>3, <1>4, <1>5, <1>6, <1>7, <1>8, <1>9, <1>10 DEF Next, Call, Step

\* The chain starts empty.
LEMMA InitChain == Init => ChainInv
<1> SUFFICES ASSUME Init PROVE ChainInv
  OBVIOUS
<1>1. TypeOK
  BY LedgerAssumption DEF Init, TypeOK, Pcs
<1>2. TicketsHeld /\ NotYetQueued /\ ChainBounded /\ PlaceOfOne /\ ChainOrder
  BY DEF Init, TicketsHeld, NotYetQueued, ChainBounded, PlaceOfOne, ChainOrder, Locked
<1>3. ChainFull
  BY DEF Init, ChainFull
<1> QED
  BY <1>1, <1>2, <1>3 DEF ChainInv

\* The order of the chain holds throughout.
LEMMA ChainAlways == Spec => []ChainInv
BY InitChain, NextChain, PTL DEF Spec

\* withWalletLock is a mutex, for any number of calls and whatever fails.
THEOREM MutualExclusion == Spec => []LockExclusive
BY ChainAlways, ChainExcludes, PTL

-----------------------------------------------------------------------------
(* Nothing is overdrawn                                                    *)
(*                                                                         *)
(* Between its funds check and its subtraction an entry holds the lock, so *)
(* only a call outside the lock could take what it checked: the theorem    *)
(* assumes that there is none.  Every balance on its way to the snapshot   *)
(* was one the map could hold.                                             *)

NoTransferOut == \A j \in Jobs : Kind[j] # "transferOut"

UnlockedPcs == \A j \in Jobs \ Locked : pc[j] \in {"idle", "persist", "done", "rejected"}
BasesCovered == \A j \in Jobs : Running(j) => base[j] >= 0
Spending(j) == Kind[j] = "debit" /\ Running(j) /\ pc[j] # "persist"
Covered == \A j \in Jobs : Spending(j) => mem >= Amount[j]

MoneyInv == NoOverdraft /\ UnlockedPcs /\ BasesCovered /\ Covered

\* While j is in the lock nobody else is spending.
LEMMA SpenderAlone ==
  ASSUME TypeOK, LockExclusive, UnlockedPcs, NEW j \in Jobs, j \in Locked, Running(j),
         NEW i \in Jobs, Spending(i)
  PROVE  i = j
BY LedgerAssumption DEF TypeOK, LockExclusive, InLock, Spending, Locked, Kinds

\* No step takes the balance below zero, since its spender has checked it alone.
LEMMA NextMoney ==
  ASSUME NoTransferOut, ChainInv, MoneyInv, [Next]_vars
  PROVE  MoneyInv'
<1>0. TypeOK /\ TypeOK' /\ LockExclusive /\ LockExclusive'
  BY NextChain, ChainExcludes, ChainExcludesNext DEF ChainInv
<1> USE LedgerAssumption, <1>0 DEF TypeOK, MoneyInv, NoOverdraft, UnlockedPcs, BasesCovered, Covered,
        Spending, Running, Locked, Kinds, Goto, GotoWith, SetBalance
<1>1. ASSUME NEW j \in Jobs, CallDebit(j) \/ CallLocked(j) \/ CallCredit(j) PROVE MoneyInv'
  BY <1>1 DEF CallDebit, CallLocked, CallCredit, Enqueue
<1>2. ASSUME NEW j \in Jobs, StartDebit(j) PROVE MoneyInv'
  BY <1>2 DEF StartDebit, MyTurn
<1>3. ASSUME NEW j \in Jobs, OfflineCreate(j) \/ DebitTx(j) \/ DebitFallback(j) PROVE MoneyInv'
  BY <1>3 DEF OfflineCreate, DebitTx, DebitFallback
<1>4. ASSUME NEW j \in Jobs, CreditTx(j) \/ CreditFallback(j) PROVE MoneyInv'
  BY <1>4 DEF CreditTx, CreditFallback
<1>5. ASSUME NEW j \in Jobs, FallbackSnapshot(j) \/ Persist(j) PROVE MoneyInv'
  BY <1>5 DEF FallbackSnapshot, Persist
<1>6. ASSUME NEW j \in Jobs, StartCredit(j) PROVE MoneyInv'
  BY <1>6 DEF StartCredit, MyTurn
<1>7. ASSUME NEW j \in Jobs, OfflineApply(j) \/ Apply(j) PROVE MoneyInv'
  <2>1. j \in Locked /\ Running(j)
    BY <1>7 DEF OfflineApply, Apply
  <2>2. \A i \in Jobs : Spending(i) => i = j
    BY <2>1, SpenderAlone
  <2>3. mem' >= 0
    BY <1>7 DEF OfflineApply, Apply
  <2>4. ASSUME NEW i \in Jobs, Spending(i)' PROVE mem' >= Amount[i]
    BY <1>7, <2>2, <2>4 DEF OfflineApply, Apply
  <2> QED
    BY <1>7, <2>3, <2>4 DEF OfflineApply, Apply
<1>8. ASSUME NEW j \in Jobs, Deposit(j) \/ TransferIn(j) PROVE MoneyInv'
  BY <1>8 DEF Deposit, TransferIn, MyTurn
<1>9. ASSUME NEW j \in Jobs, Withdraw(j) PROVE MoneyInv'
  <2>1. CASE Amount[j] > mem
    BY <1>9, <2>1 DEF Withdraw, MyTurn
  <2>2. CASE ~(Amount[j] > mem)
    <3>1. \A i \in Jobs : ~Spending(i)'
      BY <1>9, <2>2 DEF Withdraw, MyTurn, LockExclusive, InLock
    <3> QED
      BY <1>9, <2>2, <3>1 DEF Withdraw, MyTurn
  <2> QED
    BY <2>1, <2>2
<1>10. ASSUME NEW j \in Jobs, RecordWithdraw(j) PROVE MoneyInv'
  BY <1>10 DEF RecordWithdraw
<1>11. CASE Restart
  BY <1>11 DEF Restart, Settled
<1>12. CASE Disconnect \/ Reconnect \/ UNCHANGED vars
  BY <1>12 DEF Disconnect, Reconnect, vars, calls
<1>13. ASSUME NEW j \in Jobs PROVE ~TransferOut(j)
  BY <1>13 DEF TransferOut, NoTransferOut
<1> QED
  BY <1>1, <1>2, <1>3, <1>4, <1>5, <1>6, <1>7, <1>8, <1>9, <1>10, <1>11, <1>12, <1>13
     DEF Next, Call, Step

\* What an entry was shown covers it throughout.
LEMMA MoneyAlways == NoTransferOut /\ Spec => []MoneyInv
<1> SUFFICES ASSUME NoTransferOut PROVE Spec => []MoneyInv
  OBVIOUS
<1>1. Init => MoneyInv
  BY LedgerAssumption DEF Init, MoneyInv, NoOverdraft, UnlockedPcs, BasesCovered, Covered, Spending, Running
<1>2. ChainInv /\ MoneyInv /\ [Next]_vars => MoneyInv'
  BY NextMoney
<1> QED
  BY <1>1, <1>2, ChainAlways, PTL DEF Spec

\* When nothing is transferred out beside the lock, neither copy of the balance
\* goes below zero, with every fault and any number of concurrent entries.
THEOREM NeverOverdrawn == NoTransferOut /\ Spec => []NoOverdraft
<1>1. MoneyInv => NoOverdraft
  BY DEF MoneyInv
<1> QED
  BY <1>1, MoneyAlways, PTL

-----------------------------------------------------------------------------
(* Money is conserved in memory                                            *)
(*                                                                         *)
(* Only calls in the lock have a sum outstanding, and there is one such    *)
(* call; all that other calls do during its awaits moves the map and the   *)
(* history together.  The environment may abort any transaction, but a     *)
(* fallback that was begun ends: a trade written by a fallback that stops  *)
(* before it posts its sum is a sum nobody posts.                          *)

AbortsOnly == Faults \subseteq {"abort"}

Online == connected /\ \A j \in Jobs : pc[j] \notin {"offlineCreate", "offlineApply"}

BookInv == Online /\ UnlockedPcs /\ Conservation

MoveTo(j, label) ==
    /\ pc' = [pc EXCEPT ![j] = label]
    /\ connected' = connected
    /\ label \notin {"offlineCreate", "offlineApply"}
    /\ j \in Locked \/ label \in {"idle", "persist", "done", "rejected"}

Outstanding == {"offlineApply", "fallbackSnapshot", "apply"}

\* A step after which the same sums are outstanding, and which moves the map
\* and the history by the same n.
LEMMA QuietStep ==
  ASSUME TypeOK, TypeOK', BookInv, NEW j \in Jobs, NEW label, MoveTo(j, label),
         pc[j] \in Outstanding <=> label \in Outstanding,
         NEW n \in Int, mem' = mem + n, external' = external + n, book' = book
  PROVE  BookInv'
<1>1. Online' /\ UnlockedPcs'
  BY DEF TypeOK, BookInv, Online, UnlockedPcs, MoveTo
<1>2. \A i \in Jobs : Pending(i)' <=> Pending(i)
  BY DEF TypeOK, Pending, Outstanding, MoveTo
<1>3. Initial \in Int /\ \A i \in Jobs : Unposted(i) \in Int /\ Unposted(i)' = Unposted(i)
  BY LedgerAssumption DEF Unposted
<1>4. Conservation'
  BY <1>2, <1>3 DEF TypeOK, BookInv, Conservation
<1> QED
  BY <1>1, <1>4 DEF BookInv

\* The same with no money moved.
LEMMA StillStep ==
  ASSUME TypeOK, TypeOK', BookInv, NEW j \in Jobs, NEW label, MoveTo(j, label),
         pc[j] \in Outstanding <=> label \in Outstanding,
         UNCHANGED <<mem, external, book>>
  PROVE  BookInv'
<1>1. mem' = mem + 0 /\ external' = external + 0
  BY DEF TypeOK
<1> QED
  BY <1>1, QuietStep

\* The Trade write of the one call in the lock makes its sum outstanding.
LEMMA WriteStep ==
  ASSUME TypeOK, TypeOK', BookInv, NEW j \in Jobs, NEW label, MoveTo(j, label),
         label \in Outstanding, \A i \in Jobs : ~Pending(i),
         mem' = mem, external' = external, book' = book + Unposted(j)
  PROVE  BookInv'
<1>1. Online' /\ UnlockedPcs'
  BY DEF TypeOK, BookInv, Online, UnlockedPcs, MoveTo
<1>2. \A i \in Jobs : Pending(i)' <=> i = j
  BY DEF TypeOK, Pending, Outstanding, MoveTo
<1>3. Initial \in Int /\ \A i \in Jobs : Unposted(i) \in Int /\ Unposted(i)' = Unposted(i)
  BY LedgerAssumption DEF Unposted
<1>4. Conservation'
  BY <1>2, <1>3 DEF TypeOK, BookInv, Conservation
<1> QED
  BY <1>1, <1>4 DEF BookInv

\* Posting it leaves none.
LEMMA PostStep ==
  ASSUME TypeOK, TypeOK', BookInv, NEW j \in Jobs, NEW label, MoveTo(j, label),
         label \notin Outstanding, Pending(j), \A i \in Jobs : Pending(i) => i = j,
         mem' = mem + Unposted(j), external' = external, book' = book
  PROVE  BookInv'
<1>0. mem + Unposted(j) = Initial + external + book
  BY DEF BookInv, Conservation
<1>1. Online' /\ UnlockedPcs'
  BY DEF TypeOK, BookInv, Online, UnlockedPcs, MoveTo
<1>2. \A i \in Jobs : ~Pending(i)'
  BY DEF TypeOK, Pending, Outstanding, MoveTo
<1>3. Initial \in Int /\ \A i \in Jobs : Unposted(i) \in Int /\ Unposted(i)' = Unposted(i)
  BY LedgerAssumption DEF Unposted
<1>4. Conservation'
  BY <1>0, <1>2 DEF Conservation
<1> QED
  BY <1>1, <1>4 DEF BookInv

\* Every step moves wallet and history together, up to the write in flight.
LEMMA NextBook ==
  ASSUME AbortsOnly, ChainInv, BookInv, [Next]_vars
  PROVE  BookInv'
<1>0. TypeOK /\ TypeOK' /\ LockExclusive
  BY NextChain, ChainExcludes DEF ChainInv
<1>a. /\ connected = TRUE
      /\ "disconnect" \notin Faults /\ "crash" \notin Faults /\ "unknown" \notin Faults
      /\ ~WriteMayFail
  BY <1>0 DEF AbortsOnly, WriteMayFail, BookInv, Online, TypeOK
<1>b. \A i, j \in Jobs : Pending(i) /\ Running(j) /\ j \in Locked => i = j
  BY <1>0 DEF Pending, BookInv, UnlockedPcs, LockExclusive, InLock, Running
<1>c. mem \in Int /\ external \in Int /\ book \in Int /\ \A j \in Jobs : Amount[j] \in Int
  BY <1>0, LedgerAssumption DEF TypeOK
<1> USE <1>a DEF Goto, GotoWith, SetBalance
<1>1. ASSUME NEW j \in Jobs, CallDebit(j) \/ CallLocked(j) \/ CallCredit(j) PROVE BookInv'
  <2>1. PICK label \in {"waiting", "rejected"} : MoveTo(j, label)
    BY <1>1 DEF CallDebit, CallLocked, CallCredit, Enqueue, Locked, MoveTo, Outstanding
  <2>2. pc[j] \notin Outstanding /\ UNCHANGED <<mem, external, book>>
    BY <1>1 DEF CallDebit, CallLocked, CallCredit, Outstanding
  <2> QED
    BY <1>0, <2>1, <2>2, StillStep DEF Outstanding
<1>2. ASSUME NEW j \in Jobs, StartDebit(j) \/ StartCredit(j) PROVE BookInv'
  <2>1. PICK label \in {"tx", "rejected"} : MoveTo(j, label)
    BY <1>2 DEF StartDebit, StartCredit, Locked, MoveTo, Outstanding
  <2>2. pc[j] \notin Outstanding /\ UNCHANGED <<mem, external, book>>
    BY <1>2 DEF StartDebit, StartCredit, MyTurn, Outstanding
  <2> QED
    BY <1>0, <2>1, <2>2, StillStep DEF Outstanding
<1>3. ASSUME NEW j \in Jobs, DebitTx(j) \/ DebitFallback(j) \/ CreditTx(j) \/ CreditFallback(j)
      PROVE  BookInv'
  <2>1. /\ j \in Locked /\ Running(j) /\ ~Pending(j)
        /\ UNCHANGED <<mem, connected, external>>
    BY <1>3 DEF DebitTx, DebitFallback, CreditTx, CreditFallback, Locked, Running, Pending
  <2>2. \A i \in Jobs : ~Pending(i)
    BY <2>1, <1>b
  <2>3. CASE /\ Goto(j, "apply") \/ Goto(j, "fallbackSnapshot")
             /\ book' = book + Unposted(j)
    <3>1. PICK label \in {"apply", "fallbackSnapshot"} : MoveTo(j, label)
      BY <2>1, <2>3 DEF MoveTo, Outstanding
    <3> QED
      BY <1>0, <2>1, <2>2, <2>3, <3>1, WriteStep DEF Outstanding
  <2>4. CASE (Goto(j, "fallback") \/ Goto(j, "done")) /\ UNCHANGED book
    <3>1. PICK label \in {"fallback", "done"} : MoveTo(j, label)
      BY <2>1, <2>4 DEF MoveTo, Outstanding
    <3> QED
      BY <1>0, <2>1, <2>4, <3>1, StillStep DEF Pending, Outstanding
  <2>5. CASE DebitTx(j) \/ DebitFallback(j)
    <3>1. Unposted(j) = - Amount[j]
      BY <2>5 DEF DebitTx, DebitFallback, Unposted
    <3>2. ASSUME NEW d \in Docs, CreateTrade(j, d) PROVE book' = book + Unposted(j)
      BY <3>1, <3>2, <1>c DEF CreateTrade
    <3> QED
      BY <2>3, <2>4, <2>5, <3>2 DEF DebitTx, DebitFallback
  <2>6. CASE CreditTx(j) \/ CreditFallback(j)
    <3>1. Unposted(j) = Amount[j]
      BY <2>6 DEF CreditTx, CreditFallback, Unposted
    <3>2. ClaimTrade(j) => book' = book + Unposted(j)
      BY <3>1 DEF ClaimTrade
    <3> QED
      BY <2>3, <2>4, <2>6, <3>2 DEF CreditTx, CreditFallback
  <2> QED
    BY <1>3, <2>5, <2>6
<1>4. ASSUME NEW j \in Jobs, FallbackSnapshot(j) PROVE BookInv'
  <2>1. MoveTo(j, "apply") /\ pc[j] \in Outstanding /\ UNCHANGED <<mem, external, book>>
    BY <1>4, <1>0 DEF FallbackSnapshot, BookInv, UnlockedPcs, MoveTo, Outstanding
  <2> QED
    BY <1>0, <2>1, StillStep DEF Outstanding
<1>5. ASSUME NEW j \in Jobs, Persist(j) PROVE BookInv'
  <2>1. PICK label \in {"rejected", "record", "done"} : MoveTo(j, label)
    BY <1>5 DEF Persist, Locked, MoveTo, Outstanding
  <2>2. pc[j] \notin Outstanding /\ UNCHANGED <<mem, external, book>>
    BY <1>5 DEF Persist, Outstanding
  <2> QED
    BY <1>0, <2>1, <2>2, StillStep DEF Outstanding
<1>6. ASSUME NEW j \in Jobs, Apply(j) PROVE BookInv'
  <2>1. j \in Locked /\ Running(j) /\ Pending(j)
    BY <1>6 DEF Apply, Running, Pending, BookInv, UnlockedPcs
  <2>2. \A i \in Jobs : Pending(i) => i = j
    BY <2>1, <1>b
  <2>3. mem' = mem + Unposted(j)
    BY <1>6, <1>c DEF Apply, Unposted
  <2>4. PICK label \in {"done", "persist"} : MoveTo(j, label)
    BY <1>6 DEF Apply, MoveTo, Outstanding
  <2>5. UNCHANGED <<external, book>>
    BY <1>6 DEF Apply
  <2> QED
    BY <1>0, <2>1, <2>2, <2>3, <2>4, <2>5, PostStep DEF Outstanding
<1>7. ASSUME NEW j \in Jobs, Deposit(j) \/ Withdraw(j) \/ TransferIn(j) \/ TransferOut(j)
      PROVE  BookInv'
  <2>1. PICK label \in {"persist", "done", "rejected"} : MoveTo(j, label)
    BY <1>7 DEF Deposit, Withdraw, TransferIn, TransferOut, MoveTo
  <2>2. pc[j] \notin Outstanding
    BY <1>7 DEF Deposit, Withdraw, TransferIn, TransferOut, MyTurn, Outstanding
  <2>3. \/ mem' = mem + Amount[j] /\ external' = external + Amount[j]
        \/ mem' = mem - Amount[j] /\ external' = external - Amount[j]
        \/ mem' = mem /\ external' = external
    BY <1>7 DEF Deposit, Withdraw, TransferIn, TransferOut
  <2>4. PICK n \in Int : mem' = mem + n /\ external' = external + n
    <3>1. UNCHANGED <<mem, external>> => mem' = mem + 0 /\ external' = external + 0
      BY <1>c
    <3>2. mem - Amount[j] = mem + (- Amount[j]) /\ external - Amount[j] = external + (- Amount[j])
      BY <1>c
    <3>3. Amount[j] \in Int /\ - Amount[j] \in Int
      BY <1>c
    <3> QED
      BY <2>3, <3>1, <3>2, <3>3
  <2>5. book' = book
    BY <1>7 DEF Deposit, Withdraw, TransferIn, TransferOut
  <2> QED
    BY <1>0, <2>1, <2>2, <2>4, <2>5, QuietStep DEF Outstanding
<1>8. ASSUME NEW j \in Jobs, RecordWithdraw(j) PROVE BookInv'
  <2>1. MoveTo(j, "done") /\ pc[j] \notin Outstanding /\ UNCHANGED <<mem, external, book>>
    BY <1>8 DEF RecordWithdraw, MoveTo, Outstanding
  <2> QED
    BY <1>0, <2>1, StillStep DEF Outstanding
<1>9. CASE UNCHANGED vars
  BY <1>9 DEF vars, calls, BookInv, Online, UnlockedPcs, Conservation, Pending, Unposted
<1>10. ~Restart /\ ~Disconnect /\ ~Reconnect /\ \A j \in Jobs : ~OfflineCreate(j) /\ ~OfflineApply(j)
  BY DEF Restart, Disconnect, Reconnect, OfflineCreate, OfflineApply, BookInv, Online
<1> QED
  BY <1>1, <1>2, <1>3, <1>4, <1>5, <1>6, <1>7, <1>8, <1>9, <1>10 DEF Next, Call, Step

\* Map, history and the sum in flight agree throughout.
LEMMA BookAlways == AbortsOnly /\ Spec => []BookInv
<1> SUFFICES ASSUME AbortsOnly PROVE Spec => []BookInv
  OBVIOUS
<1>1. Init => BookInv
  BY LedgerAssumption DEF Init, BookInv, Online, UnlockedPcs, Conservation, Pending
<1>2. ChainInv /\ BookInv /\ [Next]_vars => BookInv'
  BY NextBook
<1> QED
  BY <1>1, <1>2, ChainAlways, PTL DEF Spec

\* No money appears or is lost in memory, whatever runs during whose awaits.
THEOREM MoneyConserved == AbortsOnly /\ Spec => []Conservation
<1>1. BookInv => Conservation
  BY DEF BookInv
<1> QED
  BY <1>1, BookAlways, PTL

-----------------------------------------------------------------------------
(* The disk is consistent at every moment                                  *)
(*                                                                         *)
(* On a replica set, for a wallet only trades move: what a crash leaves    *)
(* behind, at whatever step it hits, is a snapshot that agrees with the    *)
(* Trade collection.  The map is either the snapshot, or one commit behind *)
(* it while the call in the lock has still to post.                        *)

CrashesOnly == Faults \subseteq {"crash"}
TradesOnly == \A j \in Jobs : Kind[j] \in {"debit", "credit"}

TradePcs == \A j \in Jobs : pc[j] \in {"idle", "waiting", "tx", "apply", "done", "rejected"}
TxBase == \A j \in Jobs : pc[j] = "tx" => base[j] = mem + Unposted(j)
ApplyBase == \A j \in Jobs : pc[j] = "apply" => base[j] = mem + Unposted(j) /\ base[j] = snap
InStep == (\A j \in Jobs : pc[j] # "apply") => mem = snap

DiskInv == /\ connected = TRUE /\ external = 0
           /\ TradePcs /\ TxBase /\ ApplyBase /\ InStep /\ Durable

\* Every step keeps the snapshot and the Trade collection in agreement.
LEMMA NextDisk ==
  ASSUME CrashesOnly, TradesOnly, ChainInv, DiskInv, [Next]_vars
  PROVE  DiskInv'
<1>0. TypeOK /\ TypeOK' /\ LockExclusive /\ LockExclusive'
  BY NextChain, ChainExcludes, ChainExcludesNext DEF ChainInv
<1>a. "disconnect" \notin Faults /\ "abort" \notin Faults /\ "unknown" \notin Faults /\ ~MayAbort
  BY DEF CrashesOnly, MayAbort, DiskInv
<1>b. \A i, j \in Jobs : Running(i) /\ Running(j) => i = j
  BY <1>0, LedgerAssumption DEF TradesOnly, LockExclusive, InLock, Locked
<1>c. \A j \in Jobs : Amount[j] \in Int /\ Unposted(j) \in Int /\ Unposted(j)' = Unposted(j)
  BY LedgerAssumption DEF Unposted
<1>d. mem \in Int /\ snap \in Int /\ book \in Int /\ Initial \in Int
  BY <1>0, LedgerAssumption DEF TypeOK
<1> USE <1>a DEF Goto, GotoWith, SetBalance
<1>1. ASSUME NEW j \in Jobs, CallDebit(j) \/ CallCredit(j) PROVE DiskInv'
  <2>1. UNCHANGED <<mem, snap, connected, external, book, base>>
    BY <1>0, <1>1 DEF CallDebit, CallCredit, Enqueue, TypeOK
  <2>2. PICK label \in {"waiting", "rejected"} : pc' = [pc EXCEPT ![j] = label]
    BY <1>1 DEF CallDebit, CallCredit, Enqueue
  <2>3. pc[j] = "idle"
    BY <1>1 DEF CallDebit, CallCredit
  <2> QED
    BY <1>0, <1>c, <2>1, <2>2, <2>3 DEF TypeOK, DiskInv, TradePcs, TxBase, ApplyBase, InStep, Durable
<1>2. ASSUME NEW j \in Jobs, StartDebit(j) \/ StartCredit(j) PROVE DiskInv'
  <2>1. UNCHANGED <<mem, snap, connected, external, book>> /\ pc[j] = "waiting"
    BY <1>2 DEF StartDebit, StartCredit, MyTurn
  <2>2. PICK label \in {"tx", "rejected"} : pc' = [pc EXCEPT ![j] = label]
    BY <1>2 DEF StartDebit, StartCredit, DiskInv
  <2>3. base' = [base EXCEPT ![j] = mem + Unposted(j)]
    BY <1>2, <1>c, <1>d DEF StartDebit, StartCredit, Unposted
  <2> QED
    BY <1>0, <1>c, <2>1, <2>2, <2>3 DEF TypeOK, DiskInv, TradePcs, TxBase, ApplyBase, InStep, Durable
<1>3. ASSUME NEW j \in Jobs, DebitTx(j) \/ CreditTx(j) PROVE DiskInv'
  <2>1. pc[j] = "tx" /\ Running(j) /\ UNCHANGED <<mem, connected, external, base>>
    BY <1>0, <1>3 DEF DebitTx, CreditTx, Running, TypeOK
  <2>2. \A i \in Jobs : pc[i] \in {"tx", "apply"} => i = j
    BY <2>1, <1>b DEF Running
  <2>3. base[j] = mem + Unposted(j) /\ mem = snap /\ snap = Initial + book
    BY <2>1, <2>2 DEF DiskInv, TxBase, InStep, Durable
  <2>4. \/ /\ pc' = [pc EXCEPT ![j] = "apply"]
           /\ snap' = base[j] /\ book' = book + Unposted(j)
        \/ /\ pc' = [pc EXCEPT ![j] = "done"]
           /\ UNCHANGED <<snap, book>>
    BY <1>3, <1>c, <1>d DEF DebitTx, CreditTx, CreateTrade, ClaimTrade, Unposted
  <2>5. TradePcs' /\ connected' = TRUE /\ external' = 0
    BY <1>0, <2>1, <2>4 DEF TypeOK, DiskInv, TradePcs
  <2>6. Durable'
    BY <1>c, <1>d, <2>3, <2>4 DEF Durable
  <2>7. TxBase'
    BY <1>0, <2>2, <2>4 DEF TypeOK, TxBase
  <2>8. ApplyBase' /\ InStep'
    BY <1>0, <1>c, <2>1, <2>2, <2>3, <2>4 DEF TypeOK, ApplyBase, InStep
  <2> QED
    BY <2>5, <2>6, <2>7, <2>8 DEF DiskInv
<1>4. ASSUME NEW j \in Jobs, Apply(j) PROVE DiskInv'
  <2>1. pc[j] = "apply" /\ Running(j) /\ UNCHANGED <<snap, connected, external, book>>
    BY <1>4 DEF Apply, Running
  <2>2. \A i \in Jobs : pc[i] \in {"tx", "apply"} => i = j
    BY <2>1, <1>b DEF Running
  <2>3. base[j] = mem + Unposted(j) /\ base[j] = snap
    BY <2>1 DEF DiskInv, ApplyBase
  <2>4. mem' = snap /\ pc' = [pc EXCEPT ![j] = "done"]
    BY <1>4, <1>c, <1>d, <2>3 DEF Apply, Unposted
  <2> QED
    BY <1>0, <2>1, <2>2, <2>4 DEF TypeOK, DiskInv, TradePcs, TxBase, ApplyBase, InStep, Durable
<1>5. CASE Restart
  BY <1>0, <1>5 DEF Restart, Settled, TypeOK, DiskInv, TradePcs, TxBase, ApplyBase, InStep, Durable
<1>6. CASE UNCHANGED vars
  BY <1>6, <1>c DEF vars, calls, DiskInv, TradePcs, TxBase, ApplyBase, InStep, Durable, Unposted
<1>7. /\ ~Disconnect /\ ~Reconnect
      /\ \A j \in Jobs : /\ ~CallLocked(j) /\ ~TransferIn(j) /\ ~TransferOut(j)
                        /\ ~Deposit(j) /\ ~Withdraw(j)
                        /\ ~RecordWithdraw(j) /\ ~Persist(j) /\ ~FallbackSnapshot(j)
                        /\ ~OfflineCreate(j) /\ ~OfflineApply(j)
                        /\ ~DebitFallback(j) /\ ~CreditFallback(j)
  BY DEF Disconnect, Reconnect, CallLocked, TransferIn, TransferOut, Deposit, Withdraw, RecordWithdraw,
     Persist, FallbackSnapshot, OfflineCreate, OfflineApply, DebitFallback, CreditFallback,
     TradesOnly, DiskInv, TradePcs
<1> QED
  BY <1>1, <1>2, <1>3, <1>4, <1>5, <1>6, <1>7 DEF Next, Call, Step

\* Snapshot, collection, map and the call in its transaction agree throughout.
LEMMA DiskAlways == CrashesOnly /\ TradesOnly /\ Spec => []DiskInv
<1> SUFFICES ASSUME CrashesOnly, TradesOnly PROVE Spec => []DiskInv
  OBVIOUS
<1>1. Init => DiskInv
  BY LedgerAssumption DEF Init, DiskInv, TradePcs, TxBase, ApplyBase, InStep, Durable
<1>2. ChainInv /\ DiskInv /\ [Next]_vars => DiskInv'
  BY NextDisk
<1> QED
  BY <1>1, <1>2, ChainAlways, PTL DEF Spec

\* Whenever the process stops, the snapshot agrees with the Trade collection.
THEOREM DiskConsistent == CrashesOnly /\ TradesOnly /\ Spec => []Durable
<1>1. DiskInv => Durable
  BY DEF DiskInv
<1> QED
  BY <1>1, DiskAlways, PTL

-----------------------------------------------------------------------------
(* The disk catches up                                                     *)
(*                                                                         *)
(* With calls of the lock only, map and snapshot part during one body at a *)
(* time, and what it still has to write brings them together again.  A     *)
(* transaction may abort into the fallback and the process may stop; a     *)
(* commit that is reported failed, a rejected write and a lost connection  *)
(* would each leave the map behind or ahead.                               *)

LockedOnly == \A j \in Jobs : j \in Locked
KnownCommits == Faults \subseteq {"abort", "crash"}

OnlinePcs == \A j \in Jobs : pc[j] \notin {"offlineCreate", "offlineApply", "persistRefund"}
Unwritten == \A j \in Jobs : pc[j] \in {"tx", "fallback", "fallbackSnapshot"} =>
                base[j] = mem + Unposted(j) /\ mem = snap
Unapplied == \A j \in Jobs : pc[j] = "apply" => base[j] = mem + Unposted(j) /\ base[j] = snap
Unsaved == \A j \in Jobs : /\ pc[j] = "persist" => base[j] = mem
                           /\ pc[j] = "record" => mem = snap
LevelAtRest == (\A j \in Jobs : ~Running(j)) => mem = snap

CatchUpInv == connected = TRUE /\ OnlinePcs /\ Unwritten /\ Unapplied /\ Unsaved /\ LevelAtRest

\* A step of one body keeps the others where they are.
LEMMA NextCatchUp ==
  ASSUME KnownCommits, LockedOnly, ChainInv, CatchUpInv, [Next]_vars
  PROVE  CatchUpInv'
<1>0. TypeOK /\ TypeOK' /\ LockExclusive /\ LockExclusive'
  BY NextChain, ChainExcludes, ChainExcludesNext DEF ChainInv
<1>a. "disconnect" \notin Faults /\ "unknown" \notin Faults /\ ~WriteMayFail
  BY DEF KnownCommits, WriteMayFail, CatchUpInv
<1>b. \A i, j \in Jobs : /\ Running(i) /\ Running(j) => i = j
                         /\ Running(i)' /\ Running(j)' => i = j
  BY <1>0, LedgerAssumption DEF LockedOnly, LockExclusive, InLock, Locked
<1>c. \A j \in Jobs : Amount[j] \in Int /\ Unposted(j) \in Int /\ Unposted(j)' = Unposted(j)
  BY LedgerAssumption DEF Unposted
<1>d. mem \in Int /\ snap \in Int
  BY <1>0 DEF TypeOK
<1> USE <1>a DEF Goto, GotoWith, SetBalance, Running
<1>1. ASSUME NEW j \in Jobs, CallDebit(j) \/ CallCredit(j) \/ CallLocked(j) PROVE CatchUpInv'
  <2>1. UNCHANGED <<mem, snap, connected, base>>
    BY <1>0, <1>1 DEF CallDebit, CallCredit, CallLocked, Enqueue, TypeOK
  <2>2. PICK label \in {"waiting", "rejected"} : pc' = [pc EXCEPT ![j] = label]
    BY <1>1 DEF CallDebit, CallCredit, CallLocked, Enqueue
  <2>3. pc[j] = "idle"
    BY <1>1 DEF CallDebit, CallCredit, CallLocked
  <2> QED
    BY <1>0, <1>c, <2>1, <2>2, <2>3
       DEF TypeOK, CatchUpInv, OnlinePcs, Unwritten, Unapplied, Unsaved, LevelAtRest
<1>2. ASSUME NEW j \in Jobs, StartDebit(j) \/ StartCredit(j) PROVE CatchUpInv'
  <2>1. UNCHANGED <<mem, snap, connected>> /\ pc[j] = "waiting"
    BY <1>2 DEF StartDebit, StartCredit, MyTurn
  <2>2. PICK label \in {"tx", "rejected"} : pc' = [pc EXCEPT ![j] = label]
    BY <1>2 DEF StartDebit, StartCredit, CatchUpInv
  <2>3. base' = [base EXCEPT ![j] = mem + Unposted(j)]
    BY <1>2, <1>c, <1>d DEF StartDebit, StartCredit, Unposted
  <2>4. label = "tx" => \A i \in Jobs : ~Running(i)
    BY <1>0, <1>b, <2>1, <2>2 DEF TypeOK
  <2> QED
    BY <1>0, <1>c, <2>1, <2>2, <2>3, <2>4
       DEF TypeOK, CatchUpInv, OnlinePcs, Unwritten, Unapplied, Unsaved, LevelAtRest
<1>3. ASSUME NEW j \in Jobs,
             DebitTx(j) \/ CreditTx(j) \/ DebitFallback(j) \/ CreditFallback(j)
      PROVE CatchUpInv'
  <2>1. /\ pc[j] \in {"tx", "fallback"} /\ UNCHANGED <<mem, connected, base>>
    BY <1>0, <1>3 DEF DebitTx, CreditTx, DebitFallback, CreditFallback, TypeOK
  <2>2. base[j] = mem + Unposted(j) /\ mem = snap
    BY <2>1 DEF CatchUpInv, Unwritten
  <2>3. \A i \in Jobs : Running(i) => i = j
    BY <2>1, <1>b
  <2>4. \/ pc' = [pc EXCEPT ![j] = "apply"] /\ snap' = base[j]
        \/ \E label \in {"fallback", "fallbackSnapshot", "done"} :
              pc' = [pc EXCEPT ![j] = label] /\ snap' = snap
    BY <1>3 DEF DebitTx, CreditTx, DebitFallback, CreditFallback
  <2> QED
    BY <1>0, <1>c, <2>1, <2>2, <2>3, <2>4
       DEF TypeOK, CatchUpInv, OnlinePcs, Unwritten, Unapplied, Unsaved, LevelAtRest
<1>4. ASSUME NEW j \in Jobs, FallbackSnapshot(j) PROVE CatchUpInv'
  <2>1. /\ pc[j] = "fallbackSnapshot" /\ UNCHANGED <<mem, connected, base>>
        /\ pc' = [pc EXCEPT ![j] = "apply"] /\ snap' = base[j]
    BY <1>0, <1>4 DEF FallbackSnapshot, TypeOK
  <2>2. \A i \in Jobs : Running(i) => i = j
    BY <2>1, <1>b
  <2> QED
    BY <1>0, <1>c, <2>1, <2>2
       DEF TypeOK, CatchUpInv, OnlinePcs, Unwritten, Unapplied, Unsaved, LevelAtRest
<1>5. ASSUME NEW j \in Jobs, Apply(j) PROVE CatchUpInv'
  <2>1. pc[j] = "apply" /\ UNCHANGED <<snap, connected>>
    BY <1>5 DEF Apply
  <2>2. base[j] = mem + Unposted(j) /\ base[j] = snap
    BY <2>1 DEF CatchUpInv, Unapplied
  <2>3. mem' = snap /\ pc' = [pc EXCEPT ![j] = "done"]
    BY <1>5, <1>c, <1>d, <2>2 DEF Apply, Unposted
  <2>4. \A i \in Jobs : Running(i) => i = j
    BY <2>1, <1>b
  <2> QED
    BY <1>0, <2>1, <2>3, <2>4
       DEF TypeOK, CatchUpInv, OnlinePcs, Unwritten, Unapplied, Unsaved, LevelAtRest
<1>6. ASSUME NEW j \in Jobs, Deposit(j) \/ Withdraw(j) PROVE CatchUpInv'
  <2>1. UNCHANGED <<snap, connected>> /\ pc[j] = "waiting"
    BY <1>6 DEF Deposit, Withdraw, MyTurn
  <2>2. \/ pc' = [pc EXCEPT ![j] = "persist"] /\ base' = [base EXCEPT ![j] = mem']
        \/ pc' = [pc EXCEPT ![j] = "done"] /\ UNCHANGED <<mem, base>>
    BY <1>0, <1>6 DEF Deposit, Withdraw, CatchUpInv, TypeOK
  <2>3. pc'[j] = "persist" => \A i \in Jobs : ~Running(i)
    BY <1>0, <1>b, <2>1, <2>2 DEF TypeOK
  <2> QED
    BY <1>0, <1>c, <2>1, <2>2, <2>3
       DEF TypeOK, CatchUpInv, OnlinePcs, Unwritten, Unapplied, Unsaved, LevelAtRest
<1>7. ASSUME NEW j \in Jobs, RecordWithdraw(j) \/ Persist(j) PROVE CatchUpInv'
  <2>1. /\ pc[j] \in {"record", "persist"} /\ UNCHANGED <<mem, connected, base>>
        /\ snap' = mem
    BY <1>0, <1>7 DEF RecordWithdraw, Persist, TypeOK, CatchUpInv, OnlinePcs, Unsaved
  <2>2. PICK label \in {"record", "done"} : pc' = [pc EXCEPT ![j] = label]
    BY <1>7, <2>1 DEF RecordWithdraw, Persist, CatchUpInv, OnlinePcs
  <2>3. \A i \in Jobs : Running(i) => i = j
    BY <2>1, <1>b
  <2> QED
    BY <1>0, <2>1, <2>2, <2>3
       DEF TypeOK, CatchUpInv, OnlinePcs, Unwritten, Unapplied, Unsaved, LevelAtRest
<1>8. CASE Restart
  BY <1>0, <1>8
     DEF Restart, Settled, TypeOK, CatchUpInv, OnlinePcs, Unwritten, Unapplied, Unsaved, LevelAtRest
<1>9. CASE UNCHANGED vars
  BY <1>9, <1>c
     DEF vars, calls, CatchUpInv, OnlinePcs, Unwritten, Unapplied, Unsaved, LevelAtRest
<1>10. /\ ~Disconnect /\ ~Reconnect
       /\ \A j \in Jobs : /\ ~TransferIn(j) /\ ~TransferOut(j)
                          /\ ~OfflineCreate(j) /\ ~OfflineApply(j)
  BY DEF Disconnect, Reconnect, TransferIn, TransferOut, OfflineCreate, OfflineApply,
     LockedOnly, Locked, CatchUpInv, OnlinePcs
<1> QED
  BY <1>1, <1>2, <1>3, <1>4, <1>5, <1>6, <1>7, <1>8, <1>9, <1>10 DEF Next, Call, Step

\* Once every call has settled or stopped, the process and a restart of it would
\* have the same balance, whether calls committed, fell back or were cut off.
THEOREM RestartFindsBalance == KnownCommits /\ LockedOnly /\ Spec => []SnapshotCaughtUp
<1> SUFFICES ASSUME KnownCommits, LockedOnly PROVE Spec => []SnapshotCaughtUp
  OBVIOUS
<1>1. Init => CatchUpInv
  BY DEF Init, CatchUpInv, OnlinePcs, Unwritten, Unapplied, Unsaved, LevelAtRest, Running
<1>2. ChainInv /\ CatchUpInv /\ [Next]_vars => CatchUpInv'
  BY NextCatchUp
<1>3. ChainInv /\ CatchUpInv => SnapshotCaughtUp
  BY DEF CatchUpInv, LevelAtRest, SnapshotCaughtUp, Settled, Running
<1> QED
  BY <1>1, <1>2, <1>3, ChainAlways, PTL DEF Spec

-----------------------------------------------------------------------------
(* A closed trade stays as it was closed, with every fault: whichever of   *)
(* the transaction and the fallback makes the claim, it finds the trade    *)
(* OPEN or changes nothing.                                                *)

\* No step of any path opens a closed trade again.
LEMMA ClosedStep ==
  ASSUME TypeOK, [Next]_vars, NEW d \in Docs, status[d] = "CLOSED"
  PROVE  status'[d] = "CLOSED" /\ refund'[d] = refund[d]
<1> USE DEF TypeOK
<1>1. ASSUME NEW j \in Jobs, NEW e \in Docs, CreateTrade(j, e)
      PROVE  status'[d] = "CLOSED" /\ refund'[d] = refund[d]
  BY <1>1 DEF CreateTrade
<1>2. ASSUME NEW j \in Jobs, ClaimTrade(j)
      PROVE  status'[d] = "CLOSED" /\ refund'[d] = refund[d]
  BY <1>2 DEF ClaimTrade
<1>3. ASSUME UNCHANGED trades
      PROVE  status'[d] = "CLOSED" /\ refund'[d] = refund[d]
  BY <1>3 DEF trades
<1>4. ASSUME NEW j \in Jobs, OfflineCreate(j) \/ DebitTx(j) \/ DebitFallback(j)
      PROVE  UNCHANGED trades \/ \E e \in Docs : CreateTrade(j, e)
  BY <1>4 DEF OfflineCreate, DebitTx, DebitFallback
<1>5. ASSUME NEW j \in Jobs, CreditTx(j) \/ CreditFallback(j)
      PROVE  UNCHANGED trades \/ ClaimTrade(j)
  BY <1>5 DEF CreditTx, CreditFallback
<1>6. ASSUME NEW j \in Jobs,
             \/ CallDebit(j) \/ CallCredit(j) \/ CallLocked(j) \/ TransferIn(j) \/ TransferOut(j)
             \/ StartDebit(j) \/ OfflineApply(j) \/ StartCredit(j) \/ FallbackSnapshot(j) \/ Apply(j)
             \/ Deposit(j) \/ Withdraw(j) \/ RecordWithdraw(j) \/ Persist(j)
      PROVE  UNCHANGED trades
  BY <1>6 DEF CallDebit, CallCredit, CallLocked, TransferIn, TransferOut, StartDebit, OfflineApply,
     StartCredit, FallbackSnapshot, Apply, Deposit, Withdraw, RecordWithdraw, Persist
<1>7. CASE Disconnect \/ Reconnect \/ Restart \/ UNCHANGED vars
  BY <1>3, <1>7 DEF Disconnect, Reconnect, Restart, vars
<1> QED
  BY <1>1, <1>2, <1>3, <1>4, <1>5, <1>6, <1>7 DEF Next, Call, Step

\* The OPEN -> CLOSED claim is won once, for any number of closers.
THEOREM ClosedForGood == Spec => ClosedIsFinal
<1>1. TypeOK /\ [Next]_vars =>
        [\A d \in Docs : status[d] = "CLOSED" => status'[d] = "CLOSED" /\ refund'[d] = refund[d]]_vars
  BY ClosedStep
<1> QED
  BY <1>1, TypeCorrect, PTL DEF Spec, ClosedIsFinal

=============================================================================
