-------------------- MODULE PaperLedgerRefinementProofs --------------------
(***************************************************************************)
(* PaperLedger implements WalletContract, in memory and on disk: every     *)
(* step maps to a step of the contract or to none, for any set of calls,   *)
(* amounts and documents.                                                  *)
(***************************************************************************)
EXTENDS PaperLedgerRefinement, PaperLedgerProofs

-----------------------------------------------------------------------------
(* What a closer closes                                                    *)

\* A closer that has its place in the chain has a trade to close.
HoldsTrade ==
    \A j \in Jobs : Kind[j] = "credit" /\ pc[j] \notin {"idle", "rejected"} => doc[j] \in Docs

\* The trade is chosen when the call is made and never changed.
LEMMA NextHolds == TypeOK /\ HoldsTrade /\ [Next]_vars => HoldsTrade'
<1> SUFFICES ASSUME TypeOK, HoldsTrade, [Next]_vars PROVE HoldsTrade'
  OBVIOUS
<1> USE DEF TypeOK, HoldsTrade
<1>1. ASSUME NEW j \in Jobs, CallDebit(j) \/ CallLocked(j) PROVE HoldsTrade'
  BY <1>1 DEF CallDebit, CallLocked, Enqueue
<1>2. ASSUME NEW j \in Jobs, CallCredit(j) PROVE HoldsTrade'
  BY <1>2 DEF CallCredit, Enqueue, Goto, GotoWith
<1>3. ASSUME NEW j \in Jobs, TransferIn(j) \/ TransferOut(j) PROVE HoldsTrade'
  BY <1>3 DEF TransferIn, TransferOut, SetBalance, Goto, GotoWith
<1>4. ASSUME NEW j \in Jobs, Step(j) PROVE HoldsTrade'
  <2>1. pc[j] \notin {"idle", "rejected"}
    BY <1>4 DEF Step, StartDebit, OfflineCreate, OfflineApply, DebitTx, DebitFallback,
       StartCredit, CreditTx, CreditFallback, FallbackSnapshot, Apply, Deposit, Withdraw,
       RecordWithdraw, Persist, MyTurn
  <2>2. doc' = doc /\ \A i \in Jobs \ {j} : pc'[i] = pc[i]
    BY <1>4 DEF Step, StartDebit, OfflineCreate, OfflineApply, DebitTx, DebitFallback,
       StartCredit, CreditTx, CreditFallback, FallbackSnapshot, Apply, Deposit, Withdraw,
       RecordWithdraw, Persist, SetBalance, Goto, GotoWith
  <2> QED
    BY <2>1, <2>2
<1>5. CASE Disconnect \/ Reconnect \/ UNCHANGED vars
  BY <1>5 DEF Disconnect, Reconnect, vars, calls
<1>6. CASE Restart
  BY <1>6 DEF Restart, Settled
<1> QED
  BY <1>1, <1>2, <1>3, <1>4, <1>5, <1>6 DEF Next, Call

\* Closers hold a trade throughout.
LEMMA HoldsAlways == Spec => []HoldsTrade
<1>1. Init => HoldsTrade
  BY DEF Init, HoldsTrade
<1> QED
  BY <1>1, NextHolds, TypeCorrect, PTL DEF Spec

-----------------------------------------------------------------------------
(* On disk                                                                 *)
(*                                                                         *)
(* For a wallet that only trades move, the snapshot changes in one kind of *)
(* step, the commit that writes the trade, so that this is where a call    *)
(* takes effect; everything else, a crash included, is no step.            *)

\* A wallet that only trades move has no transfer out.
LEMMA TradesMoveNothingOut == TradesOnly => NoTransferOut
BY DEF TradesOnly, NoTransferOut

\* A commit opens or closes a trade of the contract; no other step is one.
LEMMA DiskStep ==
  ASSUME CrashesOnly, TradesOnly, ChainInv, MoneyInv, DiskInv, HoldsTrade, [Next]_vars
  PROVE  [OnDisk!Next]_(OnDisk!contractVars)
<1>0. TypeOK /\ LockExclusive
  BY ChainExcludes DEF ChainInv
<1>a. "disconnect" \notin Faults /\ "abort" \notin Faults /\ "unknown" \notin Faults /\ ~MayAbort
  BY DEF CrashesOnly, MayAbort, DiskInv
<1>b. \A i, j \in Jobs : Running(i) /\ Running(j) => i = j
  BY <1>0, LedgerAssumption DEF TradesOnly, LockExclusive, InLock, Locked
<1>c. ASSUME UNCHANGED <<snap, trades>> PROVE UNCHANGED OnDisk!contractVars
  BY <1>c DEF OnDisk!contractVars, trades
<1>d. ASSUME NEW j \in Jobs, pc[j] = "tx"
      PROVE  base[j] = snap + Unposted(j) /\ base[j] >= 0 /\ Amount[j] \in Nat /\ snap \in Int
  <2>1. Running(j)
    BY <1>d DEF Running
  <2>2. \A i \in Jobs : pc[i] # "apply"
    BY <1>d, <2>1, <1>b DEF Running
  <2> QED
    BY <1>0, <1>d, <2>1, <2>2, LedgerAssumption
       DEF DiskInv, TxBase, InStep, MoneyInv, BasesCovered, TypeOK
<1>1. ASSUME NEW j \in Jobs, DebitTx(j) PROVE OnDisk!Next
  <2>1. PICK d \in Docs : CreateTrade(j, d)
    BY <1>1, <1>a DEF DebitTx
  <2>2. snap' = base[j] /\ pc[j] = "tx" /\ Kind[j] = "debit"
    BY <1>1, <1>a DEF DebitTx
  <2>3. snap' = snap - Amount[j] /\ snap >= Amount[j]
    BY <2>2, <1>d DEF Unposted
  <2>4. OnDisk!Open(d, Amount[j])
    BY <2>1, <2>3 DEF CreateTrade, OnDisk!Open
  <2> QED
    BY <2>4 DEF OnDisk!Next, Sums
<1>2. ASSUME NEW j \in Jobs, CreditTx(j) PROVE [OnDisk!Next]_(OnDisk!contractVars)
  <2>1. CASE ClaimTrade(j) /\ snap' = base[j]
    <3>1. doc[j] \in Docs
      BY <1>2 DEF HoldsTrade, CreditTx
    <3>2. snap' = snap + Amount[j]
      BY <1>2, <2>1, <1>d DEF CreditTx, Unposted
    <3>3. OnDisk!Close(doc[j], Amount[j])
      BY <2>1, <3>2 DEF ClaimTrade, OnDisk!Close
    <3> QED
      BY <3>1, <3>3 DEF OnDisk!Next, Sums
  <2>2. CASE UNCHANGED <<snap, trades>>
    BY <2>2, <1>c
  <2> QED
    BY <1>2, <1>a, <2>1, <2>2 DEF CreditTx
<1>3. ASSUME NEW j \in Jobs,
             \/ CallDebit(j) \/ CallCredit(j) \/ StartDebit(j) \/ StartCredit(j) \/ Apply(j)
      PROVE  UNCHANGED <<snap, trades>>
  BY <1>3 DEF CallDebit, CallCredit, StartDebit, StartCredit, Apply
<1>4. CASE Restart \/ Reconnect \/ Disconnect \/ UNCHANGED vars
  BY <1>4, <1>c DEF Restart, Reconnect, Disconnect, vars
<1>5. \A j \in Jobs : /\ ~CallLocked(j) /\ ~TransferIn(j) /\ ~TransferOut(j)
                      /\ ~Deposit(j) /\ ~Withdraw(j)
                      /\ ~RecordWithdraw(j) /\ ~Persist(j) /\ ~FallbackSnapshot(j)
                      /\ ~OfflineCreate(j) /\ ~OfflineApply(j)
                      /\ ~DebitFallback(j) /\ ~CreditFallback(j)
  BY DEF CallLocked, TransferIn, TransferOut, Deposit, Withdraw, RecordWithdraw,
     Persist, FallbackSnapshot, OfflineCreate, OfflineApply, DebitFallback, CreditFallback,
     TradesOnly, DiskInv, TradePcs
<1> QED
  BY <1>1, <1>2, <1>3, <1>4, <1>5, <1>c DEF Next, Call, Step

\* What a restart would find is a wallet that opens and closes trades at single
\* points, never below zero, whatever crash interrupts a call.
THEOREM DiskImplementsContract == CrashesOnly /\ TradesOnly /\ Spec => DiskContract
<1> SUFFICES ASSUME CrashesOnly, TradesOnly PROVE Spec => DiskContract
  OBVIOUS
<1>1. Init => OnDisk!Init
  BY DEF Init, OnDisk!Init
<1>2. ChainInv /\ MoneyInv /\ DiskInv /\ HoldsTrade /\ [Next]_vars
        => [OnDisk!Next]_(OnDisk!contractVars)
  BY DiskStep
<1>3. Spec => []MoneyInv
  BY MoneyAlways, TradesMoveNothingOut
<1>4. Spec => []DiskInv
  BY DiskAlways
<1> QED
  BY <1>1, <1>2, <1>3, <1>4, ChainAlways, HoldsAlways, PTL DEF Spec, DiskContract, OnDisk!Spec

-----------------------------------------------------------------------------
(* In memory                                                               *)
(*                                                                         *)
(* With the sum in flight posted, the map is what the histories say it     *)
(* should be (Conservation), so that a call takes effect where it moves a  *)
(* history: the write of the trade, or the change of the map by a route.   *)
(* When a trade's sum is posted, long after perhaps, nothing changes.      *)

\* The map with the sum in flight posted is what the histories record.
LEMMA PostedIsBooked ==
  ASSUME Conservation PROVE Posted = Initial + external + book
<1> DEFINE P == {j \in Jobs : Pending(j)}
<1>1. CASE P = {}
  BY <1>1 DEF Posted, Conservation
<1>2. CASE P # {}
  <2>1. (CHOOSE j \in P : TRUE) \in P
    BY <1>2
  <2> QED
    BY <1>2, <2>1 DEF Posted, Conservation
<1> QED
  BY <1>1, <1>2

\* The same of the state after a step.
LEMMA PostedIsBookedNext ==
  ASSUME Conservation' PROVE Posted' = Initial + external' + book'
<1> DEFINE P == {j \in Jobs : Pending(j)'}
<1>1. CASE P = {}
  BY <1>1 DEF Posted, Conservation
<1>2. CASE P # {}
  <2>1. (CHOOSE j \in P : TRUE) \in P
    BY <1>2
  <2> QED
    BY <1>2, <2>1 DEF Posted, Conservation
<1> QED
  BY <1>1, <1>2

\* An entry in flight was covered, so that posting it leaves nothing below zero.
LEMMA PostedCovered ==
  ASSUME TypeOK, MoneyInv, BookInv PROVE Posted >= 0
<1> DEFINE P == {j \in Jobs : Pending(j)}
<1>1. CASE P = {}
  BY <1>1 DEF Posted, MoneyInv, NoOverdraft
<1>2. CASE P # {}
  <2> DEFINE j == CHOOSE j \in P : TRUE
  <2>1. j \in P
    BY <1>2
  <2>2. Posted = mem + Unposted(j)
    BY <1>2 DEF Posted
  <2>3. Kind[j] = "debit" => Spending(j)
    BY <2>1 DEF Pending, Spending, Running
  <2> QED
    BY <2>1, <2>2, <2>3, LedgerAssumption
       DEF Unposted, MoneyInv, NoOverdraft, Covered, TypeOK
<1> QED
  BY <1>1, <1>2

\* A write of a trade is its opening or closing, a route's change of the map a
\* move; no other step moves anything.
LEMMA MemoryStep ==
  ASSUME AbortsOnly, NoTransferOut, ChainInv, MoneyInv, BookInv, HoldsTrade, [Next]_vars
  PROVE  [InMemory!Next]_(InMemory!contractVars)
<1>0. TypeOK /\ TypeOK' /\ LockExclusive /\ LockExclusive' /\ BookInv'
  BY NextChain, ChainExcludes, ChainExcludesNext, NextBook DEF ChainInv
<1>a. /\ connected = TRUE
      /\ "disconnect" \notin Faults /\ "crash" \notin Faults /\ "unknown" \notin Faults
      /\ ~WriteMayFail
  BY <1>0 DEF AbortsOnly, WriteMayFail, BookInv, Online, TypeOK
<1>b. /\ Posted = Initial + external + book
      /\ Posted' = Initial + external' + book'
  BY <1>0, PostedIsBooked, PostedIsBookedNext DEF BookInv
<1>c. /\ mem \in Int /\ external \in Int /\ book \in Int /\ Initial \in Int
      /\ \A j \in Jobs : Amount[j] \in Nat /\ Amount[j] \in Sums
  BY <1>0, LedgerAssumption DEF TypeOK, Sums
<1>d. ASSUME UNCHANGED <<trades, external, book>> PROVE UNCHANGED InMemory!contractVars
  BY <1>d, <1>b DEF InMemory!contractVars, trades
<1>e. ASSUME \A i \in Jobs : ~Pending(i) PROVE Posted = mem
  BY <1>e DEF Posted
<1> USE DEF Goto, GotoWith, SetBalance
<1>1. ASSUME NEW j \in Jobs, DebitTx(j) \/ DebitFallback(j)
      PROVE  [InMemory!Next]_(InMemory!contractVars)
  <2>1. CASE UNCHANGED <<trades, book>>
    BY <1>1, <1>d, <2>1 DEF DebitTx, DebitFallback
  <2>2. ASSUME NEW d \in Docs, CreateTrade(j, d) PROVE InMemory!Next
    <3>1. Spending(j) /\ Running(j) /\ j \in Locked /\ ~Pending(j) /\ external' = external
      BY <1>1, LedgerAssumption DEF DebitTx, DebitFallback, Spending, Running, Locked, Pending
    <3>2. \A i \in Jobs : ~Pending(i)
      BY <1>0, <3>1 DEF Pending, BookInv, UnlockedPcs, LockExclusive, InLock, Running
    <3>3. Posted >= Amount[j]
      BY <1>e, <3>1, <3>2 DEF MoneyInv, Covered
    <3>4. Posted' = Posted - Amount[j]
      BY <1>b, <1>c, <2>2, <3>1 DEF CreateTrade
    <3>5. InMemory!Open(d, Amount[j])
      BY <2>2, <3>1, <3>3, <3>4 DEF CreateTrade, InMemory!Open
    <3> QED
      BY <1>c, <3>5 DEF InMemory!Next
  <2> QED
    BY <1>1, <2>1, <2>2 DEF DebitTx, DebitFallback
<1>2. ASSUME NEW j \in Jobs, CreditTx(j) \/ CreditFallback(j)
      PROVE  [InMemory!Next]_(InMemory!contractVars)
  <2>1. CASE UNCHANGED <<trades, book>>
    BY <1>2, <1>d, <2>1 DEF CreditTx, CreditFallback
  <2>2. CASE ClaimTrade(j)
    <3>1. doc[j] \in Docs /\ external' = external
      BY <1>2 DEF HoldsTrade, CreditTx, CreditFallback
    <3>2. Posted' = Posted + Amount[j]
      BY <1>b, <1>c, <2>2, <3>1 DEF ClaimTrade
    <3>3. InMemory!Close(doc[j], Amount[j])
      BY <2>2, <3>1, <3>2 DEF ClaimTrade, InMemory!Close
    <3> QED
      BY <1>c, <3>1, <3>3 DEF InMemory!Next
  <2> QED
    BY <1>2, <2>1, <2>2 DEF CreditTx, CreditFallback
<1>3. ASSUME NEW j \in Jobs, Deposit(j) \/ TransferIn(j) PROVE InMemory!Next
  <2>1. external' = external + Amount[j] /\ UNCHANGED <<trades, book>>
    BY <1>3 DEF Deposit, TransferIn
  <2>2. Posted' = Posted + Amount[j] /\ Posted + Amount[j] >= 0
    BY <1>0, <1>b, <1>c, <2>1, PostedCovered
  <2>3. InMemory!Move(Amount[j])
    BY <2>1, <2>2 DEF InMemory!Move, trades
  <2> QED
    BY <1>c, <2>3 DEF InMemory!Next
<1>4. ASSUME NEW j \in Jobs, Withdraw(j) PROVE [InMemory!Next]_(InMemory!contractVars)
  <2>1. CASE Amount[j] > mem
    BY <1>4, <1>d, <2>1 DEF Withdraw
  <2>2. CASE ~(Amount[j] > mem)
    <3>1. external' = external - Amount[j] /\ UNCHANGED <<trades, book>>
      BY <1>4, <2>2 DEF Withdraw
    <3>2. j \in Locked /\ pc'[j] = "persist" /\ \A i \in Jobs \ {j} : pc'[i] = pc[i]
      BY <1>0, <1>4, <1>a, <2>2, LedgerAssumption DEF Withdraw, Locked, TypeOK
    <3>3. \A i \in Jobs : ~Pending(i)
      BY <1>0, <1>4, <3>2 DEF Withdraw, MyTurn, Pending, BookInv, UnlockedPcs, LockExclusive,
         InLock, Running
    <3>4. Posted + (- Amount[j]) >= 0 /\ Posted' = Posted + (- Amount[j])
      BY <1>b, <1>c, <1>e, <2>2, <3>1, <3>3
    <3>5. external' = external + (- Amount[j])
      BY <1>c, <3>1
    <3>6. InMemory!Move(- Amount[j])
      BY <3>1, <3>4, <3>5 DEF InMemory!Move, trades
    <3> QED
      BY <1>c, <3>6 DEF InMemory!Next
  <2> QED
    BY <2>1, <2>2
<1>5. ASSUME NEW j \in Jobs,
             \/ CallDebit(j) \/ CallCredit(j) \/ CallLocked(j) \/ StartDebit(j) \/ StartCredit(j)
             \/ FallbackSnapshot(j) \/ Apply(j) \/ RecordWithdraw(j) \/ Persist(j)
      PROVE  UNCHANGED <<trades, external, book>>
  BY <1>5, <1>a DEF CallDebit, CallCredit, CallLocked, StartDebit, StartCredit,
     FallbackSnapshot, Apply, RecordWithdraw, Persist
<1>6. CASE UNCHANGED vars
  BY <1>6, <1>d DEF vars
<1>7. /\ ~Restart /\ ~Disconnect /\ ~Reconnect
      /\ \A j \in Jobs : ~OfflineCreate(j) /\ ~OfflineApply(j) /\ ~TransferOut(j)
  BY <1>a DEF Restart, Disconnect, Reconnect, OfflineCreate, OfflineApply, TransferOut,
     BookInv, Online, NoTransferOut
<1> QED
  BY <1>1, <1>2, <1>3, <1>4, <1>5, <1>6, <1>7, <1>d DEF Next, Call, Step

\* To its callers the wallet opens and closes trades and moves money at single
\* points, never below zero, whatever runs during their awaits.
THEOREM MemoryImplementsContract == AbortsOnly /\ NoTransferOut /\ Spec => MemoryContract
<1> SUFFICES ASSUME AbortsOnly, NoTransferOut PROVE Spec => MemoryContract
  OBVIOUS
<1>1. Init => InMemory!Init
  <2> SUFFICES ASSUME Init PROVE InMemory!Init
    OBVIOUS
  <2>1. {j \in Jobs : Pending(j)} = {}
    BY DEF Init, Pending
  <2> QED
    BY <2>1 DEF Init, InMemory!Init, Posted
<1>2. ChainInv /\ MoneyInv /\ BookInv /\ HoldsTrade /\ [Next]_vars
        => [InMemory!Next]_(InMemory!contractVars)
  BY MemoryStep
<1>3. Spec => []MoneyInv
  BY MoneyAlways
<1>4. Spec => []BookInv
  BY BookAlways
<1> QED
  BY <1>1, <1>2, <1>3, <1>4, ChainAlways, HoldsAlways, PTL
     DEF Spec, MemoryContract, InMemory!Spec

=============================================================================
